----------------------------- MODULE Membership -----------------------------
(***************************************************************************)
(* Which hubs there are and which rider works for which, with one atomic   *)
(* step for each change: what HubsService and RidersService promise to     *)
(* those that read the two tables, the wallet and the sign-in among them.  *)
(***************************************************************************)
CONSTANTS Hubs, Riders, InitialHubs, InitialPairs

VARIABLES
    hubs,       \* the hubs that exist
    assigned    \* the pairs <<rider, hub>>

Init == hubs = InitialHubs /\ assigned = InitialPairs

Create(h) ==
    /\ h \notin hubs
    /\ hubs' = hubs \cup {h}
    /\ UNCHANGED assigned

Assign(x, h) ==
    /\ h \in hubs
    /\ assigned' = assigned \cup {<<x, h>>}
    /\ UNCHANGED hubs

\* A hub takes its assignments along: ON DELETE CASCADE.
Remove(h) ==
    /\ hubs' = hubs \ {h}
    /\ assigned' = {p \in assigned : p[2] # h}

Next ==
    \/ \E h \in Hubs : Create(h) \/ Remove(h)
    \/ \E x \in Riders, h \in Hubs : Assign(x, h)

Spec == Init /\ [][Next]_<<hubs, assigned>>
=============================================================================
