----------------------------- MODULE MCDirectory -----------------------------
(* Instances of Directory for TLC. *)
EXTENDS Directory, TLC

CONSTANTS h1, x1, p1, p2, a1

SuperAdmin == [role |-> "super_admin", hubIds |-> {}]
HubAdmin == [role |-> "hub_admin", hubIds |-> {h1}]
\* The hub admin of the hub that request h creates.
AdminOf(h) == [role |-> "hub_admin", hubIds |-> {h}]
NoHubAdmin == [role |-> "hub_admin", hubIds |-> {}]
Rider == [role |-> "rider", hubIds |-> {}]

By(u, op) == [op |-> op, user |-> u, query |-> NoHub, hub |-> NoHub, rider |-> Nobody,
              phone |-> Nobody, area |-> Nobody, page |-> 1, limit |-> 2]

OfRiders ==
    {[By(u, "createRider") EXCEPT !.hub = h1, !.phone = p2] : u \in {SuperAdmin, HubAdmin}}
        \cup {[By(u, "assignHub") EXCEPT !.hub = h1, !.rider = x] :
                  u \in {SuperAdmin, HubAdmin}, x \in Riders}
        \cup {[By(HubAdmin, "assignArea") EXCEPT !.rider = x1, !.area = a] : a \in AreaIds}
        \cup {[By(HubAdmin, "updateStatus") EXCEPT !.rider = x] : x \in Riders}
        \cup {[By(SuperAdmin, "updateStatus") EXCEPT !.rider = x1]}

OfHubs(u) ==
    {By(u, "createHub"), [By(u, "updateHub") EXCEPT !.hub = h1]}
        \cup {[By(u, "removeHub") EXCEPT !.hub = h] : h \in Hubs}

\* Of one hub or two, of none, and a second page.
Reads ==
    {By(u, "findRiders") : u \in {HubAdmin, NoHubAdmin}}
        \cup {By(AdminOf(h), "findRiders") : h \in Requests}
        \cup {By(HubAdmin, "findHubs"),
              [By(SuperAdmin, "findRiders") EXCEPT !.page = 2, !.limit = 1],
              [By(HubAdmin, "findHub") EXCEPT !.hub = h1],
              [By(HubAdmin, "findRider") EXCEPT !.rider = x1],
              [By(NoHubAdmin, "findHub") EXCEPT !.hub = h1],
              [By(HubAdmin, "findHubs") EXCEPT !.query = h1]}

\* Every operation, by every kind of user.
EveryOperation ==
    OfRiders \cup OfHubs(SuperAdmin) \cup Reads
        \cup {[By(AdminOf(h), "assignHub") EXCEPT !.hub = h, !.rider = x1] : h \in Requests}
        \cup {[By(AdminOf(h), "updateStatus") EXCEPT !.rider = x1] : h \in Requests}
        \* One hub in the query, another in the body.
        \cup {[By(HubAdmin, "assignHub") EXCEPT !.query = h1, !.hub = h, !.rider = x1] :
                  h \in Requests}
        \cup {[By(HubAdmin, "removeHub") EXCEPT !.hub = h1],
              [By(Rider, "updateStatus") EXCEPT !.rider = x1],
              [By(SuperAdmin, "createRider") EXCEPT !.hub = h1, !.phone = p1]}

OneHub == {h1}
HubsAndNew == {h1} \cup Requests
OneRider == {x1}
FirstUser == {[id |-> x1, phone |-> p1]}
FirstRow == {[rider |-> x1, hub |-> h1, by |-> Nobody]}
OneArea == {a1}
Permutation == Permutations(Requests)
=============================================================================
