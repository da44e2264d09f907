------------------------------- MODULE MCTopUp -------------------------------
(* Instances of TopUp for TLC. *)
EXTENDS TopUp, TLC

CONSTANTS h1, h2, x1

SuperAdmin == [role |-> "super_admin", hubIds |-> {}]
Rider == [role |-> "rider", hubIds |-> {}]
HubAdmin(S) == [role |-> "hub_admin", hubIds |-> S]

TopUpOf(u, o, h, n) ==
    [op |-> "topUp", user |-> u, owner |-> o, query |-> NoHub, hub |-> h, amount |-> n]
WalletOf(u, o) ==
    [op |-> "byOwner", user |-> u, owner |-> o, query |-> NoHub, hub |-> NoHub, amount |-> 0]

\* Top-ups by and of everyone, with amounts that are refused, that the hub can
\* pay and that it cannot, or that the column does not take.
EveryTopUp ==
    {TopUpOf(SuperAdmin, o, NoHub, n) : o \in Owners, n \in {0, 2}}
        \cup {TopUpOf(HubAdmin(S), x1, h, 1) : S \in SUBSET Hubs, h \in Hubs \cup {NoHub}}
        \* One hub in the query, another in the body.
        \cup {[TopUpOf(HubAdmin({h1}), x1, h2, 1) EXCEPT !.query = h] : h \in Hubs}
        \cup {TopUpOf(HubAdmin(Hubs), x1, h1, n) : n \in {0, 3}}
        \cup {TopUpOf(HubAdmin(Hubs), h1, NoHub, 1), TopUpOf(Rider, x1, NoHub, 1)}

EveryRead ==
    {WalletOf(u, o) : u \in {SuperAdmin, HubAdmin({}), HubAdmin({h1})}, o \in Owners}

EveryCall == EveryTopUp \cup EveryRead

TwoHubs == {h1, h2}
OneRider == {x1}
FirstHub == {<<x1, h1>>}
FirstWallets == {h1, x1}
FundsOnFirst == [o \in Owners |-> IF o = h1 THEN 2 ELSE 0]
Permutation == Permutations(Requests)
=============================================================================
