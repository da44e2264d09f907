---------------------------- MODULE MCWalletReads ----------------------------
(* Instances of WalletReads for TLC. *)
EXTENDS WalletReads, TLC

CONSTANTS h1, h2, x1, wh, wx, wn, o1, o2, o3

SuperAdmin == [role |-> "super_admin", hubIds |-> {}]
Rider == [role |-> "rider", hubIds |-> {}]
HubAdmin(S) == [role |-> "hub_admin", hubIds |-> S]

Asks(op, u, w, n) == [op |-> op, user |-> u, wallet |-> w, limit |-> n]

\* Every user asks for every wallet, and some walk through its transactions.
EveryRead ==
    {Asks("wallet", u, w, 1) : u \in {SuperAdmin, HubAdmin({}), HubAdmin({h2}), Rider},
                               w \in WalletIds}
        \cup {Asks("transactions", HubAdmin({h1}), w, n) : w \in Wallets, n \in {1, 2}}
        \cup {Asks("transactions", HubAdmin({h2}), wh, 1)}

TwoHubs == {h1, h2}
OneRider == {x1}
AnyWallet == {wh, wx, wn}
TwoWallets == {wh, wx}
OwnerOfEach == [w \in AnyWallet |-> IF w = wh THEN h1 ELSE x1]
FirstHub == {<<x1, h1>>}
ThreeOperations == {o1, o2, o3}
\* Transfers from the hub to the rider, and a debit of the hub.
Changes == [o \in ThreeOperations |-> IF o = o3 THEN {wh} ELSE {wh, wx}]
Permutation == Permutations({o1, o2})
=============================================================================
