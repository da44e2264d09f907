--------------------------- MODULE MCWalletLedger ---------------------------
(* Instances of WalletLedger for TLC. *)
EXTENDS WalletLedger, TLC

On(op, w, n) == [op |-> op, from |-> w, to |-> w, amount |-> n]
Move(v, w, n) == [op |-> "transfer", from |-> v, to |-> w, amount |-> n]

\* Every operation, on a wallet that may not exist, with amounts that are
\* refused, that are affordable, that are not, and that overflow the column.
EveryOperation ==
    {On(op, 1, n) : op \in SingleOps, n \in 0 .. 2}
        \cup {Move(v, w, n) : v \in Wallets, w \in Wallets, n \in 1 .. 2}

\* Calls that compete for the same funds, and transfers around the ring of
\* three wallets in both directions.
Contending ==
    {On("debit", 1, 2), On("hold", 1, 1), On("credit", 2, 1)}
        \cup {c \in {Move(v, w, 1) : v \in Wallets, w \in Wallets} : c.from # c.to}

\* Calls that wait for each other's wallets, and two that end at once.
Waiting == {On("debit", 1, 2), Move(1, 2, 1), Move(2, 1, 1), Move(1, 1, 1)}

OneWallet == {1}
AllWallets == Wallets
FundsOnFirst == [w \in Wallets |-> IF w = 1 THEN 2 ELSE 0]
FundsOnEach == [w \in Wallets |-> 2]

Permutation == Permutations(Requests)
=============================================================================
