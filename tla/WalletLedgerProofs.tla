------------------------- MODULE WalletLedgerProofs -------------------------
(***************************************************************************)
(* Theorems about WalletLedger, for every number of wallets and requests,  *)
(* every mix of calls, every pool size and every opening balance.          *)
(***************************************************************************)
EXTENDS WalletLedger, TotalsProofs, SequenceTheorems

-----------------------------------------------------------------------------
(* The inductive invariant.  BalanceMatchesLedger is not inductive: that a    *)
(* COMMIT extends the ledger correctly rests on the committed balance being   *)
(* still the one that was read, so on the row locks, on the check having been *)
(* made on that balance, and on every update and insert having been made.     *)

\* From the last lock to COMMIT the transaction holds all the rows it needs.
HoldsAll == {"reading", "checking", "updating", "inserting", "committing"}
HasRead  == {"checking", "updating", "inserting", "committing"}
HasFunds == {"updating", "inserting", "committing"}

\* Row locks are exclusive.
LocksExclude ==
    \A r, q \in Requests : r # q => held[r] \cap held[q] = {}

\* A transaction locks its own wallets, in ascending order, and keeps them.
LockInv(r) ==
    /\ held[r] \subseteq Parties(call[r]) \cap wallets
    /\ pc[r] \in {"called", "answering", "done"} => held[r] = {}
    /\ pc[r] \in HoldsAll => held[r] = Parties(call[r])
    /\ \A v \in held[r] : \A w \in Parties(call[r]) \ held[r] : v < w

\* What a transaction has read under its locks is still the committed balance.
ReadInv(r) ==
    /\ pc[r] # "called" /\ pc[r] # "done" => Valid(call[r])
    /\ pc[r] \in {"called", "locking"} => seen[r] = NothingRead
    /\ pc[r] = "reading" =>
          /\ call[r].op = "transfer"
          /\ seen[r][call[r].to] = Unread
          /\ seen[r][call[r].from] \in {Unread, balance[call[r].from]}
          /\ \A w \in Wallets \ Parties(call[r]) : seen[r][w] = Unread
    /\ pc[r] \in HasRead => \A w \in Parties(call[r]) : seen[r][w] = balance[w]
    /\ pc[r] \in HasFunds /\ NeedsFunds(call[r]) =>
          seen[r][call[r].from] >= call[r].amount

\* Which updates and inserts have been made, and that they fit the column.
WriteInv(r) ==
    /\ pc[r] \notin HasFunds \cup {"aborting"} => written[r] = {} /\ inserted[r] = {}
    /\ pc[r] = "updating" =>
          /\ written[r] \subseteq Parties(call[r]) \ {call[r].to}
          /\ inserted[r] = {}
    /\ pc[r] \in {"inserting", "committing"} => written[r] = Parties(call[r])
    /\ pc[r] = "inserting" => inserted[r] \subseteq Parties(call[r]) \ {call[r].to}
    /\ pc[r] = "committing" => inserted[r] = Parties(call[r])
    /\ pc[r] \in HasFunds => \A w \in written[r] : After(r, w) \in 0 .. MaxBalance

Funded == \A w \in Wallets : balance[w] >= 0

IInv ==
    /\ TypeOK
    /\ LocksExclude
    /\ \A r \in Requests : LockInv(r) /\ ReadInv(r) /\ WriteInv(r)
    /\ Funded

-----------------------------------------------------------------------------
\* What the assumptions on the constants give a step: the call of a request is
\* one of those offered, and its wallets and amount have their types.
LEMMA CallFacts ==
    ASSUME TypeOK, NEW r \in Requests
    PROVE  /\ call[r] \in Offered
           /\ call[r].op \in Ops
           /\ call[r].from \in Wallets
           /\ call[r].to \in Wallets
           /\ call[r].amount \in Int
           /\ call[r].op \in SingleOps => call[r].from = call[r].to
           /\ Parties(call[r]) \subseteq Wallets
           /\ \A w \in Wallets : Delta(call[r], w) \in Int
BY WalletOpsAssumption DEF TypeOK, Calls, Parties, Delta

LEMMA InitInvariant == Init => IInv
<1> SUFFICES ASSUME Init PROVE IInv
    OBVIOUS
<1>1. TypeOK
    BY WalletOpsAssumption, WalletLedgerAssumption
    DEF Init, TypeOK, Phases, Balances, NothingRead, Unread, Wallets
<1>2. LocksExclude /\ Funded
    BY WalletLedgerAssumption DEF Init, LocksExclude, Funded, Wallets
<1>3. ASSUME NEW r \in Requests PROVE LockInv(r) /\ ReadInv(r) /\ WriteInv(r)
    BY <1>1, CallFacts
    DEF Init, LockInv, ReadInv, WriteInv, HoldsAll, HasRead, HasFunds
<1> QED
    BY <1>1, <1>2, <1>3 DEF IInv

\* A step leaves the invariants of a request alone when it leaves the request
\* alone, deletes no wallet, and changes no balance the request has locked.
LEMMA Frame ==
    ASSUME NEW q \in Requests,
           LockInv(q), ReadInv(q), WriteInv(q),
           call' = call, wallets \subseteq wallets',
           pc'[q] = pc[q], held'[q] = held[q], seen'[q] = seen[q],
           written'[q] = written[q], inserted'[q] = inserted[q],
           \A w \in held[q] : balance'[w] = balance[w]
    PROVE  LockInv(q)' /\ ReadInv(q)' /\ WriteInv(q)'
<1>1. LockInv(q)'
    BY DEF LockInv, Parties
<1>2. WriteInv(q)'
    BY DEF WriteInv, Parties, After
<1>3. ReadInv(q)'
    <2>1. pc[q] \in HoldsAll => \A w \in Parties(call[q]) : balance'[w] = balance[w]
        BY DEF LockInv
    <2> QED
        BY <2>1 DEF ReadInv, Parties, HoldsAll, HasRead, HasFunds
<1> QED
    BY <1>1, <1>2, <1>3

\* The step of request r changes no other request and nothing committed.
LEMMA LocalStep ==
    ASSUME IInv, NEW r \in Requests,
           UNCHANGED <<database, call>>,
           TypeOK', LockInv(r)', ReadInv(r)', WriteInv(r)',
           LocksExclude',
           \A q \in Requests \ {r} :
              /\ pc'[q] = pc[q] /\ held'[q] = held[q] /\ seen'[q] = seen[q]
              /\ written'[q] = written[q] /\ inserted'[q] = inserted[q]
    PROVE  IInv'
<1>1. ASSUME NEW q \in Requests, q # r
      PROVE  LockInv(q)' /\ ReadInv(q)' /\ WriteInv(q)'
    BY <1>1, Frame DEF IInv, database
<1>2. Funded'
    BY DEF IInv, Funded, database
<1> QED
    BY <1>1, <1>2 DEF IInv

LEMMA RejectInvariant ==
    ASSUME IInv, NEW r \in Requests, Reject(r) PROVE IInv'
<1>1. TypeOK'
    BY DEF IInv, TypeOK, Reject, database, Phases, Results, Refusals
<1>2. LocksExclude'
    BY DEF IInv, LocksExclude, Reject
<1>3. LockInv(r)' /\ ReadInv(r)' /\ WriteInv(r)'
    BY DEF IInv, TypeOK, LockInv, ReadInv, WriteInv, Reject, database,
           HoldsAll, HasRead, HasFunds
<1> QED
    BY <1>1, <1>2, <1>3, LocalStep DEF IInv, TypeOK, Reject

LEMMA BeginInvariant ==
    ASSUME IInv, NEW r \in Requests, Begin(r) PROVE IInv'
<1>1. TypeOK'
    BY DEF IInv, TypeOK, Begin, database, Phases, InTransaction
<1>2. LocksExclude'
    BY DEF IInv, LocksExclude, Begin
<1>3. LockInv(r)' /\ ReadInv(r)' /\ WriteInv(r)'
    BY DEF IInv, TypeOK, LockInv, ReadInv, WriteInv, Begin, database,
           HoldsAll, HasRead, HasFunds
<1> QED
    BY <1>1, <1>2, <1>3, LocalStep DEF IInv, TypeOK, Begin

\* An exception in a transaction keeps its locks until the rollback.
LEMMA AbortInvariant ==
    ASSUME IInv, NEW r \in Requests, NEW why \in Results,
           pc[r] \in InTransaction, Abort(r, why),
           UNCHANGED <<database, call, held, seen, written, inserted>>
    PROVE  IInv'
<1>1. TypeOK'
    BY DEF IInv, TypeOK, Abort, database, Phases
<1>2. LocksExclude'
    BY DEF IInv, LocksExclude
<1>3. LockInv(r)' /\ ReadInv(r)' /\ WriteInv(r)'
    BY DEF IInv, TypeOK, LockInv, ReadInv, WriteInv, Abort, database,
           InTransaction, HoldsAll, HasRead, HasFunds
<1> QED
    BY <1>1, <1>2, <1>3, LocalStep DEF IInv, TypeOK, Abort

LEMMA LockWalletInvariant ==
    ASSUME IInv, NEW r \in Requests, NEW w \in Wallets, LockWallet(r, w)
    PROVE  IInv'
<1>1. TypeOK'
    <2>1. pc' \in [Requests -> Phases] /\ held' \in [Requests -> SUBSET Wallets]
        BY DEF IInv, TypeOK, LockWallet, Phases, InTransaction
    <2>2. seen' \in [Requests -> [Wallets -> Balances \cup {Unread}]]
        <3>1. [seen[r] EXCEPT ![w] = balance[w]] \in [Wallets -> Balances \cup {Unread}]
            BY DEF IInv, TypeOK
        <3>2. \/ seen' = seen
              \/ seen' = [seen EXCEPT ![r] = [seen[r] EXCEPT ![w] = balance[w]]]
            BY DEF LockWallet
        <3> QED
            BY <3>1, <3>2 DEF IInv, TypeOK
    <2> QED
        BY <2>1, <2>2 DEF IInv, TypeOK, LockWallet, database
<1>2. LocksExclude'
    BY DEF IInv, TypeOK, LocksExclude, LockWallet
<1>3. held'[r] = held[r] \cup {w} /\ w \in Parties(call[r]) /\ w \in wallets
    BY DEF IInv, TypeOK, LockWallet, Locks
<1>4. LockInv(r)'
    <2>1. held'[r] \subseteq Parties(call[r]) \cap wallets
        BY <1>3 DEF IInv, LockInv
    <2>2. \A v \in held'[r] : \A u \in Parties(call[r]) \ held'[r] : v < u
        BY <1>3, CallFacts DEF IInv, LockInv, LockWallet, Locks, Wallets
    <2>3. pc'[r] \in {"locking", "reading", "checking"}
        BY DEF IInv, TypeOK, LockWallet
    <2>4. pc'[r] \in HoldsAll => held'[r] = Parties(call[r])
        BY <1>3, <2>1, CallFacts
        DEF IInv, TypeOK, LockWallet, HoldsAll, Parties, SingleOps
    <2> QED
        BY <2>1, <2>2, <2>3, <2>4 DEF LockInv, LockWallet, database, Parties
<1>5. ReadInv(r)'
    <2>1. Valid(call[r]) /\ seen[r] = NothingRead
        BY DEF IInv, ReadInv, LockWallet, Locks
    <2>2. CASE call[r].op \in SingleOps
        <3>1. Parties(call[r]) = {w}
            BY <1>3, <2>2, CallFacts DEF IInv, Parties
        <3>2. pc'[r] = "checking" /\ seen'[r][w] = balance[w]
            BY <2>2 DEF IInv, TypeOK, LockWallet, SingleOps
        <3> QED
            BY <2>1, <3>1, <3>2
            DEF ReadInv, LockWallet, database, Parties, HasRead, HasFunds
    <2>3. CASE call[r].op = "transfer"
        <3>1. pc'[r] \in {"locking", "reading"} /\ seen'[r] = NothingRead
            BY <2>1, <2>3 DEF IInv, TypeOK, LockWallet, SingleOps
        <3> QED
            BY <2>1, <2>3, <3>1, CallFacts
            DEF IInv, ReadInv, LockWallet, database, NothingRead, HasRead, HasFunds
    <2> QED
        BY <2>2, <2>3, CallFacts DEF IInv, Ops
<1>6. WriteInv(r)'
    BY DEF IInv, TypeOK, WriteInv, LockWallet, Locks, HasFunds
<1> QED
    BY <1>1, <1>2, <1>4, <1>5, <1>6, LocalStep DEF IInv, TypeOK, LockWallet

LEMMA LockMissingInvariant ==
    ASSUME IInv, NEW r \in Requests, NEW w \in Wallets, LockMissing(r, w)
    PROVE  IInv'
BY AbortInvariant DEF LockMissing, Locks, Results, Refusals, InTransaction

LEMMA ReadWalletInvariant ==
    ASSUME IInv, NEW r \in Requests, ReadWallet(r) PROVE IInv'
<1> DEFINE w == NextParty(call[r], {v \in Wallets : seen[r][v] # Unread})
<1>1. w \in Parties(call[r]) /\ w \in Wallets
    BY CallFacts DEF IInv, NextParty, Parties
<1>2. TypeOK'
    BY <1>1 DEF IInv, TypeOK, ReadWallet, database, Phases, InTransaction
<1>3. LocksExclude'
    BY DEF IInv, LocksExclude, ReadWallet
<1>4. LockInv(r)' /\ WriteInv(r)'
    BY DEF IInv, TypeOK, LockInv, WriteInv, ReadWallet, database, Parties,
           HoldsAll, HasFunds
<1>5. ReadInv(r)'
    <2>1. balance[call[r].from] # Unread /\ balance[call[r].from] \in Int
        BY CallFacts, WalletOpsAssumption DEF IInv, TypeOK, Unread, Balances
    <2>2. Valid(call[r]) /\ call[r].from # call[r].to
        BY DEF IInv, ReadInv, ReadWallet, Valid
    <2>3. CASE seen[r][call[r].from] = Unread
        <3>1. w = call[r].from
            BY <2>3 DEF NextParty
        <3> QED
            BY <2>1, <2>2, <2>3, <3>1, CallFacts
            DEF IInv, TypeOK, ReadInv, ReadWallet, database, Parties,
                HasRead, HasFunds
    <2>4. CASE seen[r][call[r].from] # Unread
        <3>1. w = call[r].to
            BY <2>4, CallFacts DEF IInv, NextParty
        <3> QED
            BY <2>1, <2>2, <2>4, <3>1, CallFacts
            DEF IInv, TypeOK, ReadInv, ReadWallet, database, Parties,
                HasRead, HasFunds
    <2> QED
        BY <2>3, <2>4
<1> QED
    BY <1>2, <1>3, <1>4, <1>5, LocalStep DEF IInv, TypeOK, ReadWallet

LEMMA CheckBalanceInvariant ==
    ASSUME IInv, NEW r \in Requests, CheckBalance(r) PROVE IInv'
<1>1. CASE NeedsFunds(call[r]) /\ seen[r][call[r].from] < call[r].amount
    BY <1>1, AbortInvariant DEF CheckBalance, Results, Refusals, InTransaction
<1>2. CASE ~(NeedsFunds(call[r]) /\ seen[r][call[r].from] < call[r].amount)
    <2>1. TypeOK'
        BY <1>2 DEF IInv, TypeOK, CheckBalance, database, Phases, InTransaction
    <2>2. LocksExclude'
        BY DEF IInv, LocksExclude, CheckBalance
    <2>3. LockInv(r)' /\ WriteInv(r)'
        BY <1>2 DEF IInv, TypeOK, LockInv, WriteInv, CheckBalance, database,
                    Parties, HoldsAll, HasFunds
    <2>4. seen[r][call[r].from] \in Int
        BY CallFacts, WalletOpsAssumption DEF IInv, TypeOK, Balances, Unread
    <2>5. ReadInv(r)'
        BY <1>2, <2>4, CallFacts
        DEF IInv, TypeOK, ReadInv, CheckBalance, database, Parties,
            HasRead, HasFunds
    <2> QED
        BY <1>2, <2>1, <2>2, <2>3, <2>5, LocalStep DEF IInv, TypeOK, CheckBalance
<1> QED
    BY <1>1, <1>2

\* What a transaction that has passed its check will write.
LEMMA AfterFacts ==
    ASSUME IInv, NEW r \in Requests, pc[r] \in HasFunds,
           NEW w \in Parties(call[r])
    PROVE  /\ w \in Wallets
           /\ After(r, w) = balance[w] + Delta(call[r], w)
           /\ After(r, w) \in Int
           /\ After(r, w) >= 0
<1>1. w \in Wallets
    BY CallFacts DEF IInv
<1>2. balance[w] \in Int /\ balance[w] >= 0
    BY <1>1, WalletOpsAssumption DEF IInv, TypeOK, Funded, Balances
<1>3. Valid(call[r]) /\ seen[r][w] = balance[w]
    BY DEF IInv, ReadInv, HasFunds, HasRead
<1>4. NeedsFunds(call[r]) /\ w = call[r].from => balance[w] >= call[r].amount
    BY <1>3 DEF IInv, ReadInv
<1> QED
    BY <1>1, <1>2, <1>3, <1>4, CallFacts DEF IInv, After, Delta, Valid

LEMMA UpdateWalletInvariant ==
    ASSUME IInv, NEW r \in Requests, UpdateWallet(r) PROVE IInv'
<1> DEFINE w == NextParty(call[r], written[r])
<1>1. CASE After(r, w) > MaxBalance
    BY <1>1, AbortInvariant DEF UpdateWallet, Results, InTransaction
<1>2. CASE ~(After(r, w) > MaxBalance)
    <2>1. w \in Parties(call[r]) /\ w \in Wallets
        BY CallFacts DEF IInv, NextParty, Parties
    <2>2. After(r, w) \in 0 .. MaxBalance
        BY <1>2, <2>1, AfterFacts, WalletOpsAssumption DEF UpdateWallet, HasFunds
    <2>3. TypeOK'
        <3>1. pc' \in [Requests -> Phases]
            BY <1>2 DEF IInv, TypeOK, UpdateWallet, Phases, InTransaction
        <3>2. written' \in [Requests -> SUBSET Wallets]
            <4>1. written' = [written EXCEPT ![r] = written[r] \cup {w}]
                BY <1>2 DEF UpdateWallet
            <4> HIDE DEF w
            <4> QED
                BY <2>1, <4>1 DEF IInv, TypeOK
        <3> QED
            BY <1>2, <3>1, <3>2 DEF IInv, TypeOK, UpdateWallet, database
    <2>4. LocksExclude'
        BY DEF IInv, LocksExclude, UpdateWallet
    <2>5. LockInv(r)' /\ ReadInv(r)'
        BY <1>2 DEF IInv, TypeOK, LockInv, ReadInv, UpdateWallet, database,
                    Parties, HoldsAll, HasRead, HasFunds
    <2>6. WriteInv(r)'
        <3>1. w = call[r].to => written'[r] = Parties(call[r])
            BY <1>2, <2>1 DEF IInv, TypeOK, WriteInv, UpdateWallet, NextParty, Parties
        <3> QED
            BY <1>2, <2>1, <2>2, <3>1
            DEF IInv, TypeOK, WriteInv, UpdateWallet, After, Parties, HasFunds
    <2> QED
        BY <1>2, <2>3, <2>4, <2>5, <2>6, LocalStep DEF IInv, TypeOK, UpdateWallet
<1> QED
    BY <1>1, <1>2

LEMMA InsertTransactionInvariant ==
    ASSUME IInv, NEW r \in Requests, InsertTransaction(r) PROVE IInv'
<1> DEFINE w == NextParty(call[r], inserted[r])
<1>1. w \in Parties(call[r]) /\ w \in Wallets
    BY CallFacts DEF IInv, NextParty, Parties
<1>2. TypeOK'
    BY <1>1 DEF IInv, TypeOK, InsertTransaction, database, Phases, InTransaction
<1>3. LocksExclude'
    BY DEF IInv, LocksExclude, InsertTransaction
<1>4. LockInv(r)' /\ ReadInv(r)'
    BY DEF IInv, TypeOK, LockInv, ReadInv, InsertTransaction, database,
           Parties, HoldsAll, HasRead, HasFunds
<1>5. WriteInv(r)'
    <2>1. w = call[r].to => inserted'[r] = Parties(call[r])
        BY <1>1 DEF IInv, TypeOK, WriteInv, InsertTransaction, NextParty, Parties
    <2> QED
        BY <1>1, <2>1
        DEF IInv, TypeOK, WriteInv, InsertTransaction, After, Parties, HasFunds
<1> QED
    BY <1>2, <1>3, <1>4, <1>5, LocalStep DEF IInv, TypeOK, InsertTransaction

LEMMA RowFacts ==
    ASSUME NEW r \in Requests, NEW c \in Calls, NEW w \in Wallets,
           NEW after \in Balances
    PROVE  Row(r, c, w, after) \in Rows
<1>1. RowType(c, w) \in RowTypes
    BY DEF RowType, RowTypes
<1>2. Delta(c, w) \in Int
    BY DEF Delta, Calls
<1> QED
    BY <1>1, <1>2 DEF Row, Rows

\* COMMIT moves exactly the request's wallets, each by the call's amount.
LEMMA CommitFacts ==
    ASSUME IInv, NEW r \in Requests, Commit(r)
    PROVE  /\ held[r] = Parties(call[r])
           /\ \A w \in Parties(call[r]) :
                 /\ After(r, w) \in 0 .. MaxBalance
                 /\ After(r, w) = balance[w] + Delta(call[r], w)
           /\ balance' = [w \in Wallets |->
                            IF w \in Parties(call[r]) THEN After(r, w) ELSE balance[w]]
           /\ ledger' = [w \in Wallets |->
                           IF w \in Parties(call[r])
                           THEN Append(ledger[w], Row(r, call[r], w, After(r, w)))
                           ELSE ledger[w]]
<1>1. pc[r] = "committing"
    BY DEF Commit
<1>2. /\ held[r] = Parties(call[r])
      /\ written[r] = Parties(call[r])
      /\ inserted[r] = Parties(call[r])
      /\ \A w \in written[r] : After(r, w) \in 0 .. MaxBalance
    BY <1>1 DEF IInv, LockInv, WriteInv, HoldsAll, HasFunds
<1>3. \A w \in Parties(call[r]) : After(r, w) = balance[w] + Delta(call[r], w)
    BY <1>1, AfterFacts DEF HasFunds
<1> QED
    BY <1>2, <1>3 DEF Commit

LEMMA CommitInvariant ==
    ASSUME IInv, NEW r \in Requests, Commit(r) PROVE IInv'
<1>1. TypeOK'
    <2>1. balance' \in [Wallets -> Balances]
        BY CommitFacts, WalletOpsAssumption DEF IInv, TypeOK, Balances
    <2>2. ledger' \in [Wallets -> Seq(Rows)]
        <3>1. ASSUME NEW w \in Parties(call[r]), w \in Wallets
              PROVE  Row(r, call[r], w, After(r, w)) \in Rows
            <4>1. After(r, w) \in Balances /\ call[r] \in Calls
                BY CommitFacts, CallFacts, WalletOpsAssumption DEF IInv, Balances
            <4> QED
                BY <3>1, <4>1, RowFacts
        <3>2. ASSUME NEW w \in Wallets PROVE ledger'[w] \in Seq(Rows)
            <4>1. ledger[w] \in Seq(Rows)
                BY DEF IInv, TypeOK
            <4>2. CASE w \in Parties(call[r])
                <5>1. ledger'[w] = Append(ledger[w], Row(r, call[r], w, After(r, w)))
                    BY <4>2, CommitFacts
                <5> QED
                    BY <4>1, <4>2, <5>1, <3>1
            <4>3. CASE w \notin Parties(call[r])
                BY <4>1, <4>3, CommitFacts
            <4> QED
                BY <4>2, <4>3
        <3> QED
            BY <3>2, CommitFacts
    <2>3. pc' \in [Requests -> Phases]
        BY DEF IInv, TypeOK, Commit, Phases
    <2> QED
        BY <2>1, <2>2, <2>3 DEF IInv, TypeOK, Commit, EndTransaction
<1>2. LocksExclude'
    BY DEF IInv, TypeOK, LocksExclude, Commit, EndTransaction
<1>3. LockInv(r)' /\ ReadInv(r)' /\ WriteInv(r)'
    <2>1. /\ pc'[r] = "answering" /\ call' = call
          /\ held'[r] = {} /\ written'[r] = {} /\ inserted'[r] = {}
        BY DEF IInv, TypeOK, Commit, EndTransaction
    <2>2. Valid(call[r])
        BY DEF IInv, ReadInv, Commit
    <2> QED
        BY <2>1, <2>2 DEF LockInv, ReadInv, WriteInv, HoldsAll, HasRead, HasFunds
<1>4. ASSUME NEW q \in Requests, q # r
      PROVE  LockInv(q)' /\ ReadInv(q)' /\ WriteInv(q)'
    <2>1. held[q] \subseteq Wallets /\ held[q] \cap Parties(call[r]) = {}
        BY <1>4, CommitFacts DEF IInv, TypeOK, LocksExclude
    <2>2. \A w \in held[q] : balance'[w] = balance[w]
        BY <2>1, CommitFacts
    <2>3. /\ pc'[q] = pc[q] /\ held'[q] = held[q] /\ seen'[q] = seen[q]
          /\ written'[q] = written[q] /\ inserted'[q] = inserted[q]
        BY <1>4 DEF IInv, TypeOK, Commit, EndTransaction
    <2> QED
        BY <2>2, <2>3, Frame DEF IInv, Commit
<1>5. Funded'
    BY CommitFacts, WalletOpsAssumption DEF IInv, Funded
<1> QED
    BY <1>1, <1>2, <1>3, <1>4, <1>5 DEF IInv

LEMMA RollbackInvariant ==
    ASSUME IInv, NEW r \in Requests, Rollback(r) PROVE IInv'
<1>1. TypeOK'
    BY DEF IInv, TypeOK, Rollback, EndTransaction, database, Phases
<1>2. LocksExclude'
    BY DEF IInv, TypeOK, LocksExclude, Rollback, EndTransaction
<1>3. LockInv(r)' /\ ReadInv(r)' /\ WriteInv(r)'
    BY DEF IInv, TypeOK, LockInv, ReadInv, WriteInv, Rollback, EndTransaction,
           HoldsAll, HasRead, HasFunds
<1> QED
    BY <1>1, <1>2, <1>3, LocalStep DEF IInv, TypeOK, Rollback, EndTransaction

LEMMA AnswerInvariant ==
    ASSUME IInv, NEW r \in Requests, Answer(r) \/ AnswerFails(r) PROVE IInv'
<1>1. TypeOK'
    BY DEF IInv, TypeOK, Answer, AnswerFails, database, Phases, Results
<1>2. LocksExclude'
    BY DEF IInv, LocksExclude, Answer, AnswerFails
<1>3. LockInv(r)' /\ ReadInv(r)' /\ WriteInv(r)'
    BY DEF IInv, TypeOK, LockInv, ReadInv, WriteInv, Answer, AnswerFails, database,
           HoldsAll, HasRead, HasFunds
<1> QED
    BY <1>1, <1>2, <1>3, LocalStep DEF IInv, TypeOK, Answer, AnswerFails

LEMMA CrashInvariant == ASSUME IInv, Crash PROVE IInv'
<1>1. TypeOK'
    BY DEF IInv, TypeOK, Crash, database, Phases, Results
<1>2. LocksExclude' /\ Funded'
    BY DEF IInv, LocksExclude, Funded, Crash, database
<1>3. ASSUME NEW q \in Requests
      PROVE  LockInv(q)' /\ ReadInv(q)' /\ WriteInv(q)'
    <2>1. CASE pc'[q] = pc[q]
        BY <2>1, Frame DEF IInv, Crash, database
    <2>2. CASE pc'[q] # pc[q]
        <3>1. \/ pc[q] = "answering" /\ pc'[q] = "done"
              \/ pc[q] \notin {"called", "answering", "done"} /\ pc'[q] = "aborting"
            BY <2>2 DEF IInv, TypeOK, Crash
        <3> QED
            BY <3>1 DEF IInv, TypeOK, LockInv, ReadInv, WriteInv, Crash, database,
                        HoldsAll, HasRead, HasFunds
    <2> QED
        BY <2>1, <2>2
<1> QED
    BY <1>1, <1>2, <1>3 DEF IInv

LEMMA OpenWalletInvariant ==
    ASSUME IInv, NEW w \in Wallets, OpenWallet(w) PROVE IInv'
<1>1. TypeOK'
    BY DEF IInv, TypeOK, OpenWallet
<1>2. LocksExclude' /\ Funded'
    BY DEF IInv, LocksExclude, Funded, OpenWallet
<1>3. \A q \in Requests : LockInv(q)' /\ ReadInv(q)' /\ WriteInv(q)'
    BY Frame DEF IInv, OpenWallet
<1> QED
    BY <1>1, <1>2, <1>3 DEF IInv

LEMMA NextInvariant == IInv /\ [Next]_vars => IInv'
<1> SUFFICES ASSUME IInv, [Next]_vars PROVE IInv'
    OBVIOUS
<1>1. ASSUME NEW r \in Requests, Progress(r) PROVE IInv'
    BY <1>1, RejectInvariant, BeginInvariant, LockWalletInvariant,
       LockMissingInvariant, ReadWalletInvariant, CheckBalanceInvariant,
       UpdateWalletInvariant, InsertTransactionInvariant, CommitInvariant,
       RollbackInvariant, AnswerInvariant
    DEF Progress
<1>2. ASSUME NEW r \in Requests, StatementFails(r) PROVE IInv'
    BY <1>2, AbortInvariant DEF StatementFails, Results
<1>3. CASE UNCHANGED vars
    <2>1. TypeOK' /\ LocksExclude' /\ Funded'
        BY <1>3 DEF IInv, TypeOK, LocksExclude, Funded, vars
    <2>2. \A q \in Requests : LockInv(q)' /\ ReadInv(q)' /\ WriteInv(q)'
        BY <1>3, Frame DEF IInv, vars
    <2> QED
        BY <2>1, <2>2 DEF IInv
<1> QED
    BY <1>1, <1>2, <1>3, AnswerInvariant, OpenWalletInvariant, CrashInvariant DEF Next

LEMMA Invariant == Spec => []IInv
BY InitInvariant, NextInvariant, PTL DEF Spec

\* Every variable keeps its type: in particular current_balance stays within
\* the column, whatever the calls and the failures.
THEOREM TypeCorrect == Spec => []TypeOK
<1>1. IInv => TypeOK
    BY DEF IInv
<1> QED
    BY <1>1, Invariant, PTL

-----------------------------------------------------------------------------
(* The balances agree with the ledger. *)

\* COMMIT is the only step that writes balances or rows.
LEMMA OnlyCommitWrites ==
    ASSUME [Next]_vars
    PROVE  \/ UNCHANGED <<balance, ledger>>
           \/ \E r \in Requests : Commit(r)
<1>1. CASE UNCHANGED vars
    BY <1>1 DEF vars
<1>2. ASSUME NEW r \in Requests, Progress(r), ~Commit(r)
      PROVE  UNCHANGED <<balance, ledger>>
    BY <1>2 DEF Progress, Reject, Begin, LockWallet, LockMissing, ReadWallet,
                CheckBalance, UpdateWallet, InsertTransaction, Rollback, Answer,
                database
<1>3. ASSUME NEW r \in Requests, StatementFails(r) \/ AnswerFails(r)
      PROVE  UNCHANGED <<balance, ledger>>
    BY <1>3 DEF StatementFails, AnswerFails, database
<1>4. ASSUME NEW w \in Wallets, OpenWallet(w) PROVE UNCHANGED <<balance, ledger>>
    BY <1>4 DEF OpenWallet
<1>5. CASE Crash
    BY <1>5 DEF Crash, database
<1> QED
    BY <1>1, <1>2, <1>3, <1>4, <1>5 DEF Next

\* A ledger s that starts from the balance o explains the balance b.
Explains(o, s, b) ==
    /\ \A n \in 1 .. Len(s) :
          /\ s[n].balanceAfter
                = (IF n - 1 = 0 THEN o ELSE s[n - 1].balanceAfter) + s[n].amount
          /\ s[n].balanceAfter >= 0
    /\ b = IF Len(s) = 0 THEN o ELSE s[Len(s)].balanceAfter

LEMMA ExplainedByAppend ==
    ASSUME NEW o, NEW b, NEW s \in Seq(Rows), NEW x \in Rows,
           Explains(o, s, b), x.balanceAfter = b + x.amount, x.balanceAfter >= 0
    PROVE  Explains(o, Append(s, x), x.balanceAfter)
<1> DEFINE t == Append(s, x)
<1>1. /\ Len(s) \in Nat
      /\ Len(t) = Len(s) + 1
      /\ \A n \in 1 .. Len(s) : t[n] = s[n]
      /\ t[Len(s) + 1] = x
    BY AppendProperties
<1> HIDE DEF t
<1>2. ASSUME NEW n \in 1 .. Len(t)
      PROVE  /\ t[n].balanceAfter
                   = (IF n - 1 = 0 THEN o ELSE t[n - 1].balanceAfter) + t[n].amount
             /\ t[n].balanceAfter >= 0
    <2>1. CASE n \in 1 .. Len(s)
        <3>1. t[n] = s[n] /\ (n - 1 # 0 => t[n - 1] = s[n - 1])
            BY <1>1, <2>1
        <3> QED
            BY <2>1, <3>1 DEF Explains
    <2>2. CASE n = Len(s) + 1
        <3>1. t[n] = x /\ n - 1 = Len(s) /\ (Len(s) # 0 => t[n - 1] = s[Len(s)])
            BY <1>1, <2>2
        <3>2. b = IF n - 1 = 0 THEN o ELSE t[n - 1].balanceAfter
            BY <3>1 DEF Explains
        <3> QED
            BY <3>1, <3>2
    <2> QED
        BY <1>1, <2>1, <2>2
<1>3. x.balanceAfter = IF Len(t) = 0 THEN o ELSE t[Len(t)].balanceAfter
    BY <1>1
<1>4. Explains(o, t, x.balanceAfter)
    BY <1>2, <1>3 DEF Explains
<1> QED
    BY <1>4 DEF t

LEMMA CommitExtendsLedger ==
    ASSUME IInv, BalanceMatchesLedger, NEW r \in Requests, Commit(r)
    PROVE  BalanceMatchesLedger'
<1> SUFFICES ASSUME NEW w \in Wallets
             PROVE  Explains(Opening[w], ledger'[w], balance'[w])
    BY DEF BalanceMatchesLedger, BalanceAfterRow, Explains
<1> DEFINE s == ledger[w]
           x == Row(r, call[r], w, After(r, w))
<1>1. s \in Seq(Rows)
    BY DEF IInv, TypeOK
<1>2. Explains(Opening[w], s, balance[w])
    BY DEF BalanceMatchesLedger, BalanceAfterRow, Explains
<1>3. CASE w \notin Parties(call[r])
    <2>1. ledger'[w] = ledger[w] /\ balance'[w] = balance[w]
        BY <1>3, CommitFacts
    <2> QED
        BY <1>2, <2>1
<1>4. CASE w \in Parties(call[r])
    <2>1. /\ ledger'[w] = Append(s, x) /\ balance'[w] = After(r, w)
          /\ After(r, w) = balance[w] + Delta(call[r], w)
          /\ After(r, w) \in 0 .. MaxBalance
        BY <1>4, CommitFacts
    <2>2. x.balanceAfter = After(r, w) /\ x.amount = Delta(call[r], w)
        BY DEF Row
    <2>3. x \in Rows
        <3>1. After(r, w) \in Balances /\ call[r] \in Calls
            BY <2>1, CallFacts, WalletOpsAssumption DEF IInv, Balances
        <3> QED
            BY <3>1, RowFacts
    <2>4. x.balanceAfter >= 0
        BY <2>1, <2>2, WalletOpsAssumption
    <2> HIDE DEF s, x
    <2>5. Explains(Opening[w], Append(s, x), x.balanceAfter)
        BY <1>1, <1>2, <2>1, <2>2, <2>3, <2>4, ExplainedByAppend
    <2> QED
        BY <2>1, <2>2, <2>5
<1> QED
    BY <1>3, <1>4

\* No lost update, stale read, or unchecked debit: for every wallet and at any
\* time, the committed balance is what its rows add up to, and never negative.
THEOREM BalancesAreExplained == Spec => []BalanceMatchesLedger
<1>1. Init => BalanceMatchesLedger
    BY DEF Init, BalanceMatchesLedger, BalanceAfterRow
<1>2. IInv /\ BalanceMatchesLedger /\ [Next]_vars => BalanceMatchesLedger'
    <2> SUFFICES ASSUME IInv, BalanceMatchesLedger, [Next]_vars
                 PROVE  BalanceMatchesLedger'
        OBVIOUS
    <2>1. CASE UNCHANGED <<balance, ledger>>
        BY <2>1 DEF BalanceMatchesLedger, BalanceAfterRow
    <2> QED
        BY <2>1, OnlyCommitWrites, CommitExtendsLedger
<1> QED
    BY <1>1, <1>2, Invariant, PTL DEF Spec

-----------------------------------------------------------------------------
(* No lock cycle. *)

LessThan == {p \in Nat \X Nat : p[1] < p[2]}

LEMMA LessThanWellFounded == IsWellFoundedOn(LessThan, Nat)
BY NatLessThanWellFounded DEF OpToRel, LessThan

\* A set of numbers that is bounded has a largest member.
LEMMA LargestMember ==
    ASSUME NEW b \in Nat, NEW V, V \subseteq 1 .. b, V # {}
    PROVE  \E m \in V : \A v \in V : v <= m
<1> DEFINE D == {b - v : v \in V}
<1>1. \A v \in V : v \in Int /\ v <= b
    OBVIOUS
<1>2. D \subseteq Nat
    BY <1>1
<1>3. D # {}
    <2>1. PICK v \in V : TRUE
        OBVIOUS
    <2>2. b - v \in D
        OBVIOUS
    <2> QED
        BY <2>2
<1>4. PICK d \in D : \A e \in D : ~(<<e, d>> \in LessThan)
    <2> HIDE DEF D
    <2> QED
        BY <1>2, <1>3, LessThanWellFounded, WFMin
<1>5. \A e \in D : ~(e < d)
    BY <1>2, <1>4 DEF LessThan
<1>6. PICK m \in V : d = b - m
    OBVIOUS
<1>7. \A v \in V : ~(b - v < b - m)
    BY <1>5, <1>6
<1>8. \A v \in V : v <= m
    BY <1>1, <1>7
<1> QED
    BY <1>8

\* A transaction waits for a wallet above all those it has locked.
LEMMA WaitsUpwards ==
    ASSUME IInv, NEW r \in Requests, NEW v \in held[r],
           NEW w \in Wallets, Locks(r, w)
    PROVE  v < w
BY DEF IInv, LockInv, Locks

LEMMA NoCycle == IInv => NoLockCycle
<1> SUFFICES ASSUME IInv, NEW S \in (SUBSET Requests) \ {{}},
                    \A r \in S : \E q \in S : Blocks(q, r)
             PROVE  FALSE
    BY DEF NoLockCycle
<1> DEFINE V == {w \in Wallets : \E r \in S : Locks(r, w)}
<1>1. \A r \in S : \E q \in S : \E w \in V : w \in held[q] /\ Locks(r, w)
    BY DEF Blocks, IInv, TypeOK
<1>2. V \subseteq 1 .. WalletCount /\ V # {}
    <2>1. PICK r \in S : TRUE
        OBVIOUS
    <2>2. \E w \in V : TRUE
        BY <1>1, <2>1
    <2> QED
        BY <2>2 DEF Wallets
<1>3. PICK m \in V : \A v \in V : v <= m
    <2> HIDE DEF V
    <2> QED
        BY <1>2, LargestMember, WalletOpsAssumption
<1>4. PICK r \in S : Locks(r, m)
    OBVIOUS
<1>5. PICK q \in S : m \in held[q]
    <2>1. PICK q \in S, w \in V : w \in held[q] /\ Locks(r, w)
        BY <1>1
    <2>2. w = m
        BY <1>4, <2>1 DEF Locks, Wallets
    <2> QED
        BY <2>1, <2>2
<1>6. PICK w \in V : Locks(q, w)
    BY <1>1
<1>7. m < w
    BY <1>5, <1>6, WaitsUpwards
<1> QED
    BY <1>2, <1>3, <1>7

\* Row locks never deadlock, however many wallets and transactions there are:
\* of any transactions, the one that waits for the highest wallet waits for
\* none of the others.
THEOREM LocksNeverDeadlock == Spec => []NoLockCycle
BY NoCycle, Invariant, PTL

-----------------------------------------------------------------------------
(* Nor do locks and connections together. *)

\* A transaction that is still locking has a wallet left to lock.
LockingInv == \A r \in Requests : pc[r] = "locking" => Parties(call[r]) \ held[r] # {}

LEMMA LockingStep == ASSUME IInv, LockingInv, [Next]_vars PROVE LockingInv'
<1> SUFFICES ASSUME NEW q \in Requests, pc'[q] = "locking"
             PROVE  Parties(call'[q]) \ held'[q] # {}
    BY DEF LockingInv, Parties
<1> USE DEF IInv, TypeOK
<1>1. CASE pc[q] = "locking" /\ UNCHANGED <<call, held>>
    BY <1>1 DEF LockingInv
<1>2. CASE UNCHANGED vars
    BY <1>1, <1>2 DEF vars
<1>3. CASE Begin(q)
    <2>1. held'[q] = {} /\ call' = call
        BY <1>3 DEF Begin, LockInv
    <2> QED BY <2>1 DEF Parties
<1>4. ASSUME NEW w \in Wallets, LockWallet(q, w)
      PROVE  Parties(call'[q]) \ held'[q] # {}
    BY <1>4 DEF LockWallet
<1>5. ASSUME NEW r \in Requests, r # q, NEW w \in Wallets, LockWallet(r, w)
      PROVE  pc[q] = "locking" /\ held'[q] = held[q] /\ call' = call
    BY <1>5 DEF LockWallet
<1>6. ASSUME NEW r \in Requests, Commit(r) \/ Rollback(r)
      PROVE  pc[q] = "locking" /\ held'[q] = held[q] /\ call' = call
    BY <1>6 DEF Commit, Rollback, EndTransaction
<1>7. ASSUME NEW r \in Requests, r # q \/ ~Begin(r), Progress(r),
             ~Commit(r), ~Rollback(r), \A w \in Wallets : ~LockWallet(r, w)
      PROVE  pc[q] = "locking" /\ UNCHANGED <<call, held>>
    BY <1>7 DEF Progress, Reject, Begin, LockMissing, ReadWallet, CheckBalance, UpdateWallet,
                InsertTransaction, Answer, Abort
<1>8. ASSUME NEW r \in Requests, StatementFails(r) \/ AnswerFails(r)
      PROVE  pc[q] = "locking" /\ UNCHANGED <<call, held>>
    BY <1>8 DEF StatementFails, AnswerFails, Abort
<1>9. ASSUME NEW w \in Wallets, OpenWallet(w)
      PROVE  pc[q] = "locking" /\ UNCHANGED <<call, held>>
    BY <1>9 DEF OpenWallet
<1>10. CASE Crash
    BY <1>1, <1>10 DEF Crash
<1> QED
    BY <1>1, <1>2, <1>3, <1>4, <1>5, <1>6, <1>7, <1>8, <1>9, <1>10 DEF Next, LockingInv

\* A lock that is left to take is the next one.
LEMMA NextLock ==
    ASSUME IInv, LockingInv, NEW r \in Requests, pc[r] = "locking"
    PROVE  \E w \in Wallets : Locks(r, w)
<1>1. /\ call[r].from \in Int /\ call[r].to \in Int
      /\ call[r].from \in Wallets /\ call[r].to \in Wallets
    BY CallFacts DEF IInv, Wallets
<1>2. \E w \in Parties(call[r]) \ held[r] : TRUE
    BY DEF LockingInv
<1> QED BY <1>1, <1>2 DEF Locks, Parties

\* Only an open transaction holds locks.
LEMMA HoldersAreConnected ==
    ASSUME IInv, NEW q \in Requests, held[q] # {}
    PROVE  q \in Connected \cap Unfinished
BY DEF IInv, TypeOK, LockInv, Connected, Unfinished, Phases, InTransaction

\* Locks and connections together never deadlock, however small the pool: of
\* any calls, if some are connected, the one of them that waits for the highest
\* wallet can go on or waits for one outside; if none is, the others wait for
\* a connection that somebody outside has.
THEOREM NobodyIsStuck == Spec => []NeverStuck
<1>1. ASSUME IInv, LockingInv, NEW S \in (SUBSET Unfinished) \ {{}}
      PROVE  \E r \in S : CanGoOn(r) \/ (WaitsFor(r) \cap Unfinished) \ S # {}
    <2>1. CASE S \cap Connected # {}
        <3>1. PICK r \in S \cap Connected : \A q \in S \cap Connected : ~Blocks(q, r)
            BY <1>1, <2>1, NoCycle DEF NoLockCycle, Unfinished
        <3>2. r \in Requests /\ pc[r] \notin {"called", "done"}
            BY <3>1 DEF Connected, InTransaction
        <3>3. CASE pc[r] # "locking"
            BY <3>1, <3>2, <3>3 DEF CanGoOn
        <3>4. CASE pc[r] = "locking"
            <4>1. PICK w \in Wallets : Locks(r, w)
                BY <1>1, <3>2, <3>4, NextLock
            <4>2. CASE \A q \in Requests : w \notin held[q]
                BY <3>1, <4>1, <4>2 DEF CanGoOn
            <4>3. ASSUME NEW q \in Requests, w \in held[q]
                  PROVE  q \in (WaitsFor(r) \cap Unfinished) \ S
                <5>1. q \in Connected \cap Unfinished
                    BY <1>1, <4>3, HoldersAreConnected
                <5>2. Blocks(q, r)
                    BY <4>1, <4>3 DEF Blocks
                <5> QED BY <3>1, <3>2, <5>1, <5>2 DEF WaitsFor
            <4> QED BY <3>1, <4>2, <4>3
        <3> QED BY <3>3, <3>4
    <2>2. CASE S \cap Connected = {}
        <3>1. PICK r \in S : pc[r] \in {"called", "answering"}
            BY <1>1, <2>2 DEF IInv, TypeOK, Unfinished, Connected, Phases
        <3>2. CASE Connected = {}
            <4>1. Cardinality(Connected) < PoolSize
                BY <3>2, FS_EmptySet, WalletLedgerAssumption
            <4> QED BY <3>1, <4>1 DEF CanGoOn
        <3>3. CASE Connected # {}
            <4>1. Connected \subseteq Unfinished
                BY DEF Connected, Unfinished, InTransaction
            <4> QED BY <2>2, <3>1, <3>3, <4>1 DEF CanGoOn, WaitsFor
        <3> QED BY <3>2, <3>3
    <2> QED BY <2>1, <2>2
<1>2. IInv /\ LockingInv => NeverStuck
    BY <1>1 DEF NeverStuck
<1>3. Init => LockingInv
    BY DEF Init, LockingInv
<1> QED BY <1>2, <1>3, LockingStep, Invariant, PTL DEF Spec

-----------------------------------------------------------------------------
(* No call runs for ever: it has a bounded number of statements to execute.  *)

\* 1 before the first of a phase's two statements, 0 between them.
Untouched(S) == IF S = {} THEN 1 ELSE 0

\* A bound on the steps that request r still has to make.
StepsLeft(r) ==
    CASE pc[r] = "called"     -> 12
      [] pc[r] = "locking"    -> 10 + Untouched(held[r])
      [] pc[r] = "reading"    -> IF seen[r][call[r].from] = Unread THEN 9 ELSE 8
      [] pc[r] = "checking"   -> 7
      [] pc[r] = "updating"   -> 5 + Untouched(written[r])
      [] pc[r] = "inserting"  -> 3 + Untouched(inserted[r])
      [] pc[r] = "committing" -> 2
      [] OTHER                -> IF pc[r] = "done" THEN 0 ELSE 1

\* A step of a request brings it closer to its end, and no step of another, nor
\* a crash, sets it back: no statement is executed twice, and nothing retries.
StepsRunOut ==
    [][\A r \in Requests :
          /\ StepsLeft(r)' <= StepsLeft(r)
          /\ Progress(r) \/ StatementFails(r) \/ AnswerFails(r) =>
                StepsLeft(r)' < StepsLeft(r)]_vars

\* The range of the bound in each phase.
StepsLeftFits(r) ==
    /\ StepsLeft(r) \in 0 .. 12
    /\ pc[r] \in InTransaction => StepsLeft(r) \in 2 .. 11
    /\ pc[r] \notin {"called", "locking"} => StepsLeft(r) \in 0 .. 9
    /\ pc[r] \in {"inserting", "committing", "aborting", "answering", "done"} =>
          StepsLeft(r) \in 0 .. 4
    /\ pc[r] = "done" <=> StepsLeft(r) = 0
    /\ pc[r] \in {"aborting", "answering"} => StepsLeft(r) = 1

LEMMA StepsLeftRange ==
    ASSUME NEW r \in Requests, pc[r] \in Phases, pc'[r] \in Phases
    PROVE  StepsLeftFits(r) /\ StepsLeftFits(r)'
BY DEF StepsLeftFits, StepsLeft, Untouched, Phases, InTransaction

\* Another request's steps do not count.
LEMMA OthersStepsLeft ==
    ASSUME NEW q \in Requests, call' = call,
           pc'[q] = pc[q], held'[q] = held[q], seen'[q] = seen[q],
           written'[q] = written[q], inserted'[q] = inserted[q]
    PROVE  StepsLeft(q)' = StepsLeft(q)
BY DEF StepsLeft, Untouched

LEMMA LockingTakesAStep ==
    ASSUME IInv, IInv', NEW r \in Requests, NEW w \in Wallets, LockWallet(r, w)
    PROVE  StepsLeft(r)' < StepsLeft(r)
<1>1. /\ pc[r] = "locking" /\ held'[r] = held[r] \cup {w}
      /\ w \in Parties(call[r]) \ held[r]
      /\ pc[r] \in Phases /\ pc'[r] \in Phases
      /\ StepsLeft(r) = 10 + Untouched(held[r])
    BY DEF IInv, TypeOK, LockWallet, Locks, StepsLeft
<1>2. CASE pc'[r] \notin {"called", "locking"}
    BY <1>1, <1>2, StepsLeftRange DEF StepsLeftFits, Untouched
<1>3. CASE pc'[r] \in {"called", "locking"}
    <2>1. pc'[r] = "locking" /\ ~(Parties(call[r]) \subseteq held'[r])
        BY <1>3 DEF IInv, TypeOK, LockWallet
    <2>2. held[r] = {}
        BY <1>1, <2>1 DEF IInv, LockInv, Parties
    <2>3. StepsLeft(r)' = 10
        BY <1>1, <2>1 DEF StepsLeft, Untouched
    <2> QED BY <1>1, <2>2, <2>3 DEF Untouched
<1> QED BY <1>2, <1>3

LEMMA ReadingTakesAStep ==
    ASSUME IInv, IInv', NEW r \in Requests, ReadWallet(r)
    PROVE  StepsLeft(r)' < StepsLeft(r)
<1> DEFINE c == call[r]
           w == NextParty(c, {v \in Wallets : seen[r][v] # Unread})
<1>1. /\ c.from \in Wallets /\ c.to \in Wallets /\ c.from # c.to
      /\ seen[r][c.to] = Unread
      /\ pc[r] = "reading" /\ call' = call
    BY CallFacts DEF IInv, ReadInv, ReadWallet, Valid
<1>2. /\ seen'[r] = [seen[r] EXCEPT ![w] = balance[w]]
      /\ pc'[r] = IF w = c.to THEN "checking" ELSE "reading"
    BY DEF IInv, TypeOK, ReadWallet
<1>3. StepsLeft(r) = IF seen[r][c.from] = Unread THEN 9 ELSE 8
    BY <1>1 DEF StepsLeft
<1>4. CASE seen[r][c.from] = Unread
    <2>1. w = c.from
        BY <1>1, <1>4 DEF NextParty
    <2>2. seen'[r][c.from] = balance[c.from] /\ balance[c.from] # Unread
        BY <1>1, <1>2, <2>1, WalletOpsAssumption DEF IInv, TypeOK, Balances, Unread
    <2>3. pc'[r] = "reading"
        BY <1>1, <1>2, <2>1
    <2>4. StepsLeft(r)' = 8
        BY <1>1, <2>2, <2>3 DEF StepsLeft, Unread
    <2> QED BY <1>3, <1>4, <2>4
<1>5. CASE seen[r][c.from] # Unread
    <2>1. w = c.to
        BY <1>1, <1>5 DEF NextParty
    <2>2. StepsLeft(r)' = 7
        BY <1>2, <2>1 DEF StepsLeft
    <2> QED BY <1>3, <1>5, <2>2
<1> QED BY <1>4, <1>5

LEMMA UpdatingTakesAStep ==
    ASSUME IInv, IInv', NEW r \in Requests, UpdateWallet(r)
    PROVE  StepsLeft(r)' < StepsLeft(r)
<1> DEFINE w == NextParty(call[r], written[r])
<1>1. /\ pc[r] = "updating" /\ pc[r] \in Phases /\ pc'[r] \in Phases
      /\ written[r] \subseteq {call[r].from} \ {call[r].to}
      /\ StepsLeft(r) = 5 + Untouched(written[r])
    BY DEF IInv, TypeOK, WriteInv, Parties, UpdateWallet, StepsLeft
<1>2. CASE pc'[r] # "updating"
    <2>1. pc'[r] \in {"aborting", "inserting"}
        BY <1>2 DEF IInv, TypeOK, UpdateWallet, Abort
    <2> QED BY <1>1, <2>1, StepsLeftRange DEF StepsLeftFits, Untouched
<1>3. CASE pc'[r] = "updating"
    <2>1. w # call[r].to /\ written'[r] = written[r] \cup {w}
        BY <1>3 DEF IInv, TypeOK, UpdateWallet, Abort
    <2>2. written[r] = {}
        BY <1>1, <2>1 DEF NextParty
    <2>3. StepsLeft(r)' = 5
        BY <1>3, <2>1 DEF StepsLeft, Untouched
    <2> QED BY <1>1, <2>2, <2>3 DEF Untouched
<1> QED BY <1>2, <1>3

LEMMA InsertingTakesAStep ==
    ASSUME IInv, IInv', NEW r \in Requests, InsertTransaction(r)
    PROVE  StepsLeft(r)' < StepsLeft(r)
<1> DEFINE w == NextParty(call[r], inserted[r])
<1>1. /\ pc[r] = "inserting" /\ inserted'[r] = inserted[r] \cup {w}
      /\ inserted[r] \subseteq {call[r].from} \ {call[r].to}
      /\ StepsLeft(r) = 3 + Untouched(inserted[r])
      /\ pc'[r] = IF w = call[r].to THEN "committing" ELSE "inserting"
    BY DEF IInv, TypeOK, WriteInv, Parties, InsertTransaction, StepsLeft
<1>2. CASE w = call[r].to
    <2>1. StepsLeft(r)' = 2
        BY <1>1, <1>2 DEF StepsLeft
    <2> QED BY <1>1, <2>1 DEF Untouched
<1>3. CASE w # call[r].to
    <2>1. inserted[r] = {}
        BY <1>1, <1>3 DEF NextParty
    <2>2. StepsLeft(r)' = 3
        BY <1>1, <1>3 DEF StepsLeft, Untouched
    <2> QED BY <1>1, <2>1, <2>2 DEF Untouched
<1> QED BY <1>2, <1>3

\* A request's own step uses up at least one.
LEMMA OwnStep ==
    ASSUME IInv, IInv', NEW r \in Requests,
           Progress(r) \/ StatementFails(r) \/ AnswerFails(r)
    PROVE  StepsLeft(r)' < StepsLeft(r)
<1>1. pc[r] \in Phases /\ pc'[r] \in Phases
    BY DEF IInv, TypeOK
<1>2. CASE Begin(r)
    <2>1. pc[r] = "called" /\ pc'[r] = "locking"
        BY <1>2 DEF IInv, TypeOK, Begin
    <2>2. StepsLeft(r) = 12 /\ StepsLeft(r)' \in 2 .. 11
        BY <1>1, <2>1, StepsLeftRange DEF StepsLeftFits, StepsLeft, InTransaction
    <2> QED BY <2>2
<1>3. CASE CheckBalance(r)
    <2>1. pc[r] = "checking" /\ pc'[r] \in {"aborting", "updating"}
        BY <1>3 DEF IInv, TypeOK, CheckBalance, Abort
    <2>2. StepsLeft(r) = 7 /\ StepsLeft(r)' <= 6
        BY <2>1 DEF StepsLeft, Untouched
    <2> QED BY <1>1, <2>2, StepsLeftRange DEF StepsLeftFits
<1>4. CASE (\E w \in Wallets : LockMissing(r, w)) \/ StatementFails(r) \/ Commit(r)
    <2>1. pc[r] \in InTransaction /\ pc'[r] \in {"aborting", "answering"}
        BY <1>4 DEF IInv, TypeOK, LockMissing, Locks, StatementFails, Commit, Abort,
                    InTransaction
    <2> QED BY <1>1, <2>1, StepsLeftRange DEF StepsLeftFits
<1>5. CASE Reject(r) \/ Rollback(r) \/ Answer(r) \/ AnswerFails(r)
    <2>1. pc[r] # "done" /\ pc'[r] = "done"
        BY <1>5 DEF IInv, TypeOK, Reject, Rollback, Answer, AnswerFails
    <2> QED BY <1>1, <2>1, StepsLeftRange DEF StepsLeftFits
<1> QED BY <1>2, <1>3, <1>4, <1>5, LockingTakesAStep, ReadingTakesAStep,
           UpdatingTakesAStep, InsertingTakesAStep DEF Progress

\* No other step sets a request back.
LEMMA OthersStep ==
    ASSUME IInv, IInv', [Next]_vars, NEW q \in Requests
    PROVE  StepsLeft(q)' <= StepsLeft(q)
<1>0. pc[q] \in Phases /\ pc'[q] \in Phases
    BY DEF IInv, TypeOK
<1>1. CASE UNCHANGED <<call, pc, held, seen, written, inserted>>
    BY <1>0, <1>1, OthersStepsLeft, StepsLeftRange DEF StepsLeftFits
<1>2. ASSUME NEW r \in Requests, Progress(r) \/ StatementFails(r) \/ AnswerFails(r)
      PROVE  StepsLeft(q)' <= StepsLeft(q)
    <2>1. CASE q = r
        BY <1>0, <1>2, <2>1, OwnStep, StepsLeftRange DEF StepsLeftFits
    <2>2. CASE q # r
        <3>1. /\ call' = call /\ pc'[q] = pc[q] /\ held'[q] = held[q]
              /\ seen'[q] = seen[q] /\ written'[q] = written[q]
              /\ inserted'[q] = inserted[q]
            BY <1>2, <2>2
            DEF IInv, TypeOK, Progress, Reject, Begin, LockWallet, LockMissing, ReadWallet,
                CheckBalance, UpdateWallet, InsertTransaction, Commit, Rollback, Answer,
                StatementFails, AnswerFails, Abort, EndTransaction
        <3> QED BY <1>0, <3>1, OthersStepsLeft, StepsLeftRange DEF StepsLeftFits
    <2> QED BY <2>1, <2>2
<1>3. CASE Crash
    <2>1. CASE pc[q] \in {"called", "done"}
        BY <1>0, <1>3, <2>1, OthersStepsLeft, StepsLeftRange DEF StepsLeftFits, Crash
    <2>2. CASE pc[q] \notin {"called", "done"}
        <3>1. IF pc[q] = "answering" THEN pc'[q] = "done" ELSE pc'[q] = "aborting"
            BY <1>3, <2>2 DEF Crash
        <3>2. StepsLeft(q)' <= 1 /\ StepsLeft(q) >= 1
            BY <1>0, <2>2, <3>1, StepsLeftRange DEF StepsLeftFits
        <3> QED BY <1>0, <3>2, StepsLeftRange DEF StepsLeftFits
    <2> QED BY <2>1, <2>2
<1> QED BY <1>1, <1>2, <1>3 DEF Next, OpenWallet, vars

\* A call makes at most twelve steps, whatever it waits for, fails or loses.
THEOREM CallsRunOut == Spec => StepsRunOut
<1>1. ASSUME IInv, IInv', [Next]_vars
      PROVE  [\A r \in Requests :
                 /\ StepsLeft(r)' <= StepsLeft(r)
                 /\ Progress(r) \/ StatementFails(r) \/ AnswerFails(r) =>
                       StepsLeft(r)' < StepsLeft(r)]_vars
    BY <1>1, OwnStep, OthersStep
<1> QED BY <1>1, Invariant, PTL DEF Spec, StepsRunOut

-----------------------------------------------------------------------------
(* A call is applied whole or not at all, and its answer tells which. *)

Applied(r) ==
    \A w \in Wallets : RowCount(r, w) = IF w \in Parties(call[r]) THEN 1 ELSE 0

NotApplied(r) == \A w \in Wallets : RowCount(r, w) = 0

Before == InTransaction \cup {"called"}

\* AllOrNothing and AnswerIsTruthful are not inductive: which of the two has
\* happened follows from where the request is.
EffectInv(r) ==
    /\ pc[r] \in Before \cup {"aborting"} => NotApplied(r)
    /\ pc[r] = "answering" => Applied(r)
    /\ pc[r] = "done" => Applied(r) \/ NotApplied(r)
    /\ pc[r] \in Before \cup {"answering"} => result[r] = "none"
    /\ pc[r] = "aborting" => result[r] # "ok"
    /\ result[r] = "ok" => Applied(r)
    /\ result[r] \in Refusals => NotApplied(r)

\* The moves of a request other than its COMMIT.
MovesOn(q) ==
    \/ pc'[q] = pc[q] /\ result'[q] = result[q]
    \/ pc[q] \in Before /\ pc'[q] \in InTransaction /\ result'[q] = result[q]
    \/ /\ pc[q] \in Before \cup {"aborting"} /\ pc'[q] \in {"aborting", "done"}
       /\ result'[q] \notin {"ok", "none"}
    \/ pc[q] = "aborting" /\ pc'[q] = "done" /\ result'[q] = result[q]
    \/ /\ pc[q] = "answering" /\ pc'[q] = "done"
       /\ result'[q] \in {"ok", "error", "lost"}

LEMMA RequestMoves ==
    ASSUME TypeOK, [Next]_vars, NEW q \in Requests, ~Commit(q)
    PROVE  MovesOn(q)
<1> USE DEF TypeOK, MovesOn, Before, InTransaction
<1>1. CASE UNCHANGED vars
    BY <1>1 DEF vars
<1>2. ASSUME NEW r \in Requests, Reject(r) \/ Begin(r) PROVE MovesOn(q)
    BY <1>2 DEF Reject, Begin
<1>3. ASSUME NEW r \in Requests, NEW w \in Wallets, LockWallet(r, w) PROVE MovesOn(q)
    BY <1>3 DEF LockWallet, Locks
<1>4. ASSUME NEW r \in Requests, NEW w \in Wallets, LockMissing(r, w) PROVE MovesOn(q)
    BY <1>4 DEF LockMissing, Locks, Abort
<1>5. ASSUME NEW r \in Requests, ReadWallet(r) \/ CheckBalance(r) PROVE MovesOn(q)
    BY <1>5 DEF ReadWallet, CheckBalance, Abort
<1>6. ASSUME NEW r \in Requests, UpdateWallet(r) \/ InsertTransaction(r) PROVE MovesOn(q)
    BY <1>6 DEF UpdateWallet, InsertTransaction, Abort
<1>7. ASSUME NEW r \in Requests, r # q, Commit(r) PROVE MovesOn(q)
    BY <1>7 DEF Commit
<1>8. ASSUME NEW r \in Requests, Rollback(r) \/ Answer(r) PROVE MovesOn(q)
    BY <1>8 DEF Rollback, Answer
<1>9. ASSUME NEW r \in Requests, StatementFails(r) \/ AnswerFails(r) PROVE MovesOn(q)
    BY <1>9 DEF StatementFails, AnswerFails, Abort
<1>10. ASSUME NEW w \in Wallets, OpenWallet(w) PROVE MovesOn(q)
    BY <1>10 DEF OpenWallet
<1>11. CASE Crash
    BY <1>11 DEF Crash, Phases
<1> QED
    BY <1>1, <1>2, <1>3, <1>4, <1>5, <1>6, <1>7, <1>8, <1>9, <1>10, <1>11
    DEF Next, Progress

LEMMA CallNeverChanges == [Next]_vars => call' = call
BY DEF vars, Next, Progress, Reject, Begin, LockWallet, LockMissing, ReadWallet,
       CheckBalance, UpdateWallet, InsertTransaction, Commit, Rollback, Answer,
       StatementFails, AnswerFails, OpenWallet, Crash

LEMMA CountIsFinite ==
    ASSUME NEW s \in Seq(Rows), NEW q
    PROVE  /\ IsFiniteSet({n \in 1 .. Len(s) : s[n].by = q})
           /\ Cardinality({n \in 1 .. Len(s) : s[n].by = q}) \in Nat
<1> DEFINE C == {n \in 1 .. Len(s) : s[n].by = q}
<1>1. IsFiniteSet(1 .. Len(s))
    BY FS_Interval
<1>2. C \subseteq 1 .. Len(s)
    OBVIOUS
<1> HIDE DEF C
<1>3. IsFiniteSet(C) /\ Cardinality(C) \in Nat
    BY <1>1, <1>2, FS_Subset, FS_CardinalityType
<1> QED
    BY <1>3 DEF C

\* A row appended to a ledger adds one to the count of the call that wrote it.
LEMMA CountAfterAppend ==
    ASSUME NEW s \in Seq(Rows), NEW x \in Rows, NEW q
    PROVE  Cardinality({n \in 1 .. Len(Append(s, x)) : Append(s, x)[n].by = q})
             = Cardinality({n \in 1 .. Len(s) : s[n].by = q})
                 + (IF x.by = q THEN 1 ELSE 0)
<1> DEFINE t == Append(s, x)
           old == {n \in 1 .. Len(s) : s[n].by = q}
           new == {n \in 1 .. Len(t) : t[n].by = q}
<1>1. /\ Len(s) \in Nat
      /\ Len(t) = Len(s) + 1
      /\ \A n \in 1 .. Len(s) : t[n] = s[n]
      /\ t[Len(s) + 1] = x
    BY AppendProperties
<1>2. IsFiniteSet(old) /\ Cardinality(old) \in Nat
    BY CountIsFinite
<1>3. Len(s) + 1 \notin old
    BY <1>1
<1> HIDE DEF t
<1>4. new = IF x.by = q THEN old \cup {Len(s) + 1} ELSE old
    BY <1>1
<1>5. Cardinality(new) = Cardinality(old) + (IF x.by = q THEN 1 ELSE 0)
    <2> HIDE DEF old, new
    <2>1. CASE x.by = q
        <3>1. Cardinality(old \cup {Len(s) + 1}) = Cardinality(old) + 1
            BY <1>2, <1>3, FS_AddElement
        <3> QED
            BY <1>4, <2>1, <3>1
    <2>2. CASE x.by # q
        BY <1>2, <1>4, <2>2
    <2> QED
        BY <2>1, <2>2
<1> QED
    BY <1>5 DEF t

LEMMA CommitCounts ==
    ASSUME IInv, NEW r \in Requests, Commit(r),
           NEW q \in Requests, NEW w \in Wallets
    PROVE  RowCount(q, w)' = RowCount(q, w)
                + (IF q = r /\ w \in Parties(call[r]) THEN 1 ELSE 0)
<1> DEFINE x == Row(r, call[r], w, After(r, w))
<1>1. ledger[w] \in Seq(Rows)
    BY DEF IInv, TypeOK
<1>2. RowCount(q, w) \in Nat
    BY <1>1, CountIsFinite DEF RowCount
<1>3. CASE w \notin Parties(call[r])
    <2>1. ledger'[w] = ledger[w]
        BY <1>3, CommitFacts
    <2> QED
        BY <1>2, <1>3, <2>1 DEF RowCount
<1>4. CASE w \in Parties(call[r])
    <2>1. ledger'[w] = Append(ledger[w], x)
        BY <1>4, CommitFacts
    <2>2. x \in Rows
        <3>1. After(r, w) \in Balances /\ call[r] \in Calls
            BY <1>4, CommitFacts, CallFacts, WalletOpsAssumption DEF IInv, Balances
        <3> QED
            BY <3>1, RowFacts
    <2>3. x.by = r
        BY DEF Row
    <2> HIDE DEF x
    <2>4. RowCount(q, w)' = RowCount(q, w) + (IF x.by = q THEN 1 ELSE 0)
        <3>1. Cardinality({n \in 1 .. Len(ledger'[w]) : ledger'[w][n].by = q})
                = Cardinality({n \in 1 .. Len(ledger[w]) : ledger[w][n].by = q})
                    + (IF x.by = q THEN 1 ELSE 0)
            <4> DEFINE l == ledger[w]
            <4>1. l \in Seq(Rows) /\ ledger'[w] = Append(l, x)
                BY <1>1, <2>1
            <4>2. Cardinality({n \in 1 .. Len(Append(l, x)) : Append(l, x)[n].by = q})
                    = Cardinality({n \in 1 .. Len(l) : l[n].by = q})
                        + (IF x.by = q THEN 1 ELSE 0)
                <5> HIDE DEF l
                <5> QED
                    BY <2>2, <4>1, CountAfterAppend
            <4> QED
                BY <4>1, <4>2, Zenon
        <3> QED
            BY <3>1 DEF RowCount
    <2> QED
        BY <1>4, <2>3, <2>4
<1> QED
    BY <1>3, <1>4

LEMMA EffectsStep ==
    ASSUME IInv, \A q \in Requests : EffectInv(q), [Next]_vars, NEW q \in Requests
    PROVE  EffectInv(q)'
<1>0. call' = call
    BY CallNeverChanges
<1>1. CASE Commit(q)
    <2>1. pc[q] = "committing" /\ pc'[q] = "answering" /\ result'[q] = result[q]
        BY <1>1 DEF IInv, TypeOK, Commit
    <2>2. NotApplied(q) /\ result[q] = "none"
        BY <2>1 DEF EffectInv, Before, InTransaction
    <2>3. Applied(q)'
        BY <1>0, <1>1, <2>2, CommitCounts DEF Applied, NotApplied
    <2> QED
        BY <2>1, <2>2, <2>3 DEF EffectInv, Before, InTransaction, Refusals
<1>2. CASE ~Commit(q)
    <2>1. \A w \in Wallets : RowCount(q, w)' = RowCount(q, w)
        <3>1. CASE UNCHANGED <<balance, ledger>>
            BY <3>1 DEF RowCount
        <3>2. ASSUME NEW r \in Requests, Commit(r) PROVE \A w \in Wallets : RowCount(q, w)' = RowCount(q, w)
            <4>1. \A w \in Wallets : RowCount(q, w) \in Nat
                <5> TAKE w \in Wallets
                <5>1. ledger[w] \in Seq(Rows)
                    BY DEF IInv, TypeOK
                <5> QED
                    BY <5>1, CountIsFinite DEF RowCount
            <4> QED
                BY <1>2, <3>2, <4>1, CommitCounts
        <3> QED
            BY <3>1, <3>2, OnlyCommitWrites
    <2>2. (Applied(q) => Applied(q)') /\ (NotApplied(q) => NotApplied(q)')
        BY <1>0, <2>1 DEF Applied, NotApplied
    <2>3. MovesOn(q)
        BY <1>2, RequestMoves DEF IInv
    <2>4. EffectInv(q) /\ pc[q] \in Phases /\ result[q] \in Results \cup {"none"}
        BY DEF IInv, TypeOK
    <2> QED
        BY <2>2, <2>3, <2>4
        DEF EffectInv, MovesOn, Before, InTransaction, Phases, Results, Refusals
<1> QED
    BY <1>1, <1>2

LEMMA Effects == Spec => [](\A r \in Requests : EffectInv(r))
<1>1. Init => \A r \in Requests : EffectInv(r)
    <2> SUFFICES ASSUME Init, NEW r \in Requests PROVE EffectInv(r)
        OBVIOUS
    <2>1. NotApplied(r)
        <3> SUFFICES ASSUME NEW w \in Wallets PROVE RowCount(r, w) = 0
            BY DEF NotApplied
        <3>1. {n \in 1 .. Len(ledger[w]) : ledger[w][n].by = r} = {}
            BY DEF Init
        <3> QED
            BY <3>1, FS_EmptySet DEF RowCount
    <2> QED
        BY <2>1 DEF Init, EffectInv, Before, InTransaction, Refusals
<1>2. IInv /\ (\A r \in Requests : EffectInv(r)) /\ [Next]_vars
        => (\A r \in Requests : EffectInv(r))'
    BY EffectsStep
<1> QED
    BY <1>1, <1>2, Invariant, PTL DEF Spec

\* A call writes one row on each of its wallets or none at all, whatever fails
\* or dies between its statements.
THEOREM CallsAreAtomic == Spec => []AllOrNothing
<1>1. IInv /\ (\A r \in Requests : EffectInv(r)) => AllOrNothing
    BY DEF IInv, TypeOK, AllOrNothing, EffectInv, Applied, NotApplied, Phases, Before
<1> QED
    BY <1>1, Invariant, Effects, PTL

\* A caller told "ok" finds its rows; one that was refused finds none.
THEOREM AnswersAreTruthful == Spec => []AnswerIsTruthful
<1>1. IInv /\ (\A r \in Requests : EffectInv(r)) => AnswerIsTruthful
    BY CallFacts DEF IInv, AnswerIsTruthful, EffectInv, Applied, NotApplied
<1> QED
    BY <1>1, Invariant, Effects, PTL

-----------------------------------------------------------------------------
(* Money is conserved: what all wallets hold together changes only by COMMIT,  *)
(* by the net amount of a call that has no row yet and then has.               *)

NetAmounts == [r \in Recorded |-> NetAmount(call[r])]

LEMMA FiniteSets == IsFiniteSet(Wallets) /\ IsFiniteSet(Recorded)
<1>1. IsFiniteSet(1 .. WalletCount)
    BY WalletOpsAssumption, FS_Interval
<1>2. Recorded \subseteq Requests
    BY DEF Recorded
<1> QED BY <1>1, <1>2, WalletOpsAssumption, FS_Subset DEF Wallets

LEMMA AmountTypes ==
    ASSUME TypeOK
    PROVE  /\ \A w \in Wallets : balance[w] \in Int /\ Opening[w] \in Int
           /\ \A r \in Requests : NetAmount(call[r]) \in Int
<1>1. ASSUME NEW r \in Requests PROVE NetAmount(call[r]) \in Int
    <2>1. call[r].op \in Ops /\ call[r].amount \in Int
        BY CallFacts
    <2> QED BY <2>1 DEF NetAmount, Ops, SingleOps
<1>2. ASSUME NEW w \in Wallets PROVE balance[w] \in Int /\ Opening[w] \in Int
    <2>1. balance[w] \in Balances /\ Opening[w] \in 0 .. MaxBalance
        BY WalletLedgerAssumption DEF TypeOK
    <2> QED BY <2>1, WalletOpsAssumption DEF Balances
<1> QED BY <1>1, <1>2

\* COMMIT records its call, which was not recorded.
LEMMA CommitRecords ==
    ASSUME IInv, NEW r \in Requests, EffectInv(r), Commit(r)
    PROVE  r \notin Recorded /\ Recorded' = Recorded \cup {r}
<1>1. \A w \in Wallets : RowCount(r, w) = 0
    BY DEF EffectInv, Commit, Before, InTransaction, NotApplied
<1>2. \A q \in Requests, w \in Wallets : RowCount(q, w) \in Nat
    <2> SUFFICES ASSUME NEW q \in Requests, NEW w \in Wallets
                 PROVE  RowCount(q, w) \in Nat
        OBVIOUS
    <2>1. ledger[w] \in Seq(Rows)
        BY DEF IInv, TypeOK
    <2> QED BY <2>1, CountIsFinite DEF RowCount
<1>3. ASSUME NEW q \in Requests, NEW w \in Wallets
      PROVE  RowCount(q, w)' = RowCount(q, w)
                + (IF q = r /\ w \in Parties(call[r]) THEN 1 ELSE 0)
    BY <1>3, CommitCounts
<1>4. call[r].from \in Wallets /\ call[r].from \in Parties(call[r])
    BY CallFacts DEF IInv, Parties
<1>5. \E w \in Wallets : RowCount(r, w)' > 0
    BY <1>1, <1>3, <1>4
<1>6. ASSUME NEW q \in Requests, q # r, NEW w \in Wallets
      PROVE  RowCount(q, w)' = RowCount(q, w)
    BY <1>2, <1>3, <1>6
<1> QED BY <1>1, <1>5, <1>6 DEF Recorded

\* COMMIT changes what all wallets hold together by its call's net amount.
LEMMA CommitMoves ==
    ASSUME IInv, NEW r \in Requests, Commit(r)
    PROVE  Total(balance', Wallets) = Total(balance, Wallets) + NetAmount(call[r])
<1> DEFINE c == call[r]
           mid == [w \in Wallets |->
                     IF w = c.from THEN balance[w] + Delta(c, w) ELSE balance[w]]
<1>1. /\ c.op \in Ops /\ c.from \in Wallets /\ c.to \in Wallets /\ c.amount \in Int
      /\ c.op \in SingleOps => c.from = c.to
      /\ c.op = "transfer" => c.from # c.to
    BY CallFacts DEF IInv, ReadInv, Valid, Commit
<1>2. \A w \in Wallets : balance[w] \in Int /\ Delta(c, w) \in Int
    BY <1>1, AmountTypes DEF IInv, Delta
<1>3. balance' = [w \in Wallets |->
                    IF w \in Parties(c) THEN balance[w] + Delta(c, w) ELSE balance[w]]
    BY CommitFacts
<1>4. \A w \in Wallets : balance'[w] = IF w \in {c.from, c.to}
                                      THEN balance[w] + Delta(c, w) ELSE balance[w]
    BY <1>3 DEF Parties
<1>5. /\ \A w \in Wallets : mid[w] \in Int /\ balance'[w] \in Int
      /\ \A w \in Wallets \ {c.from} : mid[w] = balance[w]
      /\ mid[c.from] - balance[c.from] = Delta(c, c.from)
    BY <1>1, <1>2, <1>4
<1>6. Total(mid, Wallets) = Total(balance, Wallets) + (mid[c.from] - balance[c.from])
    <2>1. \A w \in Wallets : balance[w] \in Int /\ mid[w] \in Int
        BY <1>2, <1>5
    <2>2. \A w \in Wallets \ {c.from} : mid[w] = balance[w]
        BY <1>5
    <2>3. c.from \in Wallets
        BY <1>1
    <2> HIDE DEF mid, c
    <2> QED BY ONLY <2>1, <2>2, <2>3, FiniteSets, TotalAfterChange
<1>7. Total(balance, Wallets) \in Int
    BY <1>2, FiniteSets, TotalType
<1>8. CASE c.op \in SingleOps
    <2>1. balance' = mid
        BY <1>1, <1>3, <1>8 DEF Parties
    <2>2. NetAmount(c) = Delta(c, c.from)
        BY <1>8 DEF NetAmount, Delta, NeedsFunds, SingleOps
    <2>3. Total(balance', Wallets) = Total(balance, Wallets) + (mid[c.from] - balance[c.from])
        <3> HIDE DEF mid
        <3> QED BY <1>6, <2>1
    <2> HIDE DEF mid, c
    <2> QED BY <1>5, <2>2, <2>3 DEF c
<1>9. CASE c.op = "transfer"
    <2>1. \A w \in Wallets : mid[w] \in Int /\ balance'[w] \in Int
        BY <1>5
    <2>2. /\ \A w \in Wallets \ {c.to} : balance'[w] = mid[w]
          /\ balance'[c.to] - mid[c.to] = Delta(c, c.to)
        BY <1>1, <1>2, <1>4, <1>9
    <2>3. c.to \in Wallets
        BY <1>1
    <2>4. Total(balance', Wallets) = Total(mid, Wallets) + (balance'[c.to] - mid[c.to])
        <3> HIDE DEF mid, c
        <3>1. \A w \in Wallets \ {c.to} : balance'[w] = mid[w]
            BY <2>2
        <3> QED BY ONLY <2>1, <2>3, <3>1, FiniteSets, TotalAfterChange
    <2>5. /\ Delta(c, c.from) = 0 - c.amount /\ Delta(c, c.to) = c.amount
          /\ NetAmount(c) = 0
        BY <1>1, <1>9 DEF NetAmount, Delta, NeedsFunds
    <2> HIDE DEF mid, c
    <2> QED BY <1>1, <1>5, <1>6, <1>7, <2>2, <2>4, <2>5 DEF c
<1> QED BY <1>1, <1>8, <1>9 DEF Ops

LEMMA MoneyStep ==
    ASSUME IInv, IInv', \A r \in Requests : EffectInv(r), MoneyIsConserved, [Next]_vars
    PROVE  MoneyIsConserved'
<1>1. CASE UNCHANGED <<balance, ledger>>
    <2>1. call' = call
        BY CallNeverChanges
    <2> QED BY <1>1, <2>1 DEF MoneyIsConserved, Recorded, RowCount
<1>2. ASSUME NEW r \in Requests, Commit(r) PROVE MoneyIsConserved'
    <2> DEFINE new == [q \in Recorded' |-> NetAmount(call'[q])]
    <2>1. /\ r \notin Recorded /\ Recorded' = Recorded \cup {r} /\ call' = call
          /\ Recorded \subseteq Requests
        BY <1>2, CommitRecords, CallNeverChanges DEF Recorded
    <2>2. /\ \A q \in Recorded : new[q] = NetAmounts[q] /\ NetAmounts[q] \in Int
          /\ \A q \in Recorded' : new[q] \in Int
          /\ new[r] = NetAmount(call[r])
          /\ r \in Recorded' /\ Recorded' \ {r} = Recorded
        BY <2>1, AmountTypes DEF IInv, NetAmounts
    <2>3. IsFiniteSet(Recorded) /\ IsFiniteSet(Recorded')
        BY <2>1, FiniteSets, FS_AddElement
    <2> HIDE DEF new
    <2>4. Total(new, Recorded') = new[r] + Total(new, Recorded' \ {r})
        BY <2>2, <2>3, TotalByMember
    <2>5. Total(new, Recorded) = Total(NetAmounts, Recorded)
        BY <2>2, <2>3, TotalOfValues
    <2>6. /\ Total(NetAmounts, Recorded) \in Int
          /\ Total(balance, Wallets) \in Int /\ Total(Opening, Wallets) \in Int
          /\ NetAmount(call[r]) \in Int
        BY <2>2, <2>3, AmountTypes, FiniteSets, TotalType DEF IInv
    <2>7. Total(new, Recorded') = NetAmount(call[r]) + Total(NetAmounts, Recorded)
        BY <2>2, <2>4, <2>5
    <2>8. Total(balance', Wallets) = Total(balance, Wallets) + NetAmount(call[r])
        BY <1>2, CommitMoves
    <2>9. Total(balance, Wallets) = Total(Opening, Wallets) + Total(NetAmounts, Recorded)
        BY DEF MoneyIsConserved, NetAmounts
    <2>10. Total(balance', Wallets) = Total(Opening, Wallets) + Total(new, Recorded')
        BY <2>6, <2>7, <2>8, <2>9
    <2> QED BY <2>10 DEF MoneyIsConserved, new
<1> QED BY <1>1, <1>2, OnlyCommitWrites

\* Whatever races, fails or dies, the wallets together hold what the recorded
\* calls on single wallets have put in and taken out: transfers conserve money.
THEOREM MoneyStaysConserved == Spec => []MoneyIsConserved
<1>1. ASSUME Init PROVE MoneyIsConserved
    <2>1. ASSUME NEW r \in Requests, NEW w \in Wallets PROVE RowCount(r, w) = 0
        <3>1. {n \in 1 .. Len(ledger[w]) : ledger[w][n].by = r} = {}
            BY <1>1 DEF Init
        <3> QED BY <3>1, FS_EmptySet DEF RowCount
    <2>2. Recorded = {}
        BY <2>1 DEF Recorded
    <2>3. Total(NetAmounts, Recorded) = 0
        BY <2>2, FiniteSets, TotalByFirst
    <2>4. Total(Opening, Wallets) \in Int
        BY <1>1, InitInvariant, AmountTypes, FiniteSets, TotalType DEF IInv
    <2>5. balance = Opening
        BY <1>1 DEF Init
    <2> QED BY <2>3, <2>4, <2>5 DEF MoneyIsConserved, NetAmounts
<1> QED BY <1>1, MoneyStep, Invariant, Effects, PTL DEF Spec

-----------------------------------------------------------------------------
(* WalletLedger implements AtomicWallet. *)

\* The abstract outcome and answered, by the names the proofs use.
Outcomes == [r \in Requests |-> Outcome(r)]
Answered == {r \in Requests : pc[r] = "done"}

\* A step inside a transaction is invisible.
LEMMA InvisibleStep ==
    ASSUME NEW r \in Requests, UNCHANGED <<database, call>>,
           Outcome(r)' = Outcome(r), pc'[r] = "done" <=> pc[r] = "done",
           \A q \in Requests \ {r} : pc'[q] = pc[q] /\ result'[q] = result[q]
    PROVE  UNCHANGED Atomic!vars
<1>1. \A q \in Requests : Outcome(q)' = Outcome(q)
    BY DEF Outcome
<1>2. Outcomes' = Outcomes /\ Answered' = Answered
    BY <1>1 DEF Outcomes, Answered
<1> QED
    BY <1>2 DEF Atomic!vars, Outcomes, Answered, database

\* What a step that settles request r's outcome changes in the abstract state.
LEMMA SettlingStep ==
    ASSUME TypeOK, NEW r \in Requests, NEW p \in Phases, NEW why \in Results \cup {"none"},
           pc' = [pc EXCEPT ![r] = p],
           result' = [result EXCEPT ![r] = why],
           pc[r] # "done"
    PROVE  /\ Outcomes' = [Outcomes EXCEPT ![r] = Outcome(r)']
           /\ Answered' = IF p = "done" THEN Answered \cup {r} ELSE Answered
           /\ Outcome(r)' = IF p = "answering" THEN "applied"
                            ELSE IF p \in {"aborting", "done"} THEN why
                            ELSE "pending"
BY DEF TypeOK, Outcomes, Answered, Outcome

LEMMA AbortRefines ==
    ASSUME IInv, NEW r \in Requests, NEW why \in {"notFound", "insufficient"},
           pc[r] \in InTransaction, Abort(r, why),
           UNCHANGED <<database, call>>,
           Atomic!Justified(why, call[r])
    PROVE  Atomic!Refuse(r)
<1>1. /\ Outcomes' = [Outcomes EXCEPT ![r] = why]
      /\ Answered' = Answered
    <2>1. TypeOK /\ pc[r] # "done" /\ why \in Results \cup {"none"}
        BY DEF IInv, InTransaction, Results, Refusals
    <2>2. "aborting" \in Phases
        BY DEF Phases
    <2>3. pc' = [pc EXCEPT ![r] = "aborting"] /\ result' = [result EXCEPT ![r] = why]
        BY DEF Abort
    <2> QED
        BY <2>1, <2>2, <2>3, SettlingStep
<1>2. Outcomes[r] = "pending"
    BY DEF Outcomes, Outcome, InTransaction
<1>3. why \in Refusals
    BY DEF Refusals
<1> QED
    BY <1>1, <1>2, <1>3 DEF Atomic!Refuse, Atomic!Refusals, Refusals, Outcomes, Answered, database

LEMMA ErrorRefines ==
    ASSUME IInv, NEW r \in Requests, NEW p \in {"aborting", "done"},
           pc[r] \in InTransaction \cup {"called", "answering"},
           pc' = [pc EXCEPT ![r] = p],
           result' = [result EXCEPT ![r] = "error"],
           UNCHANGED <<database, call>>
    PROVE  Atomic!Fail({r})
<1>1. /\ Outcomes' = [Outcomes EXCEPT ![r] = "error"]
      /\ Answered \subseteq Answered' /\ Answered' \subseteq Answered \cup {r}
    BY SettlingStep DEF IInv, InTransaction, Phases, Results
<1>2. r \notin Answered
    BY DEF Answered, InTransaction
<1> QED
    BY <1>1, <1>2 DEF Atomic!Fail, Outcomes, Answered, database

\* The abstract operators on calls are those of this module.
LEMMA SameOperators ==
    ASSUME NEW c
    PROVE  /\ Atomic!Parties(c) = Parties(c)
           /\ Atomic!Valid(c) = Valid(c)
           /\ Atomic!NeedsFunds(c) = NeedsFunds(c)
           /\ \A w : Atomic!Delta(c, w) = Delta(c, w)
           /\ \A r, w, b : Atomic!Row(r, c, w, b) = Row(r, c, w, b)
           /\ Atomic!Wallets = Wallets
<1>1. /\ Atomic!Parties(c) = Parties(c)
      /\ Atomic!Valid(c) = Valid(c)
      /\ Atomic!NeedsFunds(c) = NeedsFunds(c)
      /\ Atomic!Wallets = Wallets
    BY DEF Atomic!Parties, Parties, Atomic!Valid, Valid, Atomic!NeedsFunds, NeedsFunds,
           Atomic!Wallets, Wallets
<1>2. \A w : Atomic!Delta(c, w) = Delta(c, w) /\ Atomic!RowType(c, w) = RowType(c, w)
    BY <1>1 DEF Atomic!Delta, Delta, Atomic!RowType, RowType
<1> QED
    BY <1>1, <1>2 DEF Atomic!Row, Row

LEMMA RejectRefines ==
    ASSUME IInv, NEW r \in Requests, Reject(r) PROVE Atomic!Refuse(r)
<1>1. /\ Outcomes' = [Outcomes EXCEPT ![r] = "badRequest"]
      /\ Answered' = Answered \cup {r}
    <2>1. TypeOK /\ pc[r] # "done" /\ "badRequest" \in Results \cup {"none"}
        BY DEF IInv, Reject, Results, Refusals
    <2>2. "done" \in Phases
        BY DEF Phases
    <2> QED
        BY <2>1, <2>2, SettlingStep DEF Reject
<1>2. Outcomes[r] = "pending"
    BY DEF Outcomes, Outcome, Reject
<1>3. Atomic!Justified("badRequest", call[r])
    BY SameOperators DEF Atomic!Justified, Reject
<1> QED
    BY <1>1, <1>2, <1>3
    DEF Atomic!Refuse, Atomic!Refusals, Outcomes, Answered, Reject, database

LEMMA LockMissingRefines ==
    ASSUME IInv, NEW r \in Requests, NEW w \in Wallets, LockMissing(r, w)
    PROVE  Atomic!Refuse(r)
<1>1. Valid(call[r]) /\ pc[r] \in InTransaction
    BY DEF IInv, ReadInv, LockMissing, Locks, InTransaction
<1>2. Atomic!Justified("notFound", call[r])
    BY <1>1, SameOperators DEF Atomic!Justified, LockMissing, Locks
<1> QED
    BY <1>1, <1>2, AbortRefines DEF LockMissing

LEMMA CheckBalanceRefines ==
    ASSUME IInv, NEW r \in Requests, CheckBalance(r)
    PROVE  UNCHANGED Atomic!vars \/ Atomic!Refuse(r)
<1>1. pc[r] = "checking" /\ pc[r] \in InTransaction
    BY DEF CheckBalance, InTransaction
<1>2. CASE NeedsFunds(call[r]) /\ seen[r][call[r].from] < call[r].amount
    <2>1. /\ Valid(call[r]) /\ Parties(call[r]) \subseteq wallets
          /\ balance[call[r].from] < call[r].amount
        BY <1>1, <1>2 DEF IInv, ReadInv, LockInv, HoldsAll, HasRead, Parties
    <2>2. Atomic!Justified("insufficient", call[r])
        BY <1>2, <2>1, SameOperators DEF Atomic!Justified
    <2> QED
        BY <1>1, <1>2, <2>2, AbortRefines DEF CheckBalance
<1>3. CASE ~(NeedsFunds(call[r]) /\ seen[r][call[r].from] < call[r].amount)
    <2>1. pc' = [pc EXCEPT ![r] = "updating"] /\ UNCHANGED <<result, database, call>>
        BY <1>3 DEF CheckBalance
    <2> QED
        BY <1>1, <2>1, InvisibleStep DEF IInv, TypeOK, Outcome
<1> QED
    BY <1>2, <1>3

LEMMA CommitRefines ==
    ASSUME IInv, NEW r \in Requests, Commit(r) PROVE Atomic!Apply(r)
<1> DEFINE c == call[r]
<1>1. pc[r] = "committing" /\ Valid(c) /\ Parties(c) \subseteq wallets
    BY DEF IInv, Commit, ReadInv, LockInv, HoldsAll
<1>2. NeedsFunds(c) => balance[c.from] >= c.amount
    BY <1>1 DEF IInv, ReadInv, HasRead, HasFunds, Parties
<1>3. Outcomes[r] = "pending"
    BY <1>1 DEF Outcomes, Outcome
<1>4. Outcomes' = [Outcomes EXCEPT ![r] = "applied"] /\ Answered' = Answered
    <2>1. result' = [result EXCEPT ![r] = result[r]]
        BY DEF IInv, TypeOK, Commit
    <2>2. /\ TypeOK /\ pc[r] # "done" /\ result[r] \in Results \cup {"none"}
          /\ "answering" \in Phases
        BY <1>1 DEF IInv, TypeOK, Phases
    <2>3. pc' = [pc EXCEPT ![r] = "answering"]
        BY DEF Commit
    <2> QED
        BY <2>1, <2>2, <2>3, SettlingStep
<1>5. \A w \in Parties(c) : balance[w] + Delta(c, w) <= MaxBalance
    BY CommitFacts, WalletOpsAssumption
<1>6. balance' = [w \in Wallets |->
                    IF w \in Parties(c) THEN balance[w] + Delta(c, w) ELSE balance[w]]
    BY CommitFacts
<1>7. ledger' = [w \in Wallets |->
                   IF w \in Parties(c)
                   THEN Append(ledger[w], Row(r, c, w, balance[w] + Delta(c, w)))
                   ELSE ledger[w]]
    BY CommitFacts
<1>8. UNCHANGED <<wallets, call>>
    BY DEF Commit
<1> HIDE DEF c
<1> QED
    BY <1>1, <1>2, <1>3, <1>4, <1>5, <1>6, <1>7, <1>8, SameOperators
    DEF Atomic!Apply, Outcomes, Answered, c

LEMMA EndRefines ==
    ASSUME IInv, NEW r \in Requests, Rollback(r) \/ Answer(r)
    PROVE  Atomic!Answer(r)
<1>1. /\ Outcomes' = [Outcomes EXCEPT ![r] = IF @ = "applied" THEN "ok" ELSE @]
      /\ Answered' = Answered \cup {r}
      /\ r \notin Answered /\ Outcomes[r] # "pending"
    <2>1. TypeOK /\ pc[r] # "done" /\ "done" \in Phases
        BY DEF IInv, Rollback, Answer, Phases
    <2>2. CASE Rollback(r)
        <3>1. /\ pc[r] = "aborting" /\ pc' = [pc EXCEPT ![r] = "done"]
              /\ result' = [result EXCEPT ![r] = result[r]]
              /\ result[r] \in Results \cup {"none"}
            BY <2>1, <2>2 DEF TypeOK, Rollback
        <3>2. Outcomes[r] = result[r] /\ result[r] \notin {"applied", "pending"}
            BY <3>1 DEF Outcomes, Outcome, Results, Refusals
        <3>3. Outcomes' = [Outcomes EXCEPT ![r] = result[r]] /\ Answered' = Answered \cup {r}
            BY <2>1, <3>1, SettlingStep
        <3> QED
            BY <2>1, <3>2, <3>3 DEF Answered
    <2>3. CASE Answer(r)
        <3>1. Outcomes[r] = "applied" /\ "ok" \in Results \cup {"none"}
            BY <2>3 DEF Outcomes, Outcome, Answer, Results
        <3>2. Outcomes' = [Outcomes EXCEPT ![r] = "ok"] /\ Answered' = Answered \cup {r}
            BY <2>1, <2>3, <3>1, SettlingStep DEF Answer
        <3> QED
            BY <2>1, <3>1, <3>2 DEF Answered
    <2> QED
        BY <2>2, <2>3
<1> QED
    BY <1>1 DEF Atomic!Answer, Outcomes, Answered, Rollback, Answer, database

LEMMA CrashRefines ==
    ASSUME IInv, Crash PROVE \E S \in SUBSET Requests : Atomic!Fail(S)
<1>1. PICK S \in SUBSET Requests : S = {r \in Requests : pc[r] \notin {"called", "done"}}
    OBVIOUS
<1>2. Outcomes' = [r \in Requests |-> IF r \in S THEN "lost" ELSE Outcomes[r]]
    BY <1>1 DEF IInv, TypeOK, Crash, Outcomes, Outcome
<1>3. /\ S \cap Answered = {}
      /\ Answered \subseteq Answered' /\ Answered' \subseteq Answered \cup S
    BY <1>1 DEF IInv, TypeOK, Crash, Answered
<1>4. Atomic!Fail(S)
    BY <1>2, <1>3 DEF Atomic!Fail, Outcomes, Answered, Crash, database
<1> QED
    BY <1>4

LEMMA StepRefines == IInv /\ [Next]_vars => [Atomic!Next]_(Atomic!vars)
<1> SUFFICES ASSUME IInv, [Next]_vars PROVE Atomic!Next \/ UNCHANGED Atomic!vars
    OBVIOUS
<1> USE SameOperators
<1>1. CASE UNCHANGED vars
    BY <1>1 DEF vars, Atomic!vars, Outcome
<1>2. ASSUME NEW r \in Requests, Begin(r) \/ ReadWallet(r) \/ InsertTransaction(r)
      PROVE  UNCHANGED Atomic!vars
    BY <1>2, InvisibleStep
    DEF IInv, TypeOK, Begin, ReadWallet, InsertTransaction, Outcome
<1>3. ASSUME NEW r \in Requests, NEW w \in Wallets, LockWallet(r, w)
      PROVE  UNCHANGED Atomic!vars
    BY <1>3, InvisibleStep DEF IInv, TypeOK, LockWallet, Locks, Outcome
<1>4. ASSUME NEW r \in Requests, UpdateWallet(r)
      PROVE  UNCHANGED Atomic!vars \/ Atomic!Fail({r})
    <2> DEFINE w == NextParty(call[r], written[r])
    <2>1. CASE After(r, w) > MaxBalance
        BY <1>4, <2>1, ErrorRefines DEF UpdateWallet, Abort, InTransaction
    <2>2. CASE ~(After(r, w) > MaxBalance)
        BY <1>4, <2>2, InvisibleStep DEF IInv, TypeOK, UpdateWallet, Outcome
    <2> QED
        BY <2>1, <2>2
<1>5. ASSUME NEW r \in Requests, StatementFails(r) \/ AnswerFails(r)
      PROVE  Atomic!Fail({r})
    BY <1>5, ErrorRefines DEF StatementFails, AnswerFails, Abort
<1>6. ASSUME NEW w \in Wallets, OpenWallet(w) PROVE Atomic!OpenWallet(w)
    BY <1>6 DEF OpenWallet, Atomic!OpenWallet, Outcome
<1>7. ASSUME NEW r \in Requests, Progress(r)
      PROVE  Atomic!Next \/ UNCHANGED Atomic!vars
    BY <1>2, <1>3, <1>4, <1>7, RejectRefines, LockMissingRefines, CheckBalanceRefines,
       CommitRefines, EndRefines
    DEF Progress, Atomic!Next
<1> QED
    BY <1>1, <1>5, <1>6, <1>7, CrashRefines DEF Next, Atomic!Next

\* Statement by statement, with failures and crashes anywhere, WalletService
\* gives its callers what AtomicWallet promises.
THEOREM Implementation == Spec => ImplementsAtomicWallet
<1>1. Init => Atomic!Init
    BY DEF Init, Atomic!Init, Outcome, Atomic!Wallets, Wallets
<1> QED
    BY <1>1, StepRefines, Invariant, PTL
    DEF Spec, ImplementsAtomicWallet, Atomic!Spec
=============================================================================
