---------------------------- MODULE WalletLedger ----------------------------
(***************************************************************************)
(* WalletService's five money operations over PostgreSQL, statement by     *)
(* statement: credit, debit, hold and release (applyBalanceChange) and     *)
(* transfer.  A request takes a connection of the pool and opens a         *)
(* transaction, locks its wallets with SELECT ... FOR UPDATE, reads them,  *)
(* checks the funds, updates the balances, inserts the ledger rows and     *)
(* commits; any statement may fail, and the server process may die.        *)
(*                                                                         *)
(* The database is PostgreSQL at READ COMMITTED: a row locked FOR UPDATE   *)
(* makes other lockers wait, a statement sees what is committed when it    *)
(* runs, and a transaction's writes become visible together at COMMIT.     *)
(*                                                                         *)
(* `call` never changes: it is what each request asks for.  A request      *)
(* whose pc is "called" may stay so for any time, so it also stands for a  *)
(* request that has not reached the server yet.                            *)
(***************************************************************************)
EXTENDS WalletOps, Totals

CONSTANTS
    InitialWallets,  \* the wallets that exist at the start
    Opening,         \* their balances at the start
    PoolSize         \* extra.max of the connection pool

ASSUME WalletLedgerAssumption ==
    /\ InitialWallets \subseteq Wallets
    /\ Opening \in [Wallets -> 0 .. MaxBalance]
    /\ \A w \in Wallets \ InitialWallets : Opening[w] = 0
    /\ PoolSize \in Nat \ {0}

VARIABLES
    wallets,   \* committed: the wallets that exist
    balance,   \* committed: wallets.current_balance
    ledger,    \* committed: rows of wallet_transactions, per wallet, in order
    call,      \* what each request asks for
    pc,        \* where each request is
    result,    \* how each request ends, decided when it starts to end
    held,      \* the wallets whose row each request's transaction has locked
    seen,      \* the balances each request has read
    written,   \* the wallets each open transaction has updated
    inserted   \* the wallets each open transaction has added a row for

vars == <<wallets, balance, ledger, call, pc, result, held, seen, written, inserted>>
database == <<wallets, balance, ledger>>

Unread == MaxBalance + 1
NothingRead == [w \in Wallets |-> Unread]

InTransaction ==
    {"locking", "reading", "checking", "updating", "inserting", "committing"}
Phases == {"called", "answering", "aborting", "done"} \cup InTransaction

\* A connection is out of the pool from BEGIN to the end of COMMIT or ROLLBACK.
Connected == {r \in Requests : pc[r] \in InTransaction \cup {"aborting"}}

\* The wallet a transfer's next read, update or insert is about: `from` first.
NextParty(c, done) == IF c.from \in done THEN c.to ELSE c.from

After(r, w) == seen[r][w] + Delta(call[r], w)

-----------------------------------------------------------------------------
Init ==
    /\ wallets = InitialWallets
    /\ balance = Opening
    /\ ledger = [w \in Wallets |-> <<>>]
    /\ call \in [Requests -> Offered]
    /\ pc = [r \in Requests |-> "called"]
    /\ result = [r \in Requests |-> "none"]
    /\ held = [r \in Requests |-> {}]
    /\ seen = [r \in Requests |-> NothingRead]
    /\ written = [r \in Requests |-> {}]
    /\ inserted = [r \in Requests |-> {}]

\* ensureWallet's INSERT commits: a wallet appears, with a balance of zero.
OpenWallet(w) ==
    /\ w \notin wallets
    /\ wallets' = wallets \cup {w}
    /\ UNCHANGED <<balance, ledger, call, pc, result, held, seen, written, inserted>>

\* A BadRequestException before any transaction.
Reject(r) ==
    /\ pc[r] = "called"
    /\ ~Valid(call[r])
    /\ pc' = [pc EXCEPT ![r] = "done"]
    /\ result' = [result EXCEPT ![r] = "badRequest"]
    /\ UNCHANGED <<database, call, held, seen, written, inserted>>

\* dataSource.transaction: a connection of the pool, and BEGIN.
Begin(r) ==
    /\ pc[r] = "called"
    /\ Valid(call[r])
    /\ Cardinality(Connected) < PoolSize
    /\ pc' = [pc EXCEPT ![r] = "locking"]
    /\ UNCHANGED <<database, call, result, held, seen, written, inserted>>

\* An exception inside the transaction's callback: ROLLBACK comes next.
Abort(r, why) ==
    /\ pc' = [pc EXCEPT ![r] = "aborting"]
    /\ result' = [result EXCEPT ![r] = why]

\* Variant: the ids are not sorted, so `from` is locked first.
LocksUnsorted(r, w) ==
    /\ pc[r] = "locking"
    /\ w \in Parties(call[r]) \ held[r]
    /\ w = NextParty(call[r], held[r])

\* The wallet whose row request r locks next: the ids are sorted first.
Locks(r, w) ==
    /\ pc[r] = "locking"
    /\ w \in Parties(call[r]) \ held[r]
    /\ \A v \in Parties(call[r]) \ held[r] : w <= v

\* Variant: a SELECT without FOR UPDATE, which waits for nobody.
LockWalletShared(r, w) ==
    /\ Locks(r, w)
    /\ w \in wallets
    /\ held' = [held EXCEPT ![r] = @ \cup {w}]
    /\ \/ /\ call[r].op \in SingleOps
          /\ pc' = [pc EXCEPT ![r] = "checking"]
          /\ seen' = [seen EXCEPT ![r][w] = balance[w]]
       \/ /\ call[r].op = "transfer"
          /\ pc' = [pc EXCEPT ![r] = IF Parties(call[r]) \subseteq held'[r]
                                     THEN "reading" ELSE "locking"]
          /\ UNCHANGED seen
    /\ UNCHANGED <<database, call, result, written, inserted>>

\* lockWallet finds its row, once no other transaction has it locked.  The
\* operations on one wallet use the balance this statement returns; transfer
\* drops it and reads again.
LockWallet(r, w) ==
    /\ Locks(r, w)
    /\ w \in wallets
    /\ \A q \in Requests : w \notin held[q]
    /\ held' = [held EXCEPT ![r] = @ \cup {w}]
    /\ \/ /\ call[r].op \in SingleOps
          /\ pc' = [pc EXCEPT ![r] = "checking"]
          /\ seen' = [seen EXCEPT ![r][w] = balance[w]]
       \/ /\ call[r].op = "transfer"
          /\ pc' = [pc EXCEPT ![r] = IF Parties(call[r]) \subseteq held'[r]
                                     THEN "reading" ELSE "locking"]
          /\ UNCHANGED seen
    /\ UNCHANGED <<database, call, result, written, inserted>>

\* lockWallet finds no row: NotFoundException.
LockMissing(r, w) ==
    /\ Locks(r, w)
    /\ w \notin wallets
    /\ Abort(r, "notFound")
    /\ UNCHANGED <<database, call, held, seen, written, inserted>>

\* transfer reads its two wallets again.  The rows are locked and no code
\* deletes a wallet, so the code's "Wallet not found" branch here is dead.
ReadWallet(r) ==
    LET w == NextParty(call[r], {v \in Wallets : seen[r][v] # Unread})
    IN  /\ pc[r] = "reading"
        /\ seen' = [seen EXCEPT ![r][w] = balance[w]]
        /\ pc' = [pc EXCEPT ![r] = IF w = call[r].to THEN "checking" ELSE "reading"]
        /\ UNCHANGED <<database, call, result, held, written, inserted>>

\* Variant: hold does not pass its debitAmount, so its funds are not checked.
CheckBalanceExceptHold(r) ==
    /\ pc[r] = "checking"
    /\ IF /\ call[r].op \in {"debit", "transfer"}
          /\ seen[r][call[r].from] < call[r].amount
       THEN Abort(r, "insufficient")
       ELSE pc' = [pc EXCEPT ![r] = "updating"] /\ UNCHANGED result
    /\ UNCHANGED <<database, call, held, seen, written, inserted>>

\* Variant: an amount equal to the balance is refused.
CheckBalanceStrictly(r) ==
    /\ pc[r] = "checking"
    /\ IF NeedsFunds(call[r]) /\ seen[r][call[r].from] <= call[r].amount
       THEN Abort(r, "insufficient")
       ELSE pc' = [pc EXCEPT ![r] = "updating"] /\ UNCHANGED result
    /\ UNCHANGED <<database, call, held, seen, written, inserted>>

\* hasSufficientBalance: a balance equal to the amount is enough.
CheckBalance(r) ==
    /\ pc[r] = "checking"
    /\ IF NeedsFunds(call[r]) /\ seen[r][call[r].from] < call[r].amount
       THEN Abort(r, "insufficient")
       ELSE pc' = [pc EXCEPT ![r] = "updating"] /\ UNCHANGED result
    /\ UNCHANGED <<database, call, held, seen, written, inserted>>

\* Variant: a column without precision, so that no balance is out of range.
UpdateWalletUnbounded(r) ==
    LET w == NextParty(call[r], written[r])
    IN  /\ pc[r] = "updating"
        /\ written' = [written EXCEPT ![r] = @ \cup {w}]
        /\ pc' = [pc EXCEPT ![r] = IF w = call[r].to THEN "inserting" ELSE "updating"]
        /\ UNCHANGED <<database, call, result, held, seen, inserted>>

\* UPDATE wallets SET current_balance: refused by the column beyond its range.
UpdateWallet(r) ==
    LET w == NextParty(call[r], written[r])
    IN  /\ pc[r] = "updating"
        /\ IF After(r, w) > MaxBalance
           THEN Abort(r, "error") /\ UNCHANGED written
           ELSE /\ written' = [written EXCEPT ![r] = @ \cup {w}]
                /\ pc' = [pc EXCEPT ![r] = IF w = call[r].to
                                           THEN "inserting" ELSE "updating"]
                /\ UNCHANGED result
        /\ UNCHANGED <<database, call, held, seen, inserted>>

\* Variant: the row is inserted through the service's repository, on another
\* connection, where it is committed at once.
InsertTransactionOutside(r) ==
    LET w == NextParty(call[r], inserted[r])
    IN  /\ pc[r] = "inserting"
        /\ ledger' = [ledger EXCEPT ![w] =
                        Append(@, Row(r, call[r], w, seen[r][w] + Delta(call[r], w)))]
        /\ pc' = [pc EXCEPT ![r] = IF w = call[r].to THEN "committing" ELSE "inserting"]
        /\ UNCHANGED <<wallets, balance, call, result, held, seen, written, inserted>>

\* INSERT INTO wallet_transactions.
InsertTransaction(r) ==
    LET w == NextParty(call[r], inserted[r])
    IN  /\ pc[r] = "inserting"
        /\ inserted' = [inserted EXCEPT ![r] = @ \cup {w}]
        /\ pc' = [pc EXCEPT ![r] = IF w = call[r].to
                                   THEN "committing" ELSE "inserting"]
        /\ UNCHANGED <<database, call, result, held, seen, written>>

\* The transaction ends: its locks are free, its connection is back.
EndTransaction(r) ==
    /\ held' = [held EXCEPT ![r] = {}]
    /\ written' = [written EXCEPT ![r] = {}]
    /\ inserted' = [inserted EXCEPT ![r] = {}]

\* COMMIT: the updates and the rows become visible together.
Commit(r) ==
    /\ pc[r] = "committing"
    /\ balance' = [w \in Wallets |->
                     IF w \in written[r] THEN After(r, w) ELSE balance[w]]
    /\ ledger' = [w \in Wallets |->
                    IF w \in inserted[r]
                    THEN Append(ledger[w], Row(r, call[r], w, After(r, w)))
                    ELSE ledger[w]]
    /\ pc' = [pc EXCEPT ![r] = "answering"]
    /\ EndTransaction(r)
    /\ UNCHANGED <<wallets, call, result, seen>>

\* Variant: ROLLBACK is left out, and the connection is never released.
RollbackForgotten(r) ==
    /\ pc[r] = "aborting"
    /\ pc' = [pc EXCEPT ![r] = "done"]
    /\ UNCHANGED <<database, call, result, held, seen, written, inserted>>

Rollback(r) ==
    /\ pc[r] = "aborting"
    /\ pc' = [pc EXCEPT ![r] = "done"]
    /\ EndTransaction(r)
    /\ UNCHANGED <<database, call, result, seen>>

Answer(r) ==
    /\ pc[r] = "answering"
    /\ pc' = [pc EXCEPT ![r] = "done"]
    /\ result' = [result EXCEPT ![r] = "ok"]
    /\ UNCHANGED <<database, call, held, seen, written, inserted>>

\* Variant: the exception of a statement is caught and not thrown again.
StatementFailsSilently(r) ==
    /\ pc[r] \in InTransaction
    /\ Abort(r, "ok")
    /\ UNCHANGED <<database, call, held, seen, written, inserted>>

\* A statement before COMMIT fails.
StatementFails(r) ==
    /\ pc[r] \in InTransaction
    /\ Abort(r, "error")
    /\ UNCHANGED <<database, call, held, seen, written, inserted>>

\* No connection or no BEGIN; or COMMIT is executed and its acknowledgement,
\* or the read of the wallet that follows it, fails.
AnswerFails(r) ==
    /\ \/ pc[r] = "called" /\ Valid(call[r])
       \/ pc[r] = "answering"
    /\ pc' = [pc EXCEPT ![r] = "done"]
    /\ result' = [result EXCEPT ![r] = "error"]
    /\ UNCHANGED <<database, call, held, seen, written, inserted>>

\* The server process dies.  PostgreSQL then rolls back what was open, in its
\* own time; what was committed stays, whoever was waiting for it.
Crash ==
    LET Dying == {r \in Requests : pc[r] \notin {"called", "done"}}
    IN  /\ Dying # {}
        /\ pc' = [r \in Requests |->
                    IF r \notin Dying THEN pc[r]
                    ELSE IF pc[r] = "answering" THEN "done" ELSE "aborting"]
        /\ result' = [r \in Requests |-> IF r \in Dying THEN "lost" ELSE result[r]]
        /\ UNCHANGED <<database, call, held, seen, written, inserted>>

\* What the code does for a request once it has been called.
Progress(r) ==
    \/ Reject(r) \/ Begin(r)
    \/ \E w \in Wallets : LockWallet(r, w) \/ LockMissing(r, w)
    \/ ReadWallet(r) \/ CheckBalance(r) \/ UpdateWallet(r) \/ InsertTransaction(r)
    \/ Commit(r) \/ Rollback(r) \/ Answer(r)

Next ==
    \/ \E r \in Requests : Progress(r) \/ StatementFails(r) \/ AnswerFails(r)
    \/ \E w \in Wallets : OpenWallet(w)
    \/ Crash

Spec == Init /\ [][Next]_vars

\* Node's event loop runs every callback that is ready, and PostgreSQL every
\* statement and every grant of a free lock; neither promises more than that a
\* step that stays possible is taken.  Requests are finite in number, so a
\* request cannot be overtaken for ever in the queues of the pool or of a lock.
FairSpec == Spec /\ \A r \in Requests : WF_vars(Progress(r))

-----------------------------------------------------------------------------
(* Properties *)

\* Every variable has its type; calls come from those offered.
TypeOK ==
    /\ wallets \subseteq Wallets
    /\ balance \in [Wallets -> Balances]
    /\ ledger \in [Wallets -> Seq(Rows)]
    /\ call \in [Requests -> Offered]
    /\ pc \in [Requests -> Phases]
    /\ result \in [Requests -> Results \cup {"none"}]
    /\ held \in [Requests -> SUBSET Wallets]
    /\ seen \in [Requests -> [Wallets -> Balances \cup {Unread}]]
    /\ written \in [Requests -> SUBSET Wallets]
    /\ inserted \in [Requests -> SUBSET Wallets]

\* The balance a wallet had after its first n rows.
BalanceAfterRow(w, n) == IF n = 0 THEN Opening[w] ELSE ledger[w][n].balanceAfter

\* A wallet's balance is explained, to the last unit, by its ledger: each row's
\* balance_after is the one before it plus the row's amount, the last one is
\* current_balance, and none is negative.  A lost update, a stale read, a
\* write outside the transaction or an unchecked debit breaks this.
BalanceMatchesLedger ==
    \A w \in Wallets :
       /\ \A n \in 1 .. Len(ledger[w]) :
             /\ ledger[w][n].balanceAfter
                    = BalanceAfterRow(w, n - 1) + ledger[w][n].amount
             /\ ledger[w][n].balanceAfter >= 0
       /\ balance[w] = BalanceAfterRow(w, Len(ledger[w]))

\* How many rows request r has left on wallet w.
RowCount(r, w) == Cardinality({n \in 1 .. Len(ledger[w]) : ledger[w][n].by = r})

\* A call leaves exactly one row on each of its wallets or none anywhere,
\* whatever fails or dies between its statements: no TRANSFER_OUT is without
\* its TRANSFER_IN, and no call is applied twice.
AllOrNothing ==
    \A r \in Requests :
       \/ \A w \in Wallets : RowCount(r, w) = 0
       \/ \A w \in Wallets : RowCount(r, w) = IF w \in Parties(call[r]) THEN 1 ELSE 0

\* What a caller is told agrees with the database: success means the rows are
\* there, a refusal (400 or 404) means that nothing was written.
AnswerIsTruthful ==
    \A r \in Requests :
       /\ result[r] = "ok" => \A w \in Parties(call[r]) : RowCount(r, w) = 1
       /\ result[r] \in Refusals => \A w \in Wallets : RowCount(r, w) = 0

\* What a call adds to all wallets together, or takes from them.
NetAmount(c) ==
    CASE c.op \in {"credit", "release"} -> c.amount
      [] c.op \in {"debit", "hold"} -> -c.amount
      [] c.op = "transfer" -> 0

Recorded == {r \in Requests : \E w \in Wallets : RowCount(r, w) > 0}

\* The money in all wallets is what was there at the start and what the recorded
\* calls on single wallets put in or took out, each once: none is created by a
\* race or a failure, none disappears, and a transfer only moves it.
MoneyIsConserved ==
    Total(balance, Wallets)
        = Total(Opening, Wallets) + Total([r \in Recorded |-> NetAmount(call[r])], Recorded)

\* q keeps r waiting for a row lock.
Blocks(q, r) == \E w \in held[q] : Locks(r, w)

\* No set of transactions is such that each waits for another of the set:
\* transfers in opposite directions, or around a ring, never deadlock.
NoLockCycle ==
    \A S \in (SUBSET Requests) \ {{}} : \E r \in S : \A q \in S : ~Blocks(q, r)

\* Request r has a statement that nothing keeps it from executing.
CanGoOn(r) ==
    \/ pc[r] = "called" /\ (Valid(call[r]) => Cardinality(Connected) < PoolSize)
    \/ \E w \in Wallets : Locks(r, w) /\ \A q \in Requests : w \notin held[q]
    \/ pc[r] \notin {"called", "locking", "done"}

\* The requests that hold what r needs: a connection, or the lock it is to take.
WaitsFor(r) ==
    IF pc[r] = "called" THEN Connected ELSE {q \in Requests : Blocks(q, r)}

Unfinished == {r \in Requests : pc[r] # "done"}

\* No calls wait for each other only, or for one that has ended, be it for locks
\* or for connections: whoever waits for a lock keeps its connection, yet the
\* one that has the lock never needs a second connection to end.
NeverStuck ==
    \A S \in (SUBSET Unfinished) \ {{}} :
       \E r \in S : CanGoOn(r) \/ (WaitsFor(r) \cap Unfinished) \ S # {}

\* Every call ends, however the others interleave with it and with a pool
\* smaller than the number of calls: no wait on a lock or on a connection is
\* for ever.
EveryCallEnds == \A r \in Requests : <>(pc[r] = "done")

-----------------------------------------------------------------------------
(* Refinement: the steps above are invisible, but for three of them.  COMMIT *)
(* applies a call; the statement that decides a refusal or meets an error    *)
(* settles the outcome; and the end of the request answers it.               *)

Outcome(r) ==
    IF pc[r] = "answering" THEN "applied"
    ELSE IF pc[r] \in {"aborting", "done"} THEN result[r]
    ELSE "pending"

Atomic == INSTANCE AtomicWallet WITH
    outcome <- [r \in Requests |-> Outcome(r)],
    answered <- {r \in Requests : pc[r] = "done"}

\* The statements, locks and failures of this module give callers exactly
\* what AtomicWallet promises: in particular a call is never refused for want
\* of funds that the wallet had at that instant.
ImplementsAtomicWallet == Atomic!Spec
=============================================================================
