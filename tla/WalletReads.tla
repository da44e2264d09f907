----------------------------- MODULE WalletReads -----------------------------
(***************************************************************************)
(* The wallet routes that only read: GET /wallets/:id, and the pages of    *)
(* GET /wallets/:id/transactions, newest first.  A client walks through    *)
(* the pages, one request each, while operations of the ledger commit      *)
(* rows.  created_at is DEFAULT now(), the start of the operation's        *)
(* transaction, and WalletLedger lets operations commit in any order: a    *)
(* row may appear in the middle of a list that is being read.  Two         *)
(* operations may start at the same instant of the clock.                  *)
(*                                                                         *)
(* A row of a wallet is known by its operation, which writes one row for   *)
(* each wallet it changes.  No code changes or deletes a row.              *)
(***************************************************************************)
EXTENDS HubScope, Integers, FiniteSets

CONSTANTS
    Riders,
    WalletIds,
    Wallets,          \* the wallets that exist
    Owner,            \* the hub or rider each wallet belongs to
    Operations,       \* the operations of the ledger that may commit
    Parties,          \* the wallets each operation changes
    Readers,
    Offered,          \* what a reader may ask for: a set of records of type Calls
    InitialAssigned,  \* pairs <<rider, hub>>
    MaxClock          \* the last instant

\* PaginationQueryDto lets a limit through only when it is positive.
Calls == [op : {"wallet", "transactions"}, user : Users, wallet : WalletIds,
          limit : Nat \ {0}]

ASSUME WalletReadsAssumption ==
    /\ Hubs \cap Riders = {}
    /\ Wallets \subseteq WalletIds
    /\ Owner \in [WalletIds -> Hubs \cup Riders]
    /\ IsFiniteSet(Operations)
    /\ Parties \in [Operations -> SUBSET Wallets]
    /\ Offered \subseteq Calls
    /\ InitialAssigned \subseteq Riders \X Hubs
    /\ MaxClock \in Nat \ {0}

VARIABLES
    clock,
    createdAt,  \* when each operation's transaction started; 0 if it has not
    committed,  \* the operations that have committed
    hubs,       \* the hubs that exist
    assigned,   \* the pairs <<rider, hub>> of rider_hub_assignments
    call,       \* what each reader asks for; it never changes
    pc,         \* the statement each reader's request executes next
    page,       \* the page that is asked for
    items,      \* the rows found for it
    total,      \* the number of rows counted with them
    seen,       \* history: the rows of all answers so far
    known,      \* history: the rows that were there when the reader began
    during      \* history: the pairs assigned at some time of the request

ledger == <<clock, createdAt, committed>>
directory == <<hubs, assigned>>
found == <<page, items, total>>
history == <<seen, known, during>>
vars == <<ledger, directory, call, pc, found, history>>

\* Who changes the directory, and how: Directory implements it.
Services == INSTANCE Membership
    WITH InitialHubs <- Hubs, InitialPairs <- InitialAssigned

Caller(r) == call[r].user
Limit(r) == call[r].limit
OwnerOf(r) == Owner[call[r].wallet]

\* Variant: rows that are not committed are read as well.
RowsWritten(r) == {o \in Operations : createdAt[o] > 0 /\ call[r].wallet \in Parties[o]}

\* WHERE wallet_id = ...
Rows(r) == {o \in committed : call[r].wallet \in Parties[o]}

\* The ranks that ORDER BY created_at DESC may give to the rows S.  Rows of
\* one instant come in any order, and each query may choose another.
Orders(S) ==
    {rank \in [S -> 1 .. Cardinality(S)] :
       \A a, b \in S :
          /\ rank[a] = rank[b] => a = b
          /\ createdAt[a] > createdAt[b] => rank[a] < rank[b]}

-----------------------------------------------------------------------------
Init ==
    /\ clock = 1
    /\ createdAt = [o \in Operations |-> 0]
    /\ committed = {}
    /\ hubs = Hubs
    /\ assigned = InitialAssigned
    /\ call \in [Readers -> Offered]
    /\ pc = [r \in Readers |-> "called"]
    /\ page = [r \in Readers |-> 1]
    /\ items = [r \in Readers |-> {}]
    /\ total = [r \in Readers |-> 0]
    /\ seen = [r \in Readers |-> {}]
    /\ known = [r \in Readers |-> {}]
    /\ during = [r \in Readers |-> {}]

GoTo(r, next) == pc' = [pc EXCEPT ![r] = next]

\* The guards, before any statement.
Guards(r) ==
    /\ pc[r] = "called"
    /\ GoTo(r, IF GuardsPass(Caller(r), NoHub) THEN "findWallet" ELSE "refused")
    /\ known' = [known EXCEPT ![r] = IF page[r] = 1 THEN Rows(r) ELSE @]
    /\ during' = [during EXCEPT ![r] = assigned]
    /\ UNCHANGED <<ledger, directory, call, found, seen>>

FindWallet(r) ==
    /\ pc[r] = "findWallet"
    /\ GoTo(r, IF call[r].wallet \in Wallets THEN "checkAccess" ELSE "notFound")
    /\ UNCHANGED <<ledger, directory, call, found, history>>

AfterAccess(r) == IF call[r].op = "wallet" THEN "answer" ELSE "findRows"

\* Variant: access is checked for the first page only.
CheckAccessOnce(r) ==
    /\ pc[r] = "checkAccess"
    /\ GoTo(r, IF \/ Unrestricted(Caller(r)) \/ OwnerOf(r) \in Caller(r).hubIds
                  \/ page[r] > 1 \/ HubsInScope(Caller(r), OwnerOf(r), assigned) # {}
               THEN AfterAccess(r) ELSE "refused")
    /\ UNCHANGED <<ledger, directory, call, found, history>>

\* assertWalletAccess.  With no hub in the token, `IN ()` is a syntax error.
CheckAccess(r) ==
    /\ pc[r] = "checkAccess"
    /\ GoTo(r, IF \/ Unrestricted(Caller(r)) \/ OwnerOf(r) \in Caller(r).hubIds
                  \/ HubsInScope(Caller(r), OwnerOf(r), assigned) # {}
               THEN AfterAccess(r)
               ELSE IF OwnerOf(r) \in Riders /\ Caller(r).hubIds = {} THEN "failed"
               ELSE "refused")
    /\ UNCHANGED <<ledger, directory, call, found, history>>

\* Variant: pages are counted from 0.
FindRowsFromZero(r) ==
    /\ pc[r] = "findRows"
    /\ \E rank \in Orders(Rows(r)) :
          items' = [items EXCEPT ![r] = {o \in Rows(r) :
             page[r] * Limit(r) < rank[o] /\ rank[o] <= (page[r] + 1) * Limit(r)}]
    /\ GoTo(r, "count")
    /\ UNCHANGED <<ledger, directory, call, page, total, history>>

\* findAndCount, the rows: skip (page - 1) * limit, take limit.
FindRows(r) ==
    /\ pc[r] = "findRows"
    /\ \E rank \in Orders(Rows(r)) :
          items' = [items EXCEPT ![r] = {o \in Rows(r) :
             (page[r] - 1) * Limit(r) < rank[o] /\ rank[o] <= page[r] * Limit(r)}]
    /\ GoTo(r, "count")
    /\ UNCHANGED <<ledger, directory, call, page, total, history>>

\* Variant: the count forgets the wallet.
CountAllWallets(r) ==
    /\ pc[r] = "count"
    /\ total' = [total EXCEPT ![r] = Cardinality(committed)]
    /\ GoTo(r, "answer")
    /\ UNCHANGED <<ledger, directory, call, page, items, history>>

\* findAndCount, the total: a second query, unless the page is not full and
\* so shows where the list ends.
Count(r) ==
    /\ pc[r] = "count"
    /\ \/ total' = [total EXCEPT ![r] = Cardinality(Rows(r))]
       \/ /\ Cardinality(items[r]) < Limit(r)
          /\ items[r] # {} \/ page[r] = 1
          /\ total' = [total EXCEPT ![r] = (page[r] - 1) * Limit(r) + Cardinality(items[r])]
    /\ GoTo(r, "answer")
    /\ UNCHANGED <<ledger, directory, call, page, items, history>>

Answer(r) ==
    /\ pc[r] = "answer"
    /\ seen' = [seen EXCEPT ![r] = @ \cup items[r]]
    /\ GoTo(r, "received")
    /\ UNCHANGED <<ledger, directory, call, found, known, during>>

\* A statement fails, the server dies, or the answer does not arrive.
Fail(r) ==
    /\ pc[r] \in {"findWallet", "checkAccess", "findRows", "count", "answer"}
    /\ GoTo(r, "failed")
    /\ UNCHANGED <<ledger, directory, call, found, history>>

-----------------------------------------------------------------------------
(* What surrounds these routes. *)

\* The client asks for the page after this one, as long as there is one.
TurnPage(r) ==
    /\ pc[r] = "received"
    /\ IF page[r] * Limit(r) < total[r]
       THEN GoTo(r, "called") /\ page' = [page EXCEPT ![r] = @ + 1]
       ELSE GoTo(r, "done") /\ UNCHANGED page
    /\ UNCHANGED <<ledger, directory, call, items, total, history>>

\* The client repeats a request that failed.
Repeat(r) ==
    /\ pc[r] = "failed"
    /\ GoTo(r, "called")
    /\ UNCHANGED <<ledger, directory, call, found, history>>

Tick ==
    /\ clock < MaxClock
    /\ clock' = clock + 1
    /\ UNCHANGED <<createdAt, committed, directory, call, pc, found, history>>

\* WalletLedger's Begin, ...
Begin(o) ==
    /\ createdAt[o] = 0
    /\ createdAt' = [createdAt EXCEPT ![o] = clock]
    /\ UNCHANGED <<clock, committed, directory, call, pc, found, history>>

\* ... and its Commit, which need not come.
Commit(o) ==
    /\ createdAt[o] > 0 /\ o \notin committed
    /\ committed' = committed \cup {o}
    /\ UNCHANGED <<clock, createdAt, directory, call, pc, found, history>>

\* The Directory's SaveAssignment and DeleteHub.
AssignHub(x, h) ==
    /\ Services!Assign(x, h)
    /\ during' = [r \in Readers |-> IF pc[r] \in {"called", "received", "done"}
                                    THEN during[r] ELSE during[r] \cup {<<x, h>>}]
    /\ UNCHANGED <<ledger, call, pc, found, seen, known>>

RemoveHub(h) ==
    /\ h \in hubs
    /\ Services!Remove(h)
    /\ UNCHANGED <<ledger, call, pc, found, history>>

Next ==
    \/ \E r \in Readers :
          \/ Guards(r) \/ FindWallet(r) \/ CheckAccess(r) \/ FindRows(r) \/ Count(r)
          \/ Answer(r) \/ Fail(r) \/ TurnPage(r) \/ Repeat(r)
    \/ \E o \in Operations : Begin(o) \/ Commit(o)
    \/ \E x \in Riders, h \in Hubs : AssignHub(x, h)
    \/ \E h \in Hubs : RemoveHub(h)
    \/ Tick

Spec == Init /\ [][Next]_vars

-----------------------------------------------------------------------------
(* Properties *)

Phases == {"called", "findWallet", "checkAccess", "findRows", "count", "answer",
           "received", "failed", "refused", "notFound", "done"}

\* Every variable has its type; only operations that have started commit, and
\* the clock has not passed them.
TypeOK ==
    /\ clock \in 1 .. MaxClock
    /\ createdAt \in [Operations -> 0 .. clock]
    /\ committed \subseteq {o \in Operations : createdAt[o] > 0}
    /\ hubs \subseteq Hubs
    /\ assigned \subseteq Riders \X Hubs
    /\ call \in [Readers -> Offered]
    /\ pc \in [Readers -> Phases]
    /\ page \in [Readers -> Nat \ {0}]
    /\ items \in [Readers -> SUBSET committed]
    /\ total \in [Readers -> Nat]
    /\ seen \in [Readers -> SUBSET committed]
    /\ known \in [Readers -> SUBSET committed]
    /\ during \in [Readers -> SUBSET (Riders \X Hubs)]

\* No other row of the wallet was created at the instant that o was.
Alone(o, r) ==
    \A p \in Operations \ {o} :
       call[r].wallet \in Parties[p] => createdAt[p] # createdAt[o]

\* A client that turns the pages until the last one has seen every row that was
\* committed when it began, though rows kept appearing anywhere in the list and
\* pages were repeated.  Rows of one instant are excepted: nothing but
\* created_at orders them, and two queries may.
NothingIsMissed ==
    \A r \in Readers :
       pc[r] = "done" /\ call[r].op = "transactions" =>
          \A o \in known[r] : Alone(o, r) => o \in seen[r]

\* The total of an answer is never less than the rows it accounts for, and never
\* more than there are, though it is counted by a query of its own.
TotalsAddUp ==
    \A r \in Readers :
       pc[r] \in {"answer", "received", "done"} /\ call[r].op = "transactions" =>
          /\ total[r] <= Cardinality(Rows(r))
          /\ items[r] # {} => (page[r] - 1) * Limit(r) + Cardinality(items[r]) <= total[r]

\* A hub admin gets an answer, and each page of it, only for wallets of hubs of
\* the token, and of riders who were assigned to one while that request was
\* served; and the rows are those of the wallet asked for.
ReadsStayInScope ==
    \A r \in Readers :
       /\ pc[r] = "received" /\ ~Unrestricted(Caller(r)) =>
             \/ OwnerOf(r) \in Caller(r).hubIds
             \/ HubsInScope(Caller(r), OwnerOf(r), during[r]) # {}
       /\ \A o \in seen[r] : call[r].wallet \in Parties[o]
=============================================================================
