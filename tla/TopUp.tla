-------------------------------- MODULE TopUp --------------------------------
(***************************************************************************)
(* The wallet routes that change something: POST /wallets/:id/top-up and   *)
(* GET /wallets/owner/:ownerType/:ownerId, which creates a wallet that is  *)
(* missing.  A super admin's top-up credits a hub wallet; a hub admin's    *)
(* moves money from a hub of the token's scope to a rider of that hub.     *)
(* Each statement sees what is committed when it runs, and requests of the *)
(* Directory, which assign riders and remove hubs, come in between.        *)
(*                                                                         *)
(* The money operations are single steps here: WalletLedger implements     *)
(* them so.  An owner has one wallet, as EnsureWallet shows, and a wallet  *)
(* is known by its owner.                                                  *)
(***************************************************************************)
EXTENDS HubScope, Totals, Integers, FiniteSets

CONSTANTS
    Riders,
    Requests,
    Offered,          \* what a request may ask for: a set of records of type Calls
    MaxBalance,
    InitialAssigned,  \* pairs <<rider, hub>>
    InitialWallets,   \* the owners that have a wallet at the start
    Opening,          \* the balances at the start
    Outside           \* where a credit comes from

Owners == Hubs \cup Riders

\* The amounts MONEY_AMOUNT_REGEX lets through: not negative, zero included.
Calls == [op : {"topUp", "byOwner"}, user : Users, owner : Owners,
          query : Hubs \cup {NoHub},   \* ?hubId=, which only the guard reads
          hub : Hubs \cup {NoHub},     \* the body's hubId
          amount : Nat]

ASSUME TopUpAssumption ==
    /\ IsFiniteSet(Hubs) /\ IsFiniteSet(Riders)
    /\ Hubs \cap Riders = {}
    /\ Outside \notin Owners
    /\ Offered \subseteq Calls
    /\ MaxBalance \in Nat
    /\ InitialAssigned \subseteq Riders \X Hubs
    /\ InitialWallets \subseteq Owners
    /\ Opening \in [Owners -> 0 .. MaxBalance]
    /\ \A o \in Owners \ InitialWallets : Opening[o] = 0

VARIABLES
    hubs,      \* the hubs that exist
    assigned,  \* the pairs <<rider, hub>> of rider_hub_assignments
    wallets,   \* the owners that have a wallet
    balance,
    call,      \* what each request asks for; it never changes
    pc,        \* the statement each request executes next
    source,    \* the hub that is to pay: sourceHubId
    result,
    moves,     \* history: every credit and transfer that was committed
    before     \* history: `assigned` when each request began

vars == <<hubs, assigned, wallets, balance, call, pc, source, result, moves, before>>
directory == <<hubs, assigned>>
money == <<wallets, balance, moves>>

\* Who changes the directory, and how: Directory implements it.
Services == INSTANCE Membership
    WITH InitialHubs <- Hubs, InitialPairs <- InitialAssigned

Caller(r) == call[r].user

Admitted(r) == GuardsPass(Caller(r), ClientHub(call[r].query, call[r].hub))

\* The hubs that the assignment queries of request r return.
HubsFound(r) == HubsInScope(Caller(r), call[r].owner, assigned)

-----------------------------------------------------------------------------
Init ==
    /\ hubs = Hubs
    /\ assigned = InitialAssigned
    /\ wallets = InitialWallets
    /\ balance = Opening
    /\ call \in [Requests -> Offered]
    /\ pc = [r \in Requests |-> "called"]
    /\ source = [r \in Requests |-> NoHub]
    /\ result = [r \in Requests |-> "none"]
    /\ moves = {}
    /\ before = [r \in Requests |-> {}]

GoTo(r, next) == pc' = [pc EXCEPT ![r] = next] /\ UNCHANGED result

End(r, why) ==
    /\ pc' = [pc EXCEPT ![r] = "done"]
    /\ result' = [result EXCEPT ![r] = why]

Guards(r) ==
    /\ pc[r] = "called"
    /\ IF Admitted(r)
       THEN GoTo(r, IF call[r].op = "topUp" THEN "fetchWallet" ELSE "findOwner")
       ELSE End(r, "forbidden")
    /\ before' = [before EXCEPT ![r] = assigned]
    /\ UNCHANGED <<directory, money, call, source>>

\* Variant: a super admin may top up any wallet.
FetchAnyWallet(r) ==
    /\ pc[r] = "fetchWallet"
    /\ \/ call[r].owner \notin wallets /\ End(r, "notFound")
       \/ /\ call[r].owner \in wallets
          /\ IF Unrestricted(Caller(r)) THEN GoTo(r, "move")
             ELSE IF call[r].owner \in Riders THEN GoTo(r, "checkAccess")
             ELSE End(r, "badRequest")
    /\ UNCHANGED <<directory, money, call, source, before>>

\* getWalletOrThrow and the check of the owner's type.
FetchWallet(r) ==
    /\ pc[r] = "fetchWallet"
    /\ \/ call[r].owner \notin wallets /\ End(r, "notFound")
       \/ /\ call[r].owner \in wallets
          /\ (call[r].owner \in Hubs) # Unrestricted(Caller(r))
          /\ End(r, "badRequest")
       \/ /\ call[r].owner \in wallets
          /\ (call[r].owner \in Hubs) = Unrestricted(Caller(r))
          /\ GoTo(r, IF Unrestricted(Caller(r)) THEN "move" ELSE "checkAccess")
    /\ UNCHANGED <<directory, money, call, source, before>>

\* assertOwnerExists.  A rider exists when an assignment does, and it is the
\* first one the database returns, whichever it is, that must be in scope.
FindOwner(r) ==
    LET rows == {h \in Hubs : <<call[r].owner, h>> \in assigned}
        owners == IF call[r].owner \in Hubs THEN hubs \cap {call[r].owner} ELSE rows
    IN  /\ pc[r] = "findOwner"
        /\ \/ owners = {} /\ End(r, "notFound")
           \/ \E h \in owners :
                 IF InScope(Caller(r), h) THEN GoTo(r, "ensureOwner")
                                          ELSE End(r, "forbidden")
        /\ UNCHANGED <<directory, money, call, source, before>>

\* assertWalletAccess.  With no hub in the token, `IN ()` is a syntax error.
CheckAccess(r) ==
    /\ pc[r] = "checkAccess"
    /\ IF Unrestricted(Caller(r)) THEN GoTo(r, "answer")
       ELSE IF call[r].owner \in Riders /\ Caller(r).hubIds = {} THEN End(r, "error")
       ELSE IF call[r].owner \in Caller(r).hubIds \/ HubsFound(r) # {}
       THEN GoTo(r, IF call[r].op = "topUp" THEN "chooseHub" ELSE "answer")
       ELSE End(r, "forbidden")
    /\ UNCHANGED <<directory, money, call, source, before>>

\* Variant: the hub the client names is not looked for among the assignments.
ChooseNamedHub(r) ==
    /\ pc[r] = "chooseHub"
    /\ \/ /\ HubsFound(r) = {}
          /\ End(r, "forbidden")
          /\ UNCHANGED source
       \/ \E h \in Caller(r).hubIds :
             /\ HubsFound(r) # {}
             /\ h = call[r].hub \/ (call[r].hub = NoHub /\ HubsFound(r) = {h})
             /\ source' = [source EXCEPT ![r] = h]
             /\ GoTo(r, "ensureSource")
    /\ UNCHANGED <<directory, money, call, before>>

\* Variant: without a name, any of the rider's hubs pays.
ChooseAnyHub(r) ==
    /\ pc[r] = "chooseHub"
    /\ \/ /\ HubsFound(r) = {}
          /\ End(r, "forbidden")
          /\ UNCHANGED source
       \/ \E h \in HubsFound(r) :
             /\ call[r].hub \in {NoHub, h}
             /\ source' = [source EXCEPT ![r] = h]
             /\ GoTo(r, "ensureSource")
    /\ UNCHANGED <<directory, money, call, before>>

\* The second query for assignments, and the choice of the hub that pays: the
\* one the client names, or else the only one there is.  assertHubInScope is
\* needed: the guard has not seen the body's hub when the query names one.
ChooseHub(r) ==
    LET chosen == IF call[r].hub # NoHub THEN HubsFound(r) \cap {call[r].hub}
                                         ELSE HubsFound(r)
    IN  /\ pc[r] = "chooseHub"
        /\ \/ /\ HubsFound(r) = {}
              /\ End(r, "forbidden")
              /\ UNCHANGED source
           \/ /\ HubsFound(r) # {} /\ call[r].hub \notin Caller(r).hubIds \cup {NoHub}
              /\ End(r, "forbidden")
              /\ UNCHANGED source
           \/ /\ HubsFound(r) # {} /\ call[r].hub \in Caller(r).hubIds \cup {NoHub}
              /\ \A h \in Hubs : chosen # {h}
              /\ End(r, "badRequest")
              /\ UNCHANGED source
           \/ \E h \in Hubs :
                 /\ chosen = {h}
                 /\ source' = [source EXCEPT ![r] = h]
                 /\ GoTo(r, "ensureSource")
        /\ UNCHANGED <<directory, money, call, before>>

\* ensureWallet, for the hub that pays or for the owner that is asked about.
\* Nothing tells it that a hub has been removed.  When the insert fails, and
\* nobody else has made the wallet, that is a 404.
EnsureWallet(r) ==
    LET owner == IF pc[r] = "ensureSource" THEN source[r] ELSE call[r].owner
    IN  /\ pc[r] \in {"ensureSource", "ensureOwner"}
        /\ \/ /\ wallets' = wallets \cup {owner}
              /\ GoTo(r, IF pc[r] = "ensureSource" THEN "move" ELSE "checkAccess")
           \/ owner \notin wallets /\ End(r, "notFound") /\ UNCHANGED wallets
        /\ UNCHANGED <<directory, balance, moves, call, source, before>>

\* The n-th move of request r counts from 0: two that are equal are two.
MoveOf(r, from) ==
    [by |-> r, nth |-> Cardinality({m \in moves : m.by = r}),
     from |-> from, to |-> call[r].owner, amount |-> call[r].amount]

\* Variant: a rider's top-up credits the rider and debits nobody.
MoveByCredit(r) ==
    LET to == call[r].owner
        amount == call[r].amount
    IN  /\ pc[r] = "move"
        /\ amount > 0
        /\ balance[to] + amount <= MaxBalance
        /\ balance' = [balance EXCEPT ![to] = @ + amount]
        /\ moves' = moves \cup {MoveOf(r, IF Unrestricted(Caller(r)) THEN Outside ELSE source[r])}
        /\ GoTo(r, "readWallet")
        /\ UNCHANGED <<directory, wallets, call, source, before>>

\* credit, for a super admin; transfer from the source, for a hub admin.
Move(r) ==
    LET from == IF Unrestricted(Caller(r)) THEN Outside ELSE source[r]
        to == call[r].owner
        amount == call[r].amount
        Short == from # Outside /\ balance[from] < amount
        Over == balance[to] + amount > MaxBalance
    IN  /\ pc[r] = "move"
        /\ \/ amount = 0 /\ End(r, "badRequest") /\ UNCHANGED <<balance, moves>>
           \/ amount > 0 /\ Short /\ End(r, "insufficient") /\ UNCHANGED <<balance, moves>>
           \/ amount > 0 /\ ~Short /\ Over /\ End(r, "error") /\ UNCHANGED <<balance, moves>>
           \/ /\ amount > 0 /\ ~Short /\ ~Over
              /\ balance' = [o \in Owners |-> CASE o = to   -> balance[o] + amount
                                                [] o = from -> balance[o] - amount
                                                [] OTHER    -> balance[o]]
              /\ moves' = moves \cup {MoveOf(r, from)}
              /\ GoTo(r, "readWallet")
        /\ UNCHANGED <<directory, wallets, call, source, before>>

\* Variant: the owner is looked up again as well.
ReadWalletAndHub(r) ==
    /\ pc[r] = "readWallet"
    /\ IF call[r].owner \in Hubs \ hubs THEN End(r, "notFound") ELSE GoTo(r, "answer")
    /\ UNCHANGED <<directory, money, call, source, before>>

\* The wallet is read again, outside the transaction, for the answer.
ReadWallet(r) ==
    /\ pc[r] = "readWallet"
    /\ GoTo(r, "answer")
    /\ UNCHANGED <<directory, money, call, source, before>>

Answer(r) ==
    /\ pc[r] = "answer"
    /\ End(r, "ok")
    /\ UNCHANGED <<directory, money, call, source, before>>

\* A statement fails by itself, or succeeds and its acknowledgement is lost.
Fail(r) ==
    /\ pc[r] \notin {"called", "done"}
    /\ End(r, "error")
    /\ UNCHANGED <<directory, money, call, source, before>>

\* The server process dies; what is committed stays.
Crash ==
    LET Dying == {r \in Requests : pc[r] \notin {"called", "done"}}
    IN  /\ Dying # {}
        /\ pc' = [r \in Requests |-> IF r \in Dying THEN "done" ELSE pc[r]]
        /\ result' = [r \in Requests |-> IF r \in Dying THEN "lost" ELSE result[r]]
        /\ UNCHANGED <<directory, money, call, source, before>>

\* The Directory's SaveAssignment: the hub must exist.
AssignHub(x, h) ==
    /\ Services!Assign(x, h)
    /\ UNCHANGED <<money, call, pc, source, result, before>>

\* Variant: rider_hub_assignments without ON DELETE CASCADE.
RemoveHubOnly(h) ==
    /\ h \in hubs
    /\ hubs' = hubs \ {h}
    /\ UNCHANGED <<assigned, money, call, pc, source, result, before>>

\* The Directory's DeleteHub: the assignments go with the hub, its wallet stays.
RemoveHub(h) ==
    /\ h \in hubs
    /\ Services!Remove(h)
    /\ UNCHANGED <<money, call, pc, source, result, before>>

Step(r) ==
    \/ Guards(r) \/ FetchWallet(r) \/ FindOwner(r) \/ CheckAccess(r) \/ ChooseHub(r)
    \/ EnsureWallet(r) \/ Move(r) \/ ReadWallet(r) \/ Answer(r)

Next ==
    \/ \E r \in Requests : Step(r) \/ Fail(r)
    \/ \E x \in Riders, h \in Hubs : AssignHub(x, h)
    \/ \E h \in Hubs : RemoveHub(h)
    \/ Crash

Spec == Init /\ [][Next]_vars

-----------------------------------------------------------------------------
(* Properties *)

Phases == {"called", "fetchWallet", "findOwner", "ensureOwner", "checkAccess", "chooseHub",
           "ensureSource", "move", "readWallet", "answer", "done"}
Refusals == {"badRequest", "forbidden", "notFound", "insufficient"}

\* Every variable has its type; money is only in wallets that exist, and only
\* a request that moves or has moved money has chosen a hub.
TypeOK ==
    /\ hubs \subseteq Hubs
    /\ assigned \subseteq Riders \X hubs
    /\ wallets \subseteq Owners
    /\ balance \in [Owners -> 0 .. MaxBalance]
    /\ \A o \in Owners \ wallets : balance[o] = 0
    /\ call \in [Requests -> Offered]
    /\ pc \in [Requests -> Phases]
    /\ source \in [Requests -> Hubs \cup {NoHub}]
    /\ result \in [Requests -> {"none", "ok", "error", "lost"} \cup Refusals]
    /\ moves \subseteq [by : Requests, nth : Nat, from : Owners \cup {Outside}, to : Owners, amount : Nat]
    /\ before \in [Requests -> SUBSET (Riders \X Hubs)]

\* The "Top-up rules" of the README: money enters by a super admin's credit of
\* a hub wallet and goes on, by a hub admin's transfer, from a hub of the
\* token's scope to a rider; nothing else moves money.
TopUpRules ==
    \A m \in moves :
       IF m.from = Outside
       THEN Unrestricted(Caller(m.by)) /\ m.to \in Hubs
       ELSE /\ Caller(m.by).role = "hub_admin"
            /\ m.from \in Caller(m.by).hubIds
            /\ m.to \in Riders

\* A hub pays only for riders that are assigned to it.  The assignment was
\* read long before the money moves; all that can have taken it away since is
\* the removal of the hub.
HubsPayTheirRiders ==
    \A m \in moves :
       m.from # Outside => <<m.to, m.from>> \in assigned \/ m.from \notin hubs

\* A hub that the client did not name pays only when no other was possible:
\* no other hub in scope had the rider from the start of the request until now.
NobodyElseCouldPay ==
    \A m \in moves :
       m.from # Outside /\ call[m.by].hub # m.from =>
          /\ call[m.by].hub = NoHub
          /\ \A h \in Caller(m.by).hubIds :
                <<m.to, h>> \in before[m.by] \cap assigned => h = m.from

Credits == {m \in moves : m.from = Outside}

\* All the money there is was there at the start or came in by a credit: what
\* a transfer gives the rider it takes from the hub.
MoneyEntersByCredits ==
    Total(balance, Owners)
        = Total(Opening, Owners) + Total([m \in Credits |-> m.amount], Credits)

\* What a caller is told agrees with the wallets: success means that the money
\* moved once, to the wallet and by the amount that were asked for; a refusal
\* means that it did not move; and the wallet in an answer exists.
AnswersAreTruthful ==
    /\ \A m, n \in moves : m.by = n.by => m = n
    /\ \A r \in Requests :
          /\ result[r] = "ok" => call[r].owner \in wallets
          /\ result[r] = "ok" /\ call[r].op = "topUp" =>
                \E m \in moves : m.by = r /\ m.to = call[r].owner /\ m.amount = call[r].amount
          /\ result[r] \in Refusals => \A m \in moves : m.by # r

\* A hub admin who asks for the wallet of a rider by its owner is not refused
\* as out of scope while the rider is assigned to a hub of the token: what
\* src/common/types/auth.ts says of a scope is that hub_id is IN hubIds.
RidersInScopeAreReadable ==
    \A r \in Requests :
       call[r].op = "byOwner" /\ call[r].owner \in Riders /\ Admitted(r)
          /\ result[r] = "forbidden" =>
          HubsInScope(Caller(r), call[r].owner, before[r] \cap assigned) = {}
=============================================================================
