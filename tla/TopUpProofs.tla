----------------------------- MODULE TopUpProofs -----------------------------
(***************************************************************************)
(* The safety properties of TopUp hold for every set of hubs, riders and   *)
(* requests.  The inductive invariant says of each request how far it has  *)
(* come: what its caller and its target must be by then, what it knows of  *)
(* the hub it has chosen, and whether its money has moved.                 *)
(***************************************************************************)
EXTENDS TopUp, TotalsProofs

\* <<x, h>> is assigned, or was until h was removed.
StillOrGone(x, h) == <<x, h>> \in assigned \/ h \notin hubs

\* No other hub in the caller's scope had the target from the start until now.
OnlyChoice(r, h) ==
    \A k \in Caller(r).hubIds :
       <<call[r].owner, k>> \in before[r] \cap assigned => k = h

\* What request r knows of hub h once it has chosen it.
MayPay(r, h) ==
    /\ h \in Caller(r).hubIds
    /\ StillOrGone(call[r].owner, h)
    /\ call[r].hub # h => call[r].hub = NoHub /\ OnlyChoice(r, h)

Moved(r) == \E m \in moves : m.by = r /\ m.to = call[r].owner /\ m.amount = call[r].amount

\* A top-up is on its way to the kind of wallet its caller may top up.
TargetFits(r) ==
    IF Unrestricted(Caller(r)) THEN call[r].owner \in Hubs
    ELSE Caller(r).role = "hub_admin" /\ call[r].owner \in Riders

\* The caller and the target are what the route requires by now.
RouteInv(r) ==
    /\ pc[r] \in {"fetchWallet", "findOwner", "ensureOwner"} =>
          Unrestricted(Caller(r)) \/ Caller(r).role = "hub_admin"
    /\ pc[r] \in {"findOwner", "ensureOwner"} => call[r].op = "byOwner"
    /\ pc[r] \in {"fetchWallet", "chooseHub", "ensureSource", "move", "readWallet"} =>
          call[r].op = "topUp"
    /\ (pc[r] = "checkAccess" /\ call[r].op = "topUp") \/ pc[r] \in {"chooseHub", "ensureSource"} =>
          TargetFits(r) /\ ~Unrestricted(Caller(r))
    /\ pc[r] = "move" => TargetFits(r)

\* The wallets that the rest of the request needs exist.
WalletInv(r) ==
    /\ pc[r] \in {"checkAccess", "chooseHub", "ensureSource", "move", "readWallet", "answer"}
          => call[r].owner \in wallets
    /\ pc[r] = "move" /\ ~Unrestricted(Caller(r)) => source[r] \in wallets
    /\ result[r] = "ok" => call[r].owner \in wallets

SourceInv(r) ==
    pc[r] \in {"ensureSource", "move"} /\ ~Unrestricted(Caller(r)) => MayPay(r, source[r])

\* Money moves at one step of a top-up, and what is answered says so.
MoneyInv(r) ==
    /\ pc[r] \notin {"readWallet", "answer", "done"} => \A m \in moves : m.by # r
    /\ pc[r] = "readWallet" => Moved(r)
    /\ pc[r] = "answer" /\ call[r].op = "topUp" => Moved(r)
    /\ result[r] = "ok" /\ call[r].op = "topUp" => Moved(r)
    /\ result[r] \in Refusals => \A m \in moves : m.by # r

BeforeInv(r) == \A x \in Riders, h \in Hubs : <<x, h>> \in before[r] => StillOrGone(x, h)

RequestInv(r) ==
    /\ result[r] = "none" <=> pc[r] # "done"
    /\ RouteInv(r) /\ WalletInv(r) /\ SourceInv(r) /\ MoneyInv(r) /\ BeforeInv(r)

MoveInv(m) ==
    IF m.from = Outside
    THEN Unrestricted(Caller(m.by)) /\ m.to \in Hubs
    ELSE /\ Caller(m.by).role = "hub_admin"
         /\ m.to \in Riders
         /\ m.to = call[m.by].owner
         /\ MayPay(m.by, m.from)

MovesInv ==
    /\ \A m \in moves : MoveInv(m)
    /\ \A m, n \in moves : m.by = n.by => m = n

IInv == TypeOK /\ (\A r \in Requests : RequestInv(r)) /\ MovesInv

-----------------------------------------------------------------------------
(* What a step of the directory, or of another request, cannot change. *)

DirectoryStep ==
    \/ UNCHANGED directory
    \/ \E x \in Riders, h \in hubs :
          hubs' = hubs /\ assigned' = assigned \cup {<<x, h>>}
    \/ \E h \in hubs : hubs' = hubs \ {h} /\ assigned' = {p \in assigned : p[2] # h}

LEMMA StillOrGoneStays ==
    ASSUME TypeOK, DirectoryStep, NEW x \in Riders, NEW h \in Hubs, StillOrGone(x, h)
    PROVE  StillOrGone(x, h)'
<1>1. CASE UNCHANGED directory
    BY <1>1 DEF StillOrGone, directory
<1>2. CASE \E y \in Riders, k \in hubs :
              hubs' = hubs /\ assigned' = assigned \cup {<<y, k>>}
    BY <1>2 DEF StillOrGone
<1>3. CASE \E k \in hubs : hubs' = hubs \ {k} /\ assigned' = {p \in assigned : p[2] # k}
    BY <1>3 DEF StillOrGone
<1> QED BY <1>1, <1>2, <1>3 DEF DirectoryStep

\* An assignment that a request saw at its start and that is gone stays gone.
LEMMA NeverBack ==
    ASSUME TypeOK, DirectoryStep, NEW x \in Riders, NEW h \in Hubs,
           StillOrGone(x, h), <<x, h>> \in assigned'
    PROVE  <<x, h>> \in assigned
<1>1. CASE UNCHANGED directory
    BY <1>1 DEF directory
<1>2. CASE \E y \in Riders, k \in hubs :
              hubs' = hubs /\ assigned' = assigned \cup {<<y, k>>}
    BY <1>2 DEF StillOrGone
<1>3. CASE \E k \in hubs : hubs' = hubs \ {k} /\ assigned' = {p \in assigned : p[2] # k}
    BY <1>3
<1> QED BY <1>1, <1>2, <1>3 DEF DirectoryStep

LEMMA CallType ==
    ASSUME TypeOK, NEW r \in Requests
    PROVE  /\ call[r] \in Calls
           /\ Caller(r).hubIds \subseteq Hubs
           /\ call[r].owner \in Owners
           /\ call[r].amount \in Nat
    BY TopUpAssumption DEF TypeOK, Calls, Caller, Users

LEMMA MayPayStays ==
    ASSUME TypeOK, DirectoryStep, call' = call,
           NEW r \in Requests, RequestInv(r), before'[r] = before[r],
           call[r].owner \in Riders, NEW h \in Hubs, MayPay(r, h)
    PROVE  MayPay(r, h)'
<1>1. StillOrGone(call[r].owner, h)'
    <2>1. PICK x \in Riders : x = call[r].owner
        OBVIOUS
    <2>2. StillOrGone(x, h)
        BY <2>1 DEF MayPay
    <2>3. StillOrGone(x, h)'
        BY <2>2, StillOrGoneStays
    <2> QED BY <2>1, <2>3 DEF StillOrGone
<1>2. ASSUME OnlyChoice(r, h) PROVE OnlyChoice(r, h)'
    <2> SUFFICES ASSUME NEW k \in Caller(r).hubIds,
                        <<call[r].owner, k>> \in before[r] \cap assigned'
                 PROVE  k = h
        BY DEF OnlyChoice, Caller
    <2>1. k \in Hubs
        BY CallType
    <2>2. StillOrGone(call[r].owner, k)
        BY <2>1 DEF RequestInv, BeforeInv
    <2>3. <<call[r].owner, k>> \in assigned
        BY <2>1, <2>2, NeverBack
    <2> QED BY <2>3, <1>2 DEF OnlyChoice
<1> QED BY <1>1, <1>2 DEF MayPay, Caller

\* RequestInv survives what request q does not do itself.
LEMMA RequestInvStays ==
    ASSUME TypeOK, DirectoryStep, call' = call, wallets \subseteq wallets',
           NEW q \in Requests, RequestInv(q),
           pc'[q] = pc[q], result'[q] = result[q], source'[q] = source[q],
           before'[q] = before[q],
           moves \subseteq moves', \A m \in moves' : m.by = q => m \in moves
    PROVE  RequestInv(q)'
<1> USE DEF Caller
<1>1. SourceInv(q)'
    <2> SUFFICES ASSUME pc[q] \in {"ensureSource", "move"}, ~Unrestricted(Caller(q))
                 PROVE  MayPay(q, source[q])'
        BY DEF SourceInv
    <2>1. MayPay(q, source[q]) /\ call[q].owner \in Riders
        BY DEF RequestInv, RouteInv, SourceInv, TargetFits
    <2>2. PICK h \in Hubs : h = source[q]
        BY <2>1, CallType DEF MayPay
    <2>3. MayPay(q, h)'
        BY <2>1, <2>2, MayPayStays
    <2> QED BY <2>2, <2>3 DEF MayPay, OnlyChoice, StillOrGone
<1>2. BeforeInv(q)'
    <2> SUFFICES ASSUME NEW x \in Riders, NEW h \in Hubs, <<x, h>> \in before'[q]
                 PROVE  StillOrGone(x, h)'
        BY DEF BeforeInv
    <2>1. StillOrGone(x, h)
        BY DEF RequestInv, BeforeInv
    <2> QED BY <2>1, StillOrGoneStays
<1>3. MoneyInv(q)'
    BY DEF RequestInv, MoneyInv, Moved
<1>4. RouteInv(q)'
    BY DEF RequestInv, RouteInv, TargetFits
<1>5. WalletInv(q)'
    BY DEF RequestInv, WalletInv
<1> QED BY <1>1, <1>2, <1>3, <1>4, <1>5 DEF RequestInv

\* A step of one request that neither moves money nor touches the directory.
LEMMA LocalStep ==
    ASSUME IInv, NEW r \in Requests,
           UNCHANGED <<directory, call, moves>>, wallets \subseteq wallets',
           \A q \in Requests \ {r} :
              /\ pc'[q] = pc[q] /\ result'[q] = result[q]
              /\ source'[q] = source[q] /\ before'[q] = before[q],
           pc[r] = "called" \/ before'[r] = before[r],
           TypeOK', RequestInv(r)'
    PROVE  IInv'
<1>1. DirectoryStep
    BY DEF DirectoryStep
<1>2. ASSUME NEW q \in Requests PROVE RequestInv(q)'
    <2>1. CASE q = r
        BY <2>1
    <2>2. CASE q # r
        <3>1. RequestInv(q) /\ TypeOK
            BY DEF IInv
        <3> QED BY <1>1, <2>2, <3>1, RequestInvStays
    <2> QED BY <2>1, <2>2
<1>3. MovesInv'
    <2> SUFFICES ASSUME NEW m \in moves PROVE MoveInv(m)'
        BY DEF IInv, MovesInv
    <2>1. MoveInv(m) /\ m.by \in Requests
        BY DEF IInv, MovesInv, TypeOK
    <2>2. before'[m.by] = before[m.by]
        <3>1. pc[r] = "called" => m.by # r
            BY DEF IInv, RequestInv, MoneyInv
        <3> QED BY <2>1, <3>1
    <2> QED BY <2>1, <2>2 DEF MoveInv, MayPay, OnlyChoice, StillOrGone, Caller, directory
<1> QED BY <1>2, <1>3 DEF IInv

-----------------------------------------------------------------------------
(* One lemma per action. *)

LEMMA InitHolds == ASSUME Init PROVE IInv
<1>1. TypeOK
    BY TopUpAssumption DEF Init, TypeOK, Phases
<1>2. \A r \in Requests : RequestInv(r)
    BY DEF Init, RequestInv, RouteInv, WalletInv, SourceInv, MoneyInv, BeforeInv, Refusals
<1> QED BY <1>1, <1>2 DEF Init, IInv, MovesInv

LEMMA GuardsKeeps == ASSUME IInv, NEW r \in Requests, Guards(r) PROVE IInv'
<1> USE DEF Guards, GoTo, End, directory, money
<1>1. TypeOK'
    BY CallType, TopUpAssumption DEF IInv, TypeOK, Phases, Refusals, Owners
<1>2. RequestInv(r)'
    <2>1. RequestInv(r) /\ TypeOK
        BY DEF IInv
    <2>2. (result[r] = "none" <=> pc[r] # "done")'
        BY <2>1 DEF RequestInv, TypeOK
    <2>3. RouteInv(r)'
        BY <2>1, CallType DEF RequestInv, RouteInv, TypeOK, TargetFits, Caller, Admitted, GuardsPass, Unrestricted, Owners, Calls, Users
    <2>4. WalletInv(r)'
        BY <2>1 DEF RequestInv, WalletInv, TypeOK, Caller
    <2>5. SourceInv(r)'
        BY <2>1 DEF RequestInv, SourceInv, TypeOK, MayPay, OnlyChoice, StillOrGone, Caller, HubsFound, HubsInScope
    <2>6. MoneyInv(r)'
        BY <2>1 DEF RequestInv, MoneyInv, RouteInv, TypeOK, Moved, Refusals
    <2>7. BeforeInv(r)'
        BY <2>1 DEF RequestInv, BeforeInv, TypeOK, StillOrGone
    <2> QED BY <2>2, <2>3, <2>4, <2>5, <2>6, <2>7 DEF RequestInv
<1> QED BY <1>1, <1>2, LocalStep DEF IInv, TypeOK

LEMMA FetchWalletKeeps == ASSUME IInv, NEW r \in Requests, FetchWallet(r) PROVE IInv'
<1> USE DEF FetchWallet, GoTo, End, directory, money
<1>1. TypeOK'
    BY CallType, TopUpAssumption DEF IInv, TypeOK, Phases, Refusals, Owners
<1>2. RequestInv(r)'
    <2>1. RequestInv(r) /\ TypeOK
        BY DEF IInv
    <2>2. (result[r] = "none" <=> pc[r] # "done")'
        BY <2>1 DEF RequestInv, TypeOK
    <2>3. RouteInv(r)'
        BY <2>1, CallType DEF RequestInv, RouteInv, TypeOK, TargetFits, Caller, Admitted, GuardsPass, Unrestricted, Owners, Calls, Users
    <2>4. WalletInv(r)'
        BY <2>1 DEF RequestInv, WalletInv, TypeOK, Caller
    <2>5. SourceInv(r)'
        BY <2>1 DEF RequestInv, SourceInv, TypeOK, MayPay, OnlyChoice, StillOrGone, Caller, HubsFound, HubsInScope
    <2>6. MoneyInv(r)'
        BY <2>1 DEF RequestInv, MoneyInv, RouteInv, TypeOK, Moved, Refusals
    <2>7. BeforeInv(r)'
        BY <2>1 DEF RequestInv, BeforeInv, TypeOK, StillOrGone
    <2> QED BY <2>2, <2>3, <2>4, <2>5, <2>6, <2>7 DEF RequestInv
<1> QED BY <1>1, <1>2, LocalStep DEF IInv, TypeOK

LEMMA FindOwnerKeeps == ASSUME IInv, NEW r \in Requests, FindOwner(r) PROVE IInv'
<1> USE DEF FindOwner, GoTo, End, directory, money
<1>1. TypeOK'
    BY CallType, TopUpAssumption DEF IInv, TypeOK, Phases, Refusals, Owners
<1>2. RequestInv(r)'
    <2>1. RequestInv(r) /\ TypeOK
        BY DEF IInv
    <2>2. (result[r] = "none" <=> pc[r] # "done")'
        BY <2>1 DEF RequestInv, TypeOK
    <2>3. RouteInv(r)'
        BY <2>1, CallType DEF RequestInv, RouteInv, TypeOK, TargetFits, Caller, Admitted, GuardsPass, Unrestricted, Owners, Calls, Users
    <2>4. WalletInv(r)'
        BY <2>1 DEF RequestInv, WalletInv, TypeOK, Caller
    <2>5. SourceInv(r)'
        BY <2>1 DEF RequestInv, SourceInv, TypeOK, MayPay, OnlyChoice, StillOrGone, Caller, HubsFound, HubsInScope
    <2>6. MoneyInv(r)'
        BY <2>1 DEF RequestInv, MoneyInv, RouteInv, TypeOK, Moved, Refusals
    <2>7. BeforeInv(r)'
        BY <2>1 DEF RequestInv, BeforeInv, TypeOK, StillOrGone
    <2> QED BY <2>2, <2>3, <2>4, <2>5, <2>6, <2>7 DEF RequestInv
<1> QED BY <1>1, <1>2, LocalStep DEF IInv, TypeOK

LEMMA CheckAccessKeeps == ASSUME IInv, NEW r \in Requests, CheckAccess(r) PROVE IInv'
<1> USE DEF CheckAccess, GoTo, End, directory, money
<1>1. TypeOK'
    BY CallType, TopUpAssumption DEF IInv, TypeOK, Phases, Refusals, Owners
<1>2. RequestInv(r)'
    <2>1. RequestInv(r) /\ TypeOK
        BY DEF IInv
    <2>2. (result[r] = "none" <=> pc[r] # "done")'
        BY <2>1 DEF RequestInv, TypeOK
    <2>3. RouteInv(r)'
        BY <2>1, CallType DEF RequestInv, RouteInv, TypeOK, TargetFits, Caller, Admitted, GuardsPass, Unrestricted, Owners, Calls, Users
    <2>4. WalletInv(r)'
        BY <2>1 DEF RequestInv, WalletInv, TypeOK, Caller
    <2>5. SourceInv(r)'
        BY <2>1 DEF RequestInv, SourceInv, TypeOK, MayPay, OnlyChoice, StillOrGone, Caller, HubsFound, HubsInScope
    <2>6. MoneyInv(r)'
        BY <2>1 DEF RequestInv, MoneyInv, RouteInv, TypeOK, Moved, Refusals
    <2>7. BeforeInv(r)'
        BY <2>1 DEF RequestInv, BeforeInv, TypeOK, StillOrGone
    <2> QED BY <2>2, <2>3, <2>4, <2>5, <2>6, <2>7 DEF RequestInv
<1> QED BY <1>1, <1>2, LocalStep DEF IInv, TypeOK

LEMMA ChooseHubKeeps == ASSUME IInv, NEW r \in Requests, ChooseHub(r) PROVE IInv'
<1> USE DEF ChooseHub, GoTo, End, directory, money
<1>1. TypeOK'
    BY CallType, TopUpAssumption DEF IInv, TypeOK, Phases, Refusals, Owners
<1>2. RequestInv(r)'
    <2>1. RequestInv(r) /\ TypeOK
        BY DEF IInv
    <2>2. (result[r] = "none" <=> pc[r] # "done")'
        BY <2>1 DEF RequestInv, TypeOK
    <2>3. RouteInv(r)'
        BY <2>1, CallType DEF RequestInv, RouteInv, TypeOK, TargetFits, Caller, Admitted, GuardsPass, Unrestricted, Owners, Calls, Users
    <2>4. WalletInv(r)'
        BY <2>1 DEF RequestInv, WalletInv, TypeOK, Caller
    <2>5. SourceInv(r)'
        BY <2>1 DEF RequestInv, SourceInv, TypeOK, MayPay, OnlyChoice, StillOrGone, Caller, HubsFound, HubsInScope
    <2>6. MoneyInv(r)'
        BY <2>1 DEF RequestInv, MoneyInv, RouteInv, TypeOK, Moved, Refusals
    <2>7. BeforeInv(r)'
        BY <2>1 DEF RequestInv, BeforeInv, TypeOK, StillOrGone
    <2> QED BY <2>2, <2>3, <2>4, <2>5, <2>6, <2>7 DEF RequestInv
<1> QED BY <1>1, <1>2, LocalStep DEF IInv, TypeOK

LEMMA EnsureWalletKeeps == ASSUME IInv, NEW r \in Requests, EnsureWallet(r) PROVE IInv'
<1> USE DEF EnsureWallet, GoTo, End, directory, money
<1>1. TypeOK'
    <2>1. pc[r] = "ensureSource" => source[r] \in Owners
        BY CallType DEF IInv, RequestInv, RouteInv, SourceInv, MayPay, Owners
    <2> QED BY <2>1, CallType, TopUpAssumption DEF IInv, TypeOK, Phases, Refusals, Owners
<1>2. RequestInv(r)'
    <2>1. RequestInv(r) /\ TypeOK
        BY DEF IInv
    <2>2. (result[r] = "none" <=> pc[r] # "done")'
        BY <2>1 DEF RequestInv, TypeOK
    <2>3. RouteInv(r)'
        BY <2>1, CallType DEF RequestInv, RouteInv, TypeOK, TargetFits, Caller, Admitted, GuardsPass, Unrestricted, Owners, Calls, Users
    <2>4. WalletInv(r)'
        BY <2>1 DEF RequestInv, WalletInv, TypeOK, Caller
    <2>5. SourceInv(r)'
        BY <2>1 DEF RequestInv, SourceInv, TypeOK, MayPay, OnlyChoice, StillOrGone, Caller, HubsFound, HubsInScope
    <2>6. MoneyInv(r)'
        BY <2>1 DEF RequestInv, MoneyInv, RouteInv, TypeOK, Moved, Refusals
    <2>7. BeforeInv(r)'
        BY <2>1 DEF RequestInv, BeforeInv, TypeOK, StillOrGone
    <2> QED BY <2>2, <2>3, <2>4, <2>5, <2>6, <2>7 DEF RequestInv
<1> QED BY <1>1, <1>2, LocalStep DEF IInv, TypeOK

LEMMA ReadWalletKeeps == ASSUME IInv, NEW r \in Requests, ReadWallet(r) PROVE IInv'
<1> USE DEF ReadWallet, GoTo, End, directory, money
<1>1. TypeOK'
    BY CallType, TopUpAssumption DEF IInv, TypeOK, Phases, Refusals, Owners
<1>2. RequestInv(r)'
    <2>1. RequestInv(r) /\ TypeOK
        BY DEF IInv
    <2>2. (result[r] = "none" <=> pc[r] # "done")'
        BY <2>1 DEF RequestInv, TypeOK
    <2>3. RouteInv(r)'
        BY <2>1, CallType DEF RequestInv, RouteInv, TypeOK, TargetFits, Caller, Admitted, GuardsPass, Unrestricted, Owners, Calls, Users
    <2>4. WalletInv(r)'
        BY <2>1 DEF RequestInv, WalletInv, TypeOK, Caller
    <2>5. SourceInv(r)'
        BY <2>1 DEF RequestInv, SourceInv, TypeOK, MayPay, OnlyChoice, StillOrGone, Caller, HubsFound, HubsInScope
    <2>6. MoneyInv(r)'
        BY <2>1 DEF RequestInv, MoneyInv, RouteInv, TypeOK, Moved, Refusals
    <2>7. BeforeInv(r)'
        BY <2>1 DEF RequestInv, BeforeInv, TypeOK, StillOrGone
    <2> QED BY <2>2, <2>3, <2>4, <2>5, <2>6, <2>7 DEF RequestInv
<1> QED BY <1>1, <1>2, LocalStep DEF IInv, TypeOK

LEMMA AnswerKeeps == ASSUME IInv, NEW r \in Requests, Answer(r) PROVE IInv'
<1> USE DEF Answer, GoTo, End, directory, money
<1>1. TypeOK'
    BY CallType, TopUpAssumption DEF IInv, TypeOK, Phases, Refusals, Owners
<1>2. RequestInv(r)'
    <2>1. RequestInv(r) /\ TypeOK
        BY DEF IInv
    <2>2. (result[r] = "none" <=> pc[r] # "done")'
        BY <2>1 DEF RequestInv, TypeOK
    <2>3. RouteInv(r)'
        BY <2>1, CallType DEF RequestInv, RouteInv, TypeOK, TargetFits, Caller, Admitted, GuardsPass, Unrestricted, Owners, Calls, Users
    <2>4. WalletInv(r)'
        BY <2>1 DEF RequestInv, WalletInv, TypeOK, Caller
    <2>5. SourceInv(r)'
        BY <2>1 DEF RequestInv, SourceInv, TypeOK, MayPay, OnlyChoice, StillOrGone, Caller, HubsFound, HubsInScope
    <2>6. MoneyInv(r)'
        BY <2>1 DEF RequestInv, MoneyInv, RouteInv, TypeOK, Moved, Refusals
    <2>7. BeforeInv(r)'
        BY <2>1 DEF RequestInv, BeforeInv, TypeOK, StillOrGone
    <2> QED BY <2>2, <2>3, <2>4, <2>5, <2>6, <2>7 DEF RequestInv
<1> QED BY <1>1, <1>2, LocalStep DEF IInv, TypeOK

LEMMA FailKeeps == ASSUME IInv, NEW r \in Requests, Fail(r) PROVE IInv'
<1> USE DEF Fail, GoTo, End, directory, money
<1>1. TypeOK'
    BY CallType, TopUpAssumption DEF IInv, TypeOK, Phases, Refusals, Owners
<1>2. RequestInv(r)'
    <2>1. RequestInv(r) /\ TypeOK
        BY DEF IInv
    <2>2. (result[r] = "none" <=> pc[r] # "done")'
        BY <2>1 DEF RequestInv, TypeOK
    <2>3. RouteInv(r)'
        BY <2>1, CallType DEF RequestInv, RouteInv, TypeOK, TargetFits, Caller, Admitted, GuardsPass, Unrestricted, Owners, Calls, Users
    <2>4. WalletInv(r)'
        BY <2>1 DEF RequestInv, WalletInv, TypeOK, Caller
    <2>5. SourceInv(r)'
        BY <2>1 DEF RequestInv, SourceInv, TypeOK, MayPay, OnlyChoice, StillOrGone, Caller, HubsFound, HubsInScope
    <2>6. MoneyInv(r)'
        BY <2>1 DEF RequestInv, MoneyInv, RouteInv, TypeOK, Moved, Refusals
    <2>7. BeforeInv(r)'
        BY <2>1 DEF RequestInv, BeforeInv, TypeOK, StillOrGone
    <2> QED BY <2>2, <2>3, <2>4, <2>5, <2>6, <2>7 DEF RequestInv
<1> QED BY <1>1, <1>2, LocalStep DEF IInv, TypeOK

\* A request moves money for the first time when it has not moved any.
LEMMA FirstMove ==
    ASSUME NEW r, NEW from, \A m \in moves : m.by # r
    PROVE  MoveOf(r, from) = [by |-> r, nth |-> 0, from |-> from,
                              to |-> call[r].owner, amount |-> call[r].amount]
<1>1. {m \in moves : m.by = r} = {}
    OBVIOUS
<1> QED BY <1>1, FS_EmptySet DEF MoveOf

LEMMA MoveKeeps == ASSUME IInv, NEW r \in Requests, Move(r) PROVE IInv'
<1> DEFINE from == IF Unrestricted(Caller(r)) THEN Outside ELSE source[r]
           to == call[r].owner
           amount == call[r].amount
           move == [by |-> r, nth |-> 0, from |-> from, to |-> to, amount |-> amount]
<1> USE DEF directory
<1>1. /\ TypeOK /\ RequestInv(r) /\ MovesInv
      /\ pc[r] = "move" /\ result[r] = "none" /\ call[r].op = "topUp"
      /\ \A m \in moves : m.by # r
    BY DEF IInv, Move, RequestInv, RouteInv, MoneyInv
<1>2. /\ to \in wallets /\ to \in Owners /\ amount \in Nat
      /\ IF Unrestricted(Caller(r))
         THEN from = Outside /\ to \in Hubs
         ELSE /\ from \in wallets /\ from \in Hubs /\ from # Outside
              /\ to \in Riders /\ Caller(r).role = "hub_admin" /\ MayPay(r, from)
      /\ from # to
    BY <1>1, CallType, TopUpAssumption
       DEF RequestInv, RouteInv, TargetFits, WalletInv, SourceInv, MayPay, Owners
<1>3. UNCHANGED <<directory, wallets, call, source, before>>
    BY DEF Move
<1>4. \/ /\ UNCHANGED <<balance, moves>>
         /\ pc' = [pc EXCEPT ![r] = "done"]
         /\ \E why \in {"badRequest", "insufficient", "error"} :
               result' = [result EXCEPT ![r] = why]
      \/ /\ amount > 0 /\ ~(from # Outside /\ balance[from] < amount)
         /\ ~(balance[to] + amount > MaxBalance)
         /\ balance' = [o \in Owners |-> CASE o = to   -> balance[o] + amount
                                           [] o = from -> balance[o] - amount
                                           [] OTHER    -> balance[o]]
         /\ moves' = moves \cup {move}
         /\ pc' = [pc EXCEPT ![r] = "readWallet"] /\ result' = result
    BY <1>1, FirstMove DEF Move, GoTo, End
<1>5. CASE /\ UNCHANGED <<balance, moves>>
           /\ pc' = [pc EXCEPT ![r] = "done"]
           /\ \E why \in {"badRequest", "insufficient", "error"} :
                 result' = [result EXCEPT ![r] = why]
    <2>1. TypeOK'
        BY <1>1, <1>3, <1>5 DEF TypeOK, Phases, Refusals
    <2>2. pc'[r] = "done" /\ result'[r] \in {"badRequest", "insufficient", "error"}
        BY <1>1, <1>5 DEF TypeOK
    <2>3. RequestInv(r)'
        BY <1>1, <1>3, <1>5, <2>2 DEF RequestInv, RouteInv, WalletInv, SourceInv, MoneyInv,
            BeforeInv, StillOrGone
    <2> QED BY <1>3, <1>5, <2>1, <2>3, LocalStep DEF IInv, TypeOK
<1>6. CASE /\ amount > 0 /\ ~(from # Outside /\ balance[from] < amount)
           /\ ~(balance[to] + amount > MaxBalance)
           /\ balance' = [o \in Owners |-> CASE o = to   -> balance[o] + amount
                                             [] o = from -> balance[o] - amount
                                             [] OTHER    -> balance[o]]
           /\ moves' = moves \cup {move}
           /\ pc' = [pc EXCEPT ![r] = "readWallet"] /\ result' = result
    <2> HIDE DEF from, to, amount
    <2>1. \A o \in Owners : balance'[o] \in 0 .. MaxBalance /\ (o \notin wallets => balance'[o] = 0)
        <3> SUFFICES ASSUME NEW o \in Owners
                     PROVE  balance'[o] \in 0 .. MaxBalance /\ (o \notin wallets => balance'[o] = 0)
            OBVIOUS
        <3>1. balance[o] \in 0 .. MaxBalance /\ (o \notin wallets => balance[o] = 0)
            BY <1>1 DEF TypeOK
        <3>2. MaxBalance \in Nat
            BY TopUpAssumption
        <3>3. CASE o = to
            BY <1>2, <1>6, <3>1, <3>2, <3>3
        <3>4. CASE o # to /\ o = from
            <4>1. ~Unrestricted(Caller(r)) /\ from # Outside /\ o \in wallets
                BY <1>2, <3>4, TopUpAssumption
            <4>2. balance'[o] = balance[o] - amount /\ amount <= balance[o]
                BY <1>2, <1>6, <3>1, <3>4, <4>1
            <4> QED BY <1>2, <3>1, <3>2, <4>1, <4>2
        <3>5. CASE o # to /\ o # from
            BY <1>6, <3>1, <3>5
        <3> QED BY <3>3, <3>4, <3>5
    <2>2. TypeOK'
        <3>1. balance' \in [Owners -> 0 .. MaxBalance]
            BY <1>6, <2>1
        <3>2. move \in [by : Requests, nth : Nat, from : Owners \cup {Outside}, to : Owners, amount : Nat]
            BY <1>2 DEF Owners
        <3> QED BY <1>1, <1>3, <1>6, <2>1, <3>1, <3>2 DEF TypeOK, Phases
    <2>3. RequestInv(r)'
        <3>1. pc'[r] = "readWallet" /\ result'[r] = "none"
            BY <1>1, <1>6 DEF TypeOK
        <3>2. BeforeInv(r)'
            BY <1>1, <1>3 DEF RequestInv, BeforeInv, StillOrGone
        <3>3. Moved(r)'
            <4>1. move \in moves' /\ move.by = r
                BY <1>6
            <4>2. move.to = call'[r].owner /\ move.amount = call'[r].amount
                BY <1>3 DEF to, amount
            <4> QED BY <4>1, <4>2 DEF Moved
        <3> QED BY <1>1, <1>2, <1>3, <3>1, <3>2, <3>3
                DEF RequestInv, RouteInv, WalletInv, SourceInv, MoneyInv, Refusals, to
    <2>4. ASSUME NEW q \in Requests, q # r PROVE RequestInv(q)'
        <3>1. RequestInv(q) /\ TypeOK
            BY DEF IInv
        <3>2. pc'[q] = pc[q] /\ result'[q] = result[q]
            BY <1>6, <2>4
        <3>3. \A m \in moves' : m.by = q => m \in moves
            BY <1>6, <2>4
        <3>4. DirectoryStep
            BY <1>3 DEF DirectoryStep
        <3> QED BY <1>3, <1>6, <3>1, <3>2, <3>3, <3>4, RequestInvStays
    <2>5. MovesInv'
        <3>1. ASSUME NEW m \in moves PROVE MoveInv(m)'
            BY <1>1, <1>3 DEF MovesInv, MoveInv, MayPay, OnlyChoice, StillOrGone, Caller
        <3>2. ASSUME NEW m, m = move PROVE MoveInv(m)'
            <4>1. m.by = r /\ m.from = from /\ m.to = call[r].owner
                BY <3>2 DEF to
            <4>2. MoveInv(m)
                BY <1>2, <4>1, TopUpAssumption DEF MoveInv, Owners, to
            <4> QED BY <1>3, <4>2 DEF MoveInv, MayPay, OnlyChoice, StillOrGone, Caller
        <3>3. \A m, n \in moves' : m.by = n.by => m = n
            BY <1>1, <1>6 DEF MovesInv
        <3>4. \A m \in moves' : m \in moves \/ m = move
            BY <1>6
        <3>5. \A m \in moves' : MoveInv(m)'
            <4> HIDE DEF move
            <4> QED BY <3>1, <3>2, <3>4
        <3> QED BY <3>3, <3>5 DEF MovesInv
    <2> QED BY <2>2, <2>3, <2>4, <2>5 DEF IInv
<1> QED BY <1>4, <1>5, <1>6

\* The directory's own steps: a hub that is removed takes its assignments along.
LEMMA DirectoryKeeps ==
    ASSUME IInv, DirectoryStep, assigned' \subseteq Riders \X hubs',
           UNCHANGED <<money, call, pc, source, result, before>>
    PROVE  IInv'
<1> USE DEF money
<1>1. TypeOK'
    BY DEF IInv, TypeOK, DirectoryStep, directory
<1>2. ASSUME NEW q \in Requests PROVE RequestInv(q)'
    <2>1. RequestInv(q) /\ TypeOK
        BY DEF IInv
    <2> QED BY <2>1, RequestInvStays
<1>3. MovesInv'
    <2> SUFFICES ASSUME NEW m \in moves PROVE MoveInv(m)'
        BY DEF IInv, MovesInv
    <2>1. /\ TypeOK /\ MoveInv(m) /\ m.by \in Requests /\ m.from \in Owners \cup {Outside}
          /\ RequestInv(m.by)
        BY DEF IInv, MovesInv, TypeOK
    <2>2. CASE m.from = Outside
        BY <2>1, <2>2 DEF MoveInv, Caller
    <2>3. CASE m.from # Outside
        <3>1. MayPay(m.by, m.from) /\ m.to = call[m.by].owner /\ m.to \in Riders
            BY <2>1, <2>3 DEF MoveInv
        <3>2. m.from \in Hubs
            BY <2>1, <3>1, CallType DEF MayPay
        <3>3. MayPay(m.by, m.from)'
            BY <2>1, <3>1, <3>2, MayPayStays
        <3> QED BY <2>1, <2>3, <3>1, <3>3 DEF MoveInv, Caller
    <2> QED BY <2>2, <2>3
<1> QED BY <1>1, <1>2, <1>3 DEF IInv

LEMMA AssignHubKeeps ==
    ASSUME IInv, NEW x \in Riders, NEW h \in Hubs, AssignHub(x, h) PROVE IInv'
    BY DirectoryKeeps DEF AssignHub, Services!Assign, DirectoryStep, IInv, TypeOK, money

LEMMA RemoveHubKeeps == ASSUME IInv, NEW h \in Hubs, RemoveHub(h) PROVE IInv'
<1>1. assigned' \subseteq Riders \X hubs'
    BY DEF RemoveHub, Services!Remove, IInv, TypeOK
<1> QED BY <1>1, DirectoryKeeps DEF RemoveHub, Services!Remove, DirectoryStep

LEMMA CrashKeeps == ASSUME IInv, Crash PROVE IInv'
<1> USE DEF Crash, directory, money
<1>1. TypeOK'
    BY DEF IInv, TypeOK, Phases
<1>2. ASSUME NEW r \in Requests PROVE RequestInv(r)'
    <2>1. RequestInv(r) /\ TypeOK
        BY DEF IInv
    <2>2. CASE pc[r] \in {"called", "done"}
        <3>1. pc'[r] = pc[r] /\ result'[r] = result[r]
            BY <2>2
        <3>2. DirectoryStep
            BY DEF DirectoryStep
        <3> QED BY <2>1, <3>1, <3>2, RequestInvStays
    <2>3. CASE pc[r] \notin {"called", "done"}
        <3>1. pc'[r] = "done" /\ result'[r] = "lost"
            BY <2>3
        <3> QED BY <2>1, <3>1 DEF RequestInv, RouteInv, WalletInv, SourceInv, MoneyInv,
                BeforeInv, StillOrGone, Refusals
    <2> QED BY <2>2, <2>3
<1>3. MovesInv'
    BY DEF IInv, MovesInv, MoveInv, MayPay, OnlyChoice, StillOrGone, Caller
<1> QED BY <1>1, <1>2, <1>3 DEF IInv

LEMMA StutterKeeps == ASSUME IInv, UNCHANGED vars PROVE IInv'
    BY DEF vars, IInv, TypeOK, RequestInv, RouteInv, WalletInv, SourceInv, MoneyInv, BeforeInv,
        TargetFits, MovesInv, MoveInv, MayPay, OnlyChoice, StillOrGone, Moved, Caller, Refusals

LEMMA Inductive == ASSUME IInv, [Next]_vars PROVE IInv'
<1>1. ASSUME NEW r \in Requests, Step(r) \/ Fail(r) PROVE IInv'
    BY <1>1, GuardsKeeps, FetchWalletKeeps, FindOwnerKeeps, CheckAccessKeeps, ChooseHubKeeps,
       EnsureWalletKeeps, MoveKeeps, ReadWalletKeeps, AnswerKeeps, FailKeeps DEF Step
<1> QED BY <1>1, AssignHubKeeps, RemoveHubKeeps, CrashKeeps, StutterKeeps DEF Next

LEMMA Invariant == Spec => []IInv
    BY InitHolds, Inductive, PTL DEF Spec

-----------------------------------------------------------------------------
(* What Move does to the totals. *)

MoneyIInv == IsFiniteSet(moves) /\ MoneyEntersByCredits

LEMMA OwnersAreFinite == IsFiniteSet(Owners)
    BY TopUpAssumption, FS_Union DEF Owners

LEMMA OnlyMoveMoves ==
    ASSUME [Next]_vars
    PROVE  UNCHANGED <<balance, moves>> \/ \E r \in Requests : Move(r)
    BY DEF Next, Step, vars, money, Guards, FetchWallet, FindOwner, CheckAccess, ChooseHub,
        EnsureWallet, ReadWallet, Answer, Fail, Crash, AssignHub, RemoveHub

LEMMA MovesBetweenOwners ==
    ASSUME IInv, NEW r \in Requests, pc[r] = "move"
    PROVE  /\ \A m \in moves : m.by # r
           /\ call[r].owner \in Owners /\ call[r].amount \in Nat
           /\ ~Unrestricted(Caller(r)) =>
                 source[r] \in Owners /\ source[r] # Outside /\ source[r] # call[r].owner
<1>1. TypeOK /\ RequestInv(r)
    BY DEF IInv
<1> QED BY <1>1, CallType, TopUpAssumption
        DEF RequestInv, RouteInv, TargetFits, SourceInv, MayPay, MoneyInv, Owners

\* A credit adds its amount to the balances and to the credits.
LEMMA CreditAdds ==
    ASSUME IInv, MoneyIInv, NEW to \in Owners, NEW m,
           m \notin moves, m.from = Outside, m.amount \in Nat,
           moves' = moves \cup {m}, balance'[to] = balance[to] + m.amount,
           balance' \in [Owners -> Int], \A o \in Owners \ {to} : balance'[o] = balance[o]
    PROVE  MoneyIInv'
<1> DEFINE old == [n \in Credits |-> n.amount]
           new == [n \in Credits' |-> n.amount]
<1>1. balance \in [Owners -> Int] /\ (\A n \in moves : n.amount \in Int)
    BY TopUpAssumption DEF IInv, TypeOK
<1>2. Total(balance', Owners) = Total(balance, Owners) + (balance'[to] - balance[to])
    BY <1>1, OwnersAreFinite, TotalAfterChange
<1>3. /\ IsFiniteSet(moves') /\ IsFiniteSet(Credits') /\ IsFiniteSet(Credits)
      /\ Credits' = Credits \cup {m} /\ m \notin Credits
    <2>1. IsFiniteSet(moves) /\ IsFiniteSet(moves')
        BY FS_AddElement DEF MoneyIInv
    <2>2. Credits \subseteq moves /\ Credits' \subseteq moves'
        BY DEF Credits
    <2>3. Credits' = Credits \cup {m} /\ m \notin Credits
        BY DEF Credits
    <2> QED BY <2>1, <2>2, <2>3, FS_Subset
<1>4. Total(new, Credits') = m.amount + Total(old, Credits)
    <2>1. /\ \A n \in Credits' : new[n] \in Int
          /\ new[m] = m.amount /\ Credits' \ {m} = Credits
          /\ \A n \in Credits : new[n] = old[n]
        BY <1>1, <1>3 DEF Credits
    <2> HIDE DEF new, old
    <2>2. Total(new, Credits') = new[m] + Total(new, Credits' \ {m})
        BY <1>3, <2>1, TotalByMember
    <2>3. Total(new, Credits) = Total(old, Credits)
        BY <1>3, <2>1, TotalOfValues
    <2> QED BY <2>1, <2>2, <2>3
<1>5. Total(balance, Owners) \in Int /\ Total(Opening, Owners) \in Int /\ Total(old, Credits) \in Int
    <2>1. (\A n \in Credits : old[n] \in Int) /\ (\A o \in Owners : Opening[o] \in Int)
        BY <1>1, TopUpAssumption DEF Credits
    <2> HIDE DEF old
    <2> QED BY <1>1, <1>3, <2>1, OwnersAreFinite, TotalType
<1>6. Total(balance, Owners) = Total(Opening, Owners) + Total(old, Credits)
    BY DEF MoneyIInv, MoneyEntersByCredits
<1>7. balance'[to] - balance[to] = m.amount
    BY <1>1
<1>8. Total(balance', Owners) = Total(Opening, Owners) + Total(new, Credits')
    <2> HIDE DEF new, old
    <2> QED BY <1>2, <1>4, <1>5, <1>6, <1>7
<1> QED BY <1>3, <1>8 DEF MoneyIInv, MoneyEntersByCredits

\* A transfer takes from one balance what it adds to the other.
LEMMA TransferMoves ==
    ASSUME IInv, MoneyIInv, NEW from \in Owners, NEW to \in Owners, from # to,
           NEW amount \in Nat, NEW m, m.from = from, moves' = moves \cup {m},
           balance' = [o \in Owners |-> CASE o = to   -> balance[o] + amount
                                          [] o = from -> balance[o] - amount
                                          [] OTHER    -> balance[o]]
    PROVE  MoneyIInv'
<1> DEFINE mid == [balance EXCEPT ![to] = @ + amount]
<1>1. balance \in [Owners -> Int]
    BY TopUpAssumption DEF IInv, TypeOK
<1>2. /\ \A o \in Owners : mid[o] \in Int /\ balance[o] \in Int /\ balance'[o] \in Int
      /\ \A o \in Owners \ {to} : mid[o] = balance[o]
      /\ \A o \in Owners \ {from} : balance'[o] = mid[o]
      /\ mid[to] - balance[to] = amount /\ balance'[from] - mid[from] = 0 - amount
    BY <1>1
<1> HIDE DEF mid
<1>3. Total(mid, Owners) = Total(balance, Owners) + (mid[to] - balance[to])
    <2>1. \A o \in Owners : balance[o] \in Int /\ mid[o] \in Int
        BY <1>2
    <2>2. \A o \in Owners \ {to} : mid[o] = balance[o]
        BY <1>2
    <2> QED BY ONLY <2>1, <2>2, to \in Owners, OwnersAreFinite, TotalAfterChange
<1>4. Total(balance', Owners) = Total(mid, Owners) + (balance'[from] - mid[from])
    <2>1. \A o \in Owners : mid[o] \in Int /\ balance'[o] \in Int
        BY <1>2
    <2>2. \A o \in Owners \ {from} : balance'[o] = mid[o]
        BY <1>2
    <2> QED BY ONLY <2>1, <2>2, from \in Owners, OwnersAreFinite, TotalAfterChange
<1>5. Total(balance, Owners) \in Int
    BY <1>2, OwnersAreFinite, TotalType
<1>6. Total(balance', Owners) = Total(balance, Owners)
    BY <1>2, <1>3, <1>4, <1>5
<1>7. IsFiniteSet(moves') /\ Credits' = Credits
    BY TopUpAssumption, FS_AddElement DEF MoneyIInv, Credits
<1> QED BY <1>6, <1>7 DEF MoneyIInv, MoneyEntersByCredits

LEMMA MoveConserves ==
    ASSUME IInv, MoneyIInv, NEW r \in Requests, Move(r) PROVE MoneyIInv'
<1> DEFINE from == IF Unrestricted(Caller(r)) THEN Outside ELSE source[r]
           to == call[r].owner
           amount == call[r].amount
           move == [by |-> r, nth |-> 0, from |-> from, to |-> to, amount |-> amount]
<1>1. CASE UNCHANGED <<balance, moves>>
    BY <1>1 DEF MoneyIInv, MoneyEntersByCredits, Credits
<1>2. CASE /\ balance' = [o \in Owners |-> CASE o = to   -> balance[o] + amount
                                             [] o = from -> balance[o] - amount
                                             [] OTHER    -> balance[o]]
           /\ moves' = moves \cup {move}
    <2>1. /\ move \notin moves /\ to \in Owners /\ amount \in Nat
          /\ from # Outside => from \in Owners /\ from # to
        BY MovesBetweenOwners DEF Move
    <2>2. move.from = from /\ move.amount = amount
        OBVIOUS
    <2> HIDE DEF from, to, amount, move
    <2>3. CASE from = Outside
        <3>1. balance \in [Owners -> Int] /\ Outside \notin Owners
            BY TopUpAssumption DEF IInv, TypeOK
        <3>2. /\ balance' \in [Owners -> Int] /\ balance'[to] = balance[to] + amount
              /\ \A o \in Owners \ {to} : balance'[o] = balance[o]
            BY <1>2, <2>1, <2>3, <3>1
        <3> QED BY <1>2, <2>1, <2>2, <2>3, <3>2, CreditAdds
    <2>4. CASE from # Outside
        BY <1>2, <2>1, <2>2, <2>4, TransferMoves
    <2> QED BY <2>3, <2>4
<1> QED BY <1>1, <1>2, MovesBetweenOwners, FirstMove DEF Move

-----------------------------------------------------------------------------
(* The wallet of an owner: whom it is shown to.  The run top_up_reads shows  *)
(* that it may be refused too often; it is never shown too often.            *)

\* The owner is a hub of the token, or a rider that was assigned to one.
Reached(r) ==
    \E h \in Caller(r).hubIds :
       call[r].owner = h \/ (call[r].owner \in Riders /\ StillOrGone(call[r].owner, h))

\* The owner is a hub that is not the token's, or a rider that another hub has,
\* or a hub of the token was removed.
OutOfReach(r) ==
    IF call[r].owner \in Hubs THEN call[r].owner \notin Caller(r).hubIds
    ELSE \/ \E h \in Hubs \ Caller(r).hubIds : StillOrGone(call[r].owner, h)
         \/ \E h \in Caller(r).hubIds : h \notin hubs

ReachInv(r) ==
    call[r].op = "byOwner" /\ ~Unrestricted(Caller(r)) =>
       /\ pc[r] \in {"ensureOwner", "checkAccess", "answer"} \/ result[r] = "ok" => Reached(r)
       /\ result[r] = "forbidden" /\ Admitted(r) => OutOfReach(r)

\* GET /wallets/owner/:ownerType/:ownerId shows a hub admin only the wallets of
\* the token's hubs and of their riders, and refuses one as forbidden only when
\* another hub is involved or a hub was removed: assertOwnerExists and
\* assertWalletAccess agree on that much, although they ask different questions.
OwnerReadsStayInScope ==
    \A r \in Requests : call[r].op = "byOwner" /\ ~Unrestricted(Caller(r)) =>
       /\ result[r] = "ok" => Reached(r)
       /\ result[r] = "forbidden" /\ Admitted(r) => OutOfReach(r)

LEMMA ReachStays ==
    ASSUME TypeOK, DirectoryStep, call' = call,
           NEW q \in Requests, ReachInv(q), pc'[q] = pc[q], result'[q] = result[q]
    PROVE  ReachInv(q)'
<1>1. call[q].owner \in Hubs \cup Riders /\ Caller(q).hubIds \subseteq Hubs
    BY CallType DEF Owners
<1>2. ASSUME NEW h \in Hubs, call[q].owner \in Riders, StillOrGone(call[q].owner, h)
      PROVE  StillOrGone(call[q].owner, h)'
    <2> PICK x \in Riders : x = call[q].owner
        BY <1>2
    <2> QED BY <1>2, StillOrGoneStays DEF StillOrGone
<1>3. hubs' \subseteq hubs
    BY DEF DirectoryStep, directory
<1>4. Reached(q) => Reached(q)'
    BY <1>1, <1>2 DEF Reached, Caller
<1>5. OutOfReach(q) => OutOfReach(q)'
    BY <1>1, <1>2, <1>3 DEF OutOfReach, Caller
<1> QED BY <1>4, <1>5 DEF ReachInv, Caller, Admitted

\* The steps at which a request learns of the owner, or is refused it.
LEMMA FindOwnerReaches == ASSUME IInv, NEW r \in Requests, FindOwner(r) PROVE ReachInv(r)'
<1> SUFFICES ASSUME call[r].op = "byOwner", ~Unrestricted(Caller(r))
             PROVE  ReachInv(r)'
    BY DEF FindOwner, ReachInv, Caller
<1> DEFINE owners == IF call[r].owner \in Hubs THEN hubs \cap {call[r].owner}
                     ELSE {h \in Hubs : <<call[r].owner, h>> \in assigned}
<1>0. /\ call[r].owner \in Hubs \cup Riders /\ Hubs \cap Riders = {}
      /\ result[r] = "none" /\ pc[r] = "findOwner" /\ TypeOK
    BY CallType, TopUpAssumption DEF IInv, RequestInv, FindOwner, Owners
<1>1. CASE End(r, "notFound")
    BY <1>0, <1>1 DEF End, FindOwner, ReachInv, Caller, TypeOK
<1>2. ASSUME NEW h \in owners, InScope(Caller(r), h), GoTo(r, "ensureOwner")
      PROVE  ReachInv(r)'
    <2>1. Reached(r)
        BY <1>0, <1>2 DEF InScope, Reached, StillOrGone
    <2>2. Reached(r)' /\ result'[r] = "none"
        BY <1>0, <1>2, <2>1 DEF FindOwner, GoTo, directory, Reached, StillOrGone, Caller
    <2> QED BY <2>2 DEF ReachInv
<1>3. ASSUME NEW h \in owners, ~InScope(Caller(r), h), End(r, "forbidden")
      PROVE  ReachInv(r)'
    <2>1. OutOfReach(r)
        BY <1>0, <1>3 DEF InScope, OutOfReach, StillOrGone
    <2>2. OutOfReach(r)' /\ result'[r] = "forbidden" /\ pc'[r] = "done"
        BY <1>0, <1>3, <2>1 DEF FindOwner, End, directory, OutOfReach, StillOrGone, Caller, TypeOK
    <2> QED BY <2>2 DEF ReachInv
<1> QED BY <1>1, <1>2, <1>3 DEF FindOwner

LEMMA CheckAccessReaches ==
    ASSUME IInv, NEW r \in Requests, ReachInv(r), CheckAccess(r) PROVE ReachInv(r)'
<1> SUFFICES ASSUME call[r].op = "byOwner", ~Unrestricted(Caller(r))
             PROVE  ReachInv(r)'
    BY DEF CheckAccess, ReachInv, Caller
<1>0. /\ call[r].owner \in Hubs \cup Riders /\ Hubs \cap Riders = {}
      /\ Caller(r).hubIds \subseteq Hubs
      /\ result[r] = "none" /\ pc[r] = "checkAccess" /\ TypeOK
    BY CallType, TopUpAssumption DEF IInv, RequestInv, CheckAccess, Owners
<1>1. Reached(r)
    BY <1>0 DEF ReachInv
<1>2. UNCHANGED <<call, hubs, assigned>>
    BY DEF CheckAccess, directory
<1>3. Reached(r)'
    BY <1>1, <1>2 DEF Reached, StillOrGone, Caller
<1>4. CASE GoTo(r, "answer") \/ End(r, "error")
    <2>1. result'[r] # "forbidden"
        BY <1>0, <1>4 DEF GoTo, End, TypeOK
    <2> QED BY <1>3, <2>1 DEF ReachInv
<1>5. CASE End(r, "forbidden") /\ ~(call[r].owner \in Caller(r).hubIds) /\ HubsFound(r) = {}
    <2>1. OutOfReach(r)
        BY <1>0, <1>1, <1>5 DEF Reached, OutOfReach, StillOrGone, HubsFound, HubsInScope
    <2>2. OutOfReach(r)'
        BY <1>2, <2>1 DEF OutOfReach, StillOrGone, Caller
    <2> QED BY <1>3, <2>2 DEF ReachInv
<1> QED BY <1>4, <1>5 DEF CheckAccess

\* The other steps take what was learnt along, or end without an answer.
LEMMA StepReaches ==
    ASSUME IInv, NEW r \in Requests, ReachInv(r), Step(r) \/ Fail(r) PROVE ReachInv(r)'
<1>0. TypeOK /\ RequestInv(r) /\ call' = call
    BY DEF IInv, Step, Guards, FetchWallet, FindOwner, CheckAccess, ChooseHub, EnsureWallet,
        Move, ReadWallet, Answer, Fail
<1>1. CASE FindOwner(r) \/ CheckAccess(r)
    BY <1>1, FindOwnerReaches, CheckAccessReaches
<1>2. CASE Guards(r)
    <2>1. CASE Admitted(r)
        <3>1. result'[r] = "none" /\ pc'[r] \in {"fetchWallet", "findOwner"}
            BY <1>0, <1>2, <2>1 DEF Guards, GoTo, RequestInv, TypeOK
        <3> QED BY <3>1 DEF ReachInv
    <2>2. CASE ~Admitted(r)
        <3>1. result'[r] = "forbidden" /\ pc'[r] = "done"
            BY <1>0, <1>2, <2>2 DEF Guards, End, TypeOK
        <3> QED BY <1>0, <1>2, <2>2, <3>1 DEF ReachInv, Caller, Admitted
    <2> QED BY <2>1, <2>2
<1>3. CASE FetchWallet(r) \/ ChooseHub(r) \/ Move(r) \/ ReadWallet(r)
    <2>1. call[r].op = "topUp"
        BY <1>0, <1>3 DEF FetchWallet, ChooseHub, Move, ReadWallet, RequestInv, RouteInv
    <2> QED BY <1>0, <2>1 DEF ReachInv
<1>4. CASE EnsureWallet(r) \/ Answer(r)
    <2>1. /\ UNCHANGED <<call, hubs, assigned>>
          /\ result'[r] # "forbidden"
          /\ pc[r] \in {"ensureSource", "ensureOwner", "answer"}
        BY <1>0, <1>4 DEF EnsureWallet, Answer, GoTo, End, directory, TypeOK, RequestInv
    <2>2. call[r].op = "byOwner" /\ ~Unrestricted(Caller(r)) => Reached(r)
        BY <1>0, <2>1 DEF RequestInv, RouteInv, ReachInv
    <2>3. Reached(r) => Reached(r)'
        BY <2>1 DEF Reached, StillOrGone, Caller
    <2> QED BY <2>1, <2>2, <2>3 DEF ReachInv, Caller, Admitted
<1>5. CASE Fail(r)
    <2>1. pc'[r] = "done" /\ result'[r] = "error"
        BY <1>0, <1>5 DEF Fail, End, TypeOK
    <2> QED BY <2>1 DEF ReachInv
<1> QED BY <1>1, <1>2, <1>3, <1>4, <1>5 DEF Step

LEMMA NextReaches ==
    ASSUME IInv, \A r \in Requests : ReachInv(r), [Next]_vars
    PROVE  \A r \in Requests : ReachInv(r)'
<1> SUFFICES ASSUME NEW q \in Requests PROVE ReachInv(q)'
    OBVIOUS
<1>0. TypeOK /\ ReachInv(q)
    BY DEF IInv
<1>1. ASSUME NEW r \in Requests, Step(r) \/ Fail(r) PROVE ReachInv(q)'
    <2>1. CASE q = r
        BY <1>0, <1>1, <2>1, StepReaches
    <2>2. CASE q # r
        <3>1. pc'[q] = pc[q] /\ result'[q] = result[q] /\ call' = call /\ UNCHANGED directory
            BY <1>0, <1>1, <2>2 DEF Step, Guards, FetchWallet, FindOwner, CheckAccess, ChooseHub,
                EnsureWallet, Move, ReadWallet, Answer, Fail, GoTo, End, TypeOK
        <3> QED BY <1>0, <3>1, ReachStays DEF DirectoryStep
    <2> QED BY <2>1, <2>2
<1>2. CASE \/ \E x \in Riders, h \in Hubs : AssignHub(x, h)
           \/ \E h \in Hubs : RemoveHub(h)
           \/ UNCHANGED vars
    <2>1. DirectoryStep /\ UNCHANGED <<call, pc, result>>
        BY <1>2 DEF AssignHub, RemoveHub, Services!Assign, Services!Remove, DirectoryStep,
            directory, vars
    <2> QED BY <1>0, <2>1, ReachStays
<1>3. CASE Crash
    <2>1. CASE pc'[q] = pc[q] /\ result'[q] = result[q]
        BY <1>0, <1>3, <2>1, ReachStays DEF Crash, DirectoryStep
    <2>2. CASE pc'[q] = "done" /\ result'[q] = "lost"
        BY <2>2 DEF ReachInv
    <2> QED BY <1>3, <2>1, <2>2 DEF Crash
<1> QED BY <1>1, <1>2, <1>3 DEF Next

-----------------------------------------------------------------------------
(* The properties. *)

\* Every variable keeps its type; in particular no balance leaves its column's
\* range, whatever requests and hub removals come in between.
THEOREM TypeCorrect == Spec => []TypeOK
<1>1. IInv => TypeOK
    BY DEF IInv
<1> QED BY <1>1, Invariant, PTL

\* Money enters by a super admin's credit of a hub, and goes on by a hub
\* admin's transfer from a hub of the token's scope to a rider.
THEOREM TopUpRulesHold == Spec => []TopUpRules
<1>1. IInv => TopUpRules
    BY DEF IInv, MovesInv, MoveInv, MayPay, TopUpRules
<1> QED BY <1>1, Invariant, PTL

\* A hub pays only for riders assigned to it: an assignment that was read goes
\* away only with the hub.
THEOREM HubsPayOnlyTheirRiders == Spec => []HubsPayTheirRiders
<1>1. IInv => HubsPayTheirRiders
    BY DEF IInv, MovesInv, MoveInv, MayPay, StillOrGone, HubsPayTheirRiders
<1> QED BY <1>1, Invariant, PTL

\* A hub that was not named pays only when no other hub of the scope had the
\* rider throughout the request.
THEOREM ChoiceWasForced == Spec => []NobodyElseCouldPay
<1>1. IInv => NobodyElseCouldPay
    BY DEF IInv, MovesInv, MoveInv, MayPay, OnlyChoice, NobodyElseCouldPay
<1> QED BY <1>1, Invariant, PTL

\* What all the wallets hold is what they held at the start and what credits
\* brought in, for any number of hubs, riders and requests.
THEOREM MoneyIsConserved == Spec => []MoneyEntersByCredits
<1>1. Init => MoneyIInv
    <2> SUFFICES ASSUME Init PROVE MoneyIInv
        OBVIOUS
    <2>1. Credits = {} /\ IsFiniteSet(moves)
        BY FS_EmptySet DEF Init, Credits
    <2>2. Total([m \in Credits |-> m.amount], Credits) = 0
        BY <2>1, FS_EmptySet, TotalByFirst
    <2>3. Total(Opening, Owners) \in Int
        BY OwnersAreFinite, TotalType, TopUpAssumption
    <2> QED BY <2>1, <2>2, <2>3 DEF Init, MoneyIInv, MoneyEntersByCredits
<1>2. IInv /\ MoneyIInv /\ [Next]_vars => MoneyIInv'
    <2> SUFFICES ASSUME IInv, MoneyIInv, [Next]_vars PROVE MoneyIInv'
        OBVIOUS
    <2>1. CASE UNCHANGED <<balance, moves>>
        BY <2>1 DEF MoneyIInv, MoneyEntersByCredits, Credits
    <2> QED BY <2>1, OnlyMoveMoves, MoveConserves
<1>3. MoneyIInv => MoneyEntersByCredits
    BY DEF MoneyIInv
<1> QED BY <1>1, <1>2, <1>3, Invariant, PTL DEF Spec

\* Success means that the money moved once as asked, a refusal that it did not.
THEOREM AnswersCanBeTrusted == Spec => []AnswersAreTruthful
<1>1. IInv => AnswersAreTruthful
    BY DEF IInv, MovesInv, RequestInv, WalletInv, MoneyInv, Moved, AnswersAreTruthful
<1> QED BY <1>1, Invariant, PTL

\* The wallet of an owner is shown only within the scope of the token, and
\* refused only when something lies outside it or has gone.
THEOREM OwnerReadsAreScoped == Spec => []OwnerReadsStayInScope
<1> DEFINE Inv == \A r \in Requests : ReachInv(r)
<1>1. Init => Inv
    BY DEF Init, ReachInv
<1>2. IInv /\ Inv /\ [Next]_vars => Inv'
    BY NextReaches
<1>3. Inv => OwnerReadsStayInScope
    BY DEF ReachInv, OwnerReadsStayInScope
<1> QED BY <1>1, <1>2, <1>3, Invariant, PTL DEF Spec
=============================================================================
