--------------------------- MODULE DirectoryProofs ---------------------------
(***************************************************************************)
(* The safety properties of Directory hold for any hubs, riders and        *)
(* requests, and it implements Membership.  What carries them: users and   *)
(* the history of assignments only grow, and an id that has been drawn is  *)
(* never drawn again, so that a hub or an assignment that is gone stays    *)
(* gone.                                                                   *)
(***************************************************************************)
EXTENDS Directory, FiniteSetTheorems, TLAPS

\* The ids that hubs may have had so far.
Known == InitialHubs \cup {q \in Requests : pc[q] \notin {"called", "insertHub"}}

OfRider == {"assignHub", "assignArea", "updateStatus", "findRider"}

\* The operations that may be at a statement.
OpsAt(phase) ==
    CASE phase \in {"findRider", "checkRider"}     -> OfRider
      [] phase = "checkHub"                        -> {"createRider", "assignHub"}
      [] phase \in {"checkPhone", "saveUser"}      -> {"createRider"}
      [] phase = "checkPair"                       -> {"assignHub"}
      [] phase = "saveAssignment"                  -> {"createRider", "assignHub"}
      [] phase \in {"checkArea", "saveArea"}       -> {"assignArea"}
      [] phase = "saveStatus"                      -> {"updateStatus"}
      [] phase = "findHub"                         -> {"updateHub", "removeHub"}
      [] phase = "deleteHub"                       -> {"removeHub"}
      [] phase = "insertHub"                       -> {"createHub"}
      [] phase = "writeHub"                        -> {"updateHub"}
      [] phase = "readHub"                         -> {"createHub", "updateHub", "findHub"}
      [] phase \in {"count", "findRows"}           -> Lists
      [] phase \in {"called", "answer", "done"}    -> Ops

IsUser(x) == \E u \in users : u.id = x
Assigns(r) == \E a \in ever \cup areaRows : a.by = r
NoRows(r) == ~IsUser(r) /\ ~Assigns(r) /\ touched[r] = {}

\* Somebody else's assignment of rider x to a hub of the caller, at some time since r began.
Reaches(r, x) ==
    \E a \in ever \ gone[r] : a.rider = x /\ a.by # r /\ a.hub \in Caller(r).hubIds

Scoped(r) ==
    ~Unrestricted(Caller(r)) =>
       /\ \A a \in ever : a.by = r => a.hub \in Caller(r).hubIds
       /\ \A x \in touched[r] \ {r} : Reaches(r, x)

ShowsItsScope(r) ==
    \A i \in items[r] :
       IF call[r].op = "findHubs" THEN InScope(Caller(r), i)
       ELSE \E a \in ever : a.rider = i /\ InScope(Caller(r), a.hub)

AddsUp(r) ==
    call[r].page = 1 /\ Cardinality(items[r]) < call[r].limit =>
       total[r] <= Cardinality(items[r] \cup Listed(r, counted[r] \ Matching(r)))

\* What a success promises, and what keeps it true.
Promise(r) ==
    /\ Kept(r)
    /\ call[r].op = "removeHub" => call[r].hub \in Known
    /\ call[r].op \in Lists => AddsUp(r)

\* What is known where a request is.
StepInv(r) ==
    /\ call[r].op \in OpsAt(pc[r])
    /\ pc[r] \notin {"saveAssignment", "answer", "done"} => NoRows(r)
    /\ pc[r] = "saveAssignment" => ~Assigns(r) /\ (call[r].op = "createRider" \/ NoRows(r))
    /\ pc[r] = "saveAssignment" /\ call[r].op = "createRider" => IsUser(r)
    /\ pc[r] \notin {"called", "findRider", "answer", "done"} /\ call[r].op \in OfRider =>
          IsUser(call[r].rider)
    /\ pc[r] \notin {"called", "findRider", "checkRider", "answer", "done"}
          /\ call[r].op \in OfRider /\ ~Unrestricted(Caller(r)) => Reaches(r, call[r].rider)
    /\ pc[r] \in {"checkPhone", "checkPair", "saveUser", "saveAssignment"} =>
          InScope(Caller(r), call[r].hub)
    /\ pc[r] = "deleteHub" => call[r].hub \in Known
    /\ call[r].op = "createHub" /\ pc[r] \notin {"called", "done"} => Unrestricted(Caller(r))
    /\ pc[r] \in {"called", "count"} => total[r] = 0
    /\ pc[r] = "findRows" => total[r] = Cardinality(Listed(r, counted[r]))
    /\ pc[r] = "answer" => Promise(r)

\* What an answer that was sent says.
AnswerInv(r) ==
    /\ pc[r] # "done" => result[r] = "none"
    /\ result[r] = "ok" => Promise(r)
    /\ result[r] \in Refusals => NoRows(r) /\ r \notin hubs

\* What is true of a request wherever it is.
OwnInv(r) ==
    /\ r \in hubs => call[r].op = "createHub"
    /\ IsUser(r) => call[r].op = "createRider"
    /\ Scoped(r)
    /\ ShowsItsScope(r)
    /\ gone[r] \cap assigned = {}
    /\ IF call[r].op = "findHubs" THEN counted[r] \subseteq Known ELSE counted[r] \subseteq ever

RequestInv == \A r \in Requests : StepInv(r) /\ AnswerInv(r) /\ OwnInv(r)

TableInv ==
    /\ RowsAreSound
    /\ hubs \subseteq Known
    /\ \A a \in ever : a.hub \in Known
    /\ \A a \in ever : a.hub \in hubs => a \in assigned
    /\ \A u \in users : u.id \in InitialRiders => HubsEver(u.id) # {}

IInv == TypeOK /\ TableInv /\ RequestInv

-----------------------------------------------------------------------------
(* What no step takes back, and what a step of one request leaves to others *)

Grows ==
    /\ call' = call
    /\ users \subseteq users' /\ ever \subseteq ever' /\ areaRows \subseteq areaRows'
    /\ Known \subseteq Known'
    /\ \A h \in hubs' : h \in hubs \/ h \notin Known
    /\ \A a \in assigned' : a \in assigned \/ a \notin ever

Effect(r) ==
    /\ Grows
    /\ \A u \in users' : u \in users \/ u.id = r
    /\ \A a \in ever' : a \in ever \/ a.by = r
    /\ \A a \in areaRows' : a \in areaRows \/ a.by = r
    /\ \A h \in hubs' : h \in hubs \/ h = r
    /\ \A q \in Requests : q # r =>
          /\ pc'[q] = pc[q] /\ result'[q] = result[q] /\ touched'[q] = touched[q]
          /\ total'[q] = total[q] /\ items'[q] = items[q] /\ counted'[q] = counted[q]
          /\ gone'[q] = gone[q]

LEMMA FiniteIds == IsFiniteSet(Riders \cup Hubs)
  BY DirectoryAssumption, FS_Union DEF Riders

LEMMA CallType ==
    ASSUME TypeOK, NEW r \in Requests
    PROVE  /\ call[r] \in Calls /\ call[r].op \in Ops /\ Caller(r) \in Users
           /\ call[r].page \in Nat \ {0} /\ call[r].limit \in Nat \ {0}
           /\ call[r].hub \in Hubs \cup {NoHub} /\ call[r].rider \in Riders \cup {Nobody}
           /\ call[r].op = "createRider" => call[r].phone \in Phones
<1>1. call[r] \in Offered
  BY DEF TypeOK
<1>2. call[r] \in Calls /\ (call[r].op = "createRider" => call[r].phone \in Phones)
  BY <1>1, DirectoryAssumption
<1> QED
  BY <1>2 DEF Calls, Caller

\* A row or hub that was counted and is gone stays gone.
LEMMA LossesStay ==
    ASSUME IInv, Grows, NEW q \in Requests, counted'[q] = counted[q]
    PROVE  counted[q] \ Matching(q) \subseteq (counted[q] \ Matching(q))'
<1>1. CASE call[q].op = "findHubs"
  <2>1. counted[q] \subseteq Known
    BY <1>1 DEF IInv, RequestInv, OwnInv
  <2> QED
    BY <1>1, <2>1 DEF Matching, Grows, Caller
<1>2. CASE call[q].op # "findHubs"
  <2>1. counted[q] \subseteq ever
    BY <1>2 DEF IInv, RequestInv, OwnInv
  <2> QED
    BY <1>2, <2>1 DEF Matching, Grows, Caller
<1> QED
  BY <1>1, <1>2

LEMMA AddsUpStays ==
    ASSUME IInv, TypeOK', Grows, NEW q \in Requests, AddsUp(q),
           total'[q] = total[q], items'[q] = items[q], counted'[q] = counted[q]
    PROVE  AddsUp(q)'
<1> DEFINE shown == items[q] \cup Listed(q, counted[q] \ Matching(q))
<1>1. CASE call[q].page = 1 /\ Cardinality(items[q]) < call[q].limit
  <2>1. Listed(q, counted[q] \ Matching(q)) \subseteq Listed(q, counted[q] \ Matching(q))'
    BY LossesStay DEF Listed, Grows
  <2>2. shown \subseteq shown'
    BY <2>1
  <2>3. shown' \subseteq Riders \cup Hubs
    <3>1. items'[q] \subseteq Riders \cup Hubs
      BY DEF TypeOK
    <3>2. counted'[q] \subseteq Hubs \cup ever' /\ ever' \subseteq AssignmentRows
      BY DEF TypeOK
    <3>3. CASE call'[q].op = "findHubs"
      <4>1. counted'[q] \subseteq Known
        BY <3>3 DEF IInv, RequestInv, OwnInv, Grows
      <4>2. Known \subseteq Hubs
        BY DirectoryAssumption DEF Known
      <4> QED
        BY <3>1, <3>3, <4>1, <4>2 DEF Listed
    <3>4. CASE call'[q].op # "findHubs"
      <4>1. counted'[q] \subseteq ever
        BY <3>4 DEF IInv, RequestInv, OwnInv, Grows
      <4>2. ever \subseteq AssignmentRows
        BY DEF IInv, TypeOK
      <4> QED
        BY <3>1, <3>4, <4>1, <4>2 DEF Listed, AssignmentRows
    <3> QED
      BY <3>3, <3>4
  <2>4. IsFiniteSet(shown')
    BY <2>3, FiniteIds, FS_Subset
  <2>5. IsFiniteSet(shown) /\ Cardinality(shown) <= Cardinality(shown')
    BY <2>2, <2>4, FS_Subset
  <2>6. Cardinality(shown) \in Nat /\ Cardinality(shown') \in Nat /\ total[q] \in Nat
    BY <2>4, <2>5, FS_CardinalityType DEF IInv, TypeOK
  <2>7. total[q] <= Cardinality(shown)
    BY <1>1 DEF AddsUp
  <2>8. total'[q] <= Cardinality(shown')
    BY <2>5, <2>6, <2>7
  <2> QED
    BY <2>8 DEF AddsUp
<1>2. CASE ~(call[q].page = 1 /\ Cardinality(items[q]) < call[q].limit)
  BY <1>2 DEF AddsUp, Grows
<1> QED
  BY <1>1, <1>2

LEMMA PromiseStays ==
    ASSUME IInv, TypeOK', Grows, NEW q \in Requests, Promise(q),
           touched'[q] = touched[q], total'[q] = total[q], items'[q] = items[q],
           counted'[q] = counted[q]
    PROVE  Promise(q)'
<1>1. call[q].op \in Lists => AddsUp(q)'
  BY AddsUpStays DEF Promise
<1>2. call[q].op = "removeHub" => call[q].hub \in Known /\ call[q].hub \notin hubs
  BY DEF Promise, Kept
<1>3. Kept(q)'
  <2>1. CASE call[q].op = "createRider"
    BY <2>1 DEF Promise, Kept, Grows
  <2>2. CASE call[q].op = "assignHub"
    BY <2>2 DEF Promise, Kept, Grows
  <2>3. CASE call[q].op = "assignArea"
    BY <2>3 DEF Promise, Kept, Grows
  <2>4. CASE call[q].op = "updateStatus"
    BY <2>4 DEF Promise, Kept, Grows
  <2>5. CASE call[q].op = "removeHub"
    BY <1>2, <2>5 DEF Kept, Grows
  <2>6. CASE call[q].op \notin {"createRider", "assignHub", "assignArea", "updateStatus",
                                "removeHub"}
    BY <2>6 DEF Kept, Grows
  <2> QED
    BY <2>1, <2>2, <2>3, <2>4, <2>5, <2>6
<1> QED
  BY <1>1, <1>2, <1>3 DEF Promise, Grows

\* A step of request r keeps what is known of the other requests.
LEMMA OthersKeep ==
    ASSUME IInv, TypeOK', NEW r \in Requests, Effect(r), NEW q \in Requests, q # r
    PROVE  StepInv(q)' /\ AnswerInv(q)' /\ OwnInv(q)'
<1>1. /\ pc'[q] = pc[q] /\ result'[q] = result[q] /\ touched'[q] = touched[q]
      /\ total'[q] = total[q] /\ items'[q] = items[q] /\ counted'[q] = counted[q]
      /\ gone'[q] = gone[q] /\ call' = call /\ Grows
  BY DEF Effect, Grows
<1>2. StepInv(q) /\ AnswerInv(q) /\ OwnInv(q)
  BY DEF IInv, RequestInv
<1>3. /\ IsUser(q)' <=> IsUser(q)
      /\ Assigns(q)' <=> Assigns(q)
      /\ NoRows(q)' <=> NoRows(q)
  BY <1>1 DEF Effect, Grows, IsUser, Assigns, NoRows
<1>4. /\ \A x : IsUser(x) => IsUser(x)'
      /\ \A x : Reaches(q, x) => Reaches(q, x)'
  BY <1>1 DEF Grows, IsUser, Reaches, Caller
<1>5. Known \subseteq Known' /\ (q \in hubs' => q \in hubs)
  BY DEF Effect, Grows
<1>6. Promise(q) => Promise(q)'
  BY <1>1, PromiseStays
<1>7. StepInv(q)'
  <2>1. Listed(q, counted[q])' = Listed(q, counted[q])
    BY <1>1 DEF Listed
  <2> QED
    BY <1>1, <1>2, <1>3, <1>4, <1>5, <1>6, <2>1 DEF StepInv, Caller
<1>8. AnswerInv(q)'
  BY <1>1, <1>2, <1>3, <1>5, <1>6 DEF AnswerInv
<1>9. Scoped(q)'
  BY <1>1, <1>2, <1>4 DEF OwnInv, Scoped, Effect, Caller
<1>10. ShowsItsScope(q)'
  BY <1>1, <1>2 DEF OwnInv, ShowsItsScope, Grows, Caller
<1>11. IF call'[q].op = "findHubs" THEN counted'[q] \subseteq Known' ELSE counted'[q] \subseteq ever'
  BY <1>1, <1>2 DEF OwnInv, Grows
<1>12. gone'[q] \cap assigned' = {}
  BY <1>1, <1>2 DEF OwnInv, Grows, IInv, TypeOK
<1> QED
  BY <1>1, <1>2, <1>3, <1>5, <1>7, <1>8, <1>9, <1>10, <1>11, <1>12 DEF OwnInv

LEMMA StepKeeps ==
    ASSUME IInv, TypeOK', TableInv', NEW r \in Requests, Effect(r),
           StepInv(r)', AnswerInv(r)', OwnInv(r)'
    PROVE  IInv'
  BY OthersKeep DEF IInv, RequestInv

-----------------------------------------------------------------------------
(* Steps that change no table *)

ReadOnly == UNCHANGED <<tables, call, history, reply>>

LEMMA ReadsGrow ==
    ASSUME IInv, ReadOnly, Known \subseteq Known'
    PROVE  Grows
  BY DEF ReadOnly, tables, history, Grows

LEMMA TablesStay ==
    ASSUME IInv, ReadOnly, Known \subseteq Known'
    PROVE  TableInv'
  BY DEF ReadOnly, tables, history, IInv, TableInv, RowsAreSound, HubsEver

LEMMA OwnStays ==
    ASSUME IInv, ReadOnly, Known \subseteq Known', NEW q \in Requests
    PROVE  OwnInv(q)'
  BY DEF ReadOnly, tables, history, reply, IInv, RequestInv, OwnInv, IsUser, Scoped, Reaches,
         Caller, ShowsItsScope

\* Where a request goes on, and where it ends.
LEMMA Goes ==
    ASSUME TypeOK, NEW r \in Requests, NEW next, GoTo(r, next),
           pc[r] = "called" \/ next \notin {"called", "insertHub"}
    PROVE  /\ Known \subseteq Known' /\ pc'[r] = next /\ result' = result
           /\ \A q \in Requests : q # r => pc'[q] = pc[q]
  BY DEF GoTo, TypeOK, Known

LEMMA Ends ==
    ASSUME TypeOK, NEW r \in Requests, NEW why, End(r, why)
    PROVE  /\ Known \subseteq Known' /\ pc'[r] = "done" /\ result'[r] = why
           /\ \A q \in Requests : q # r => pc'[q] = pc[q] /\ result'[q] = result[q]
  BY DEF End, TypeOK, Known

LEMMA TypeReadOnly ==
    ASSUME TypeOK, ReadOnly, pc' \in [Requests -> Phases],
           result' \in [Requests -> {"none", "ok", "error", "lost"} \cup Refusals]
    PROVE  TypeOK'
  BY DEF ReadOnly, tables, history, reply, TypeOK

\* A request that reads and goes on.
LEMMA Passes ==
    ASSUME IInv, NEW r \in Requests, ReadOnly, pc[r] # "done",
           NEW next \in Phases \ {"called", "done"}, GoTo(r, next),
           pc[r] = "called" \/ next # "insertHub",
           pc'[r] = next => StepInv(r)'
    PROVE  IInv'
<1>1. /\ Known \subseteq Known' /\ pc'[r] = next /\ result' = result
      /\ \A q \in Requests : q # r => pc'[q] = pc[q]
  BY Goes DEF IInv
<1>2. TypeOK'
  BY TypeReadOnly DEF IInv, TypeOK, GoTo
<1>3. Effect(r)
  BY <1>1, ReadsGrow DEF Effect, ReadOnly, tables, history, reply
<1>4. AnswerInv(r)'
  <2>1. result'[r] = "none"
    BY <1>1 DEF IInv, RequestInv, AnswerInv
  <2> QED
    BY <2>1 DEF AnswerInv, Refusals
<1> QED
  BY <1>1, <1>2, <1>3, <1>4, TablesStay, OwnStays, StepKeeps

\* A request that ends without another write.
LEMMA Stops ==
    ASSUME IInv, NEW r \in Requests, ReadOnly,
           NEW why \in {"ok", "error", "lost"} \cup Refusals, End(r, why),
           why = "ok" => Promise(r), why \in Refusals => NoRows(r) /\ r \notin hubs
    PROVE  IInv'
<1>1. /\ Known \subseteq Known' /\ pc'[r] = "done" /\ result'[r] = why
      /\ \A q \in Requests : q # r => pc'[q] = pc[q] /\ result'[q] = result[q]
  BY Ends DEF IInv
<1>2. TypeOK'
  BY TypeReadOnly DEF IInv, TypeOK, End, Phases
<1>3. Effect(r)
  BY <1>1, ReadsGrow DEF Effect, ReadOnly, tables, history, reply
<1>4. call' = call /\ call[r].op \in Ops
  BY CallType DEF IInv, ReadOnly
<1>5. StepInv(r)'
  BY <1>1, <1>4 DEF StepInv, OpsAt
<1>6. AnswerInv(r)'
  <2>1. why = "ok" => Promise(r)'
    BY <1>2, <1>3, PromiseStays DEF Effect, ReadOnly, history, reply
  <2>2. why \in Refusals => NoRows(r)' /\ r \notin hubs'
    BY DEF ReadOnly, tables, history, NoRows, IsUser, Assigns
  <2> QED
    BY <1>1, <2>1, <2>2 DEF AnswerInv
<1> QED
  BY <1>1, <1>2, <1>3, <1>5, <1>6, TablesStay, OwnStays, StepKeeps

\* What a read-only step of r leaves of what is known where r is.
LEMMA FactsStay ==
    ASSUME IInv, NEW r \in Requests, ReadOnly, Known \subseteq Known'
    PROVE  /\ call' = call /\ total' = total /\ Caller(r)' = Caller(r)
           /\ NoRows(r)' <=> NoRows(r)
           /\ Assigns(r)' <=> Assigns(r)
           /\ IsUser(r)' <=> IsUser(r)
           /\ IsUser(call[r].rider)' <=> IsUser(call[r].rider)
           /\ Reaches(r, call[r].rider)' <=> Reaches(r, call[r].rider)
           /\ hubs' = hubs
  BY DEF ReadOnly, tables, history, reply, NoRows, Assigns, IsUser, Reaches, Caller

\* A refusal is of a request that has written nothing.
LEMMA MayRefuse ==
    ASSUME IInv, NEW r \in Requests,
           pc[r] \notin {"saveAssignment", "answer", "done"},
           call[r].op = "createHub" => r \notin hubs
    PROVE  NoRows(r) /\ r \notin hubs
  BY DEF IInv, RequestInv, StepInv, OwnInv

\* A request that checks a condition, and goes on or is refused.
LEMMA Checks ==
    ASSUME IInv, NEW r \in Requests, NEW condition,
           NEW next \in Phases \ {"called", "done"}, NEW why \in Refusals,
           Check(r, condition, next, why),
           pc[r] \notin {"saveAssignment", "answer", "done"},
           next # "insertHub",
           call[r].op = "createHub" /\ ~condition => r \notin hubs,
           condition /\ ReadOnly /\ Known \subseteq Known' /\ pc'[r] = next => StepInv(r)'
    PROVE  IInv'
<1>1. ReadOnly
  BY DEF Check, ReadOnly
<1>2. CASE condition
  <2>1. GoTo(r, next)
    BY <1>2 DEF Check
  <2>2. Known \subseteq Known'
    BY <2>1, Goes DEF IInv
  <2>3. pc'[r] = next => StepInv(r)'
    BY <1>1, <1>2, <2>2
  <2> QED
    BY <1>1, <2>1, <2>3, Passes
<1>3. CASE ~condition
  <2>1. End(r, why)
    BY <1>3 DEF Check
  <2>2. NoRows(r) /\ r \notin hubs
    BY <1>3, MayRefuse
  <2>3. why # "ok"
    BY DEF Refusals
  <2> QED
    BY <1>1, <2>1, <2>2, <2>3, Stops
<1> QED
  BY <1>2, <1>3

-----------------------------------------------------------------------------
(* The checks, one by one *)

LEMMA EmptyListAddsUp ==
    ASSUME IInv, NEW r \in Requests, total[r] = 0
    PROVE  AddsUp(r)
<1> DEFINE shown == items[r] \cup Listed(r, counted[r] \ Matching(r))
<1>1. shown \subseteq Riders \cup Hubs
  <2>1. items[r] \subseteq Riders \cup Hubs
    BY DEF IInv, TypeOK
  <2>2. CASE call[r].op = "findHubs"
    <3>1. counted[r] \subseteq Hubs
      BY <2>2, DirectoryAssumption DEF IInv, RequestInv, OwnInv, Known
    <3> QED
      BY <2>1, <2>2, <3>1 DEF Listed
  <2>3. CASE call[r].op # "findHubs"
    <3>1. counted[r] \subseteq AssignmentRows
      BY <2>3 DEF IInv, RequestInv, OwnInv, TypeOK
    <3> QED
      BY <2>1, <2>3, <3>1 DEF Listed, AssignmentRows
  <2> QED
    BY <2>2, <2>3
<1>2. Cardinality(shown) \in Nat
  BY <1>1, FiniteIds, FS_Subset, FS_CardinalityType
<1>3. total[r] <= Cardinality(shown)
  BY <1>2
<1> QED
  BY <1>3 DEF AddsUp

LEMMA GuardsKeep == ASSUME IInv, NEW r \in Requests, Guards(r) PROVE IInv'
<1> DEFINE next == FirstStep(call[r])
           refused == \E why \in {"forbidden", "badRequest"} : End(r, why)
           passed == Admitted(call[r]) /\ GoTo(r, next)
<1>1. /\ pc[r] = "called" /\ call[r].op \in Ops /\ total[r] = 0
      /\ gone' = [gone EXCEPT ![r] = ever \ assigned]
      /\ UNCHANGED <<hubs, users, assigned, areaRows, call, ever, touched, total, items,
                     counted>>
  BY CallType DEF Guards, IInv, RequestInv, StepInv, tables, reply
<1>2. refused \/ passed
  BY DEF Guards
<1>3. /\ next \in {"checkHub", "findRider", "count", "answer", "insertHub", "findHub", "readHub"}
      /\ call[r].op \in OpsAt(next)
      /\ next = "checkHub" => call[r].op = "createRider"
      /\ next = "answer" => call[r].op = "findRiders"
      /\ next # "findRider" => call[r].op \notin OfRider
  BY <1>1 DEF FirstStep, Ops, Lists, OpsAt, OfRider
<1>4. r \notin hubs /\ NoRows(r)
  BY <1>1, DirectoryAssumption DEF IInv, TableInv, RequestInv, StepInv, Known
<1>5. /\ gone'[r] = ever \ assigned
      /\ \A q \in Requests : q # r => gone'[q] = gone[q]
  BY <1>1 DEF IInv, TypeOK
<1>6. /\ Known \subseteq Known'
      /\ \A q \in Requests : q # r => pc'[q] = pc[q] /\ result'[q] = result[q]
      /\ \/ pc'[r] = "done" /\ result'[r] \in Refusals
         \/ pc'[r] = next /\ result'[r] = result[r] /\ Admitted(call[r])
  <2>1. CASE refused
    BY <2>1, Ends DEF IInv, Refusals
  <2>2. CASE passed
    BY <1>1, <2>2, Goes DEF IInv
  <2> QED
    BY <1>2, <2>1, <2>2
<1>7. TypeOK'
  <2>1. pc' \in [Requests -> Phases]
    BY <1>2, <1>3 DEF IInv, TypeOK, GoTo, End, Phases
  <2>2. result' \in [Requests -> {"none", "ok", "error", "lost"} \cup Refusals]
    BY <1>2 DEF IInv, TypeOK, GoTo, End, Refusals
  <2>3. gone' \in [Requests -> SUBSET ever']
    BY <1>1 DEF IInv, TypeOK
  <2> QED
    BY <1>1, <2>1, <2>2, <2>3 DEF IInv, TypeOK
<1> HIDE DEF refused, passed
<1>8. Effect(r)
  BY <1>1, <1>5, <1>6 DEF Effect, Grows
<1>9. TableInv'
  <2>1. RowsAreSound'
    BY <1>1 DEF IInv, TableInv, RowsAreSound
  <2> QED
    BY <1>1, <1>6, <2>1 DEF IInv, TableInv, HubsEver
<1>10. call' = call /\ NoRows(r)' /\ r \notin hubs' /\ Caller(r)' = Caller(r)
  BY <1>1, <1>4 DEF NoRows, IsUser, Assigns, Caller
<1>11. StepInv(r)'
  <2>1. CASE pc'[r] = "done"
    BY <1>1, <2>1 DEF StepInv, OpsAt
  <2>2. CASE pc'[r] = next /\ Admitted(call[r])
    <3>1. next = "answer" => Promise(r)'
      <4>1. next = "answer" => Promise(r)
        BY <1>1, <1>3, EmptyListAddsUp DEF Promise, Kept, Lists
      <4>2. Grows
        BY <1>8 DEF Effect
      <4> QED
        BY <1>1, <1>7, <4>1, <4>2, PromiseStays
    <3>2. call[r].op = "createHub" => Unrestricted(Caller(r))
      BY <2>2 DEF Admitted, Caller
    <3> HIDE DEF next
    <3> QED
      BY <1>1, <1>3, <1>10, <2>2, <3>1, <3>2 DEF StepInv, OfRider
  <2> QED
    BY <1>6, <2>1, <2>2
<1>12. AnswerInv(r)'
  BY <1>1, <1>3, <1>6, <1>10 DEF IInv, RequestInv, AnswerInv, Refusals
<1>13. OwnInv(r)'
  <2>1. ShowsItsScope(r)'
    BY <1>1 DEF IInv, RequestInv, OwnInv, ShowsItsScope, Caller
  <2>2. Scoped(r)'
    BY <1>10 DEF Scoped, NoRows, Assigns
  <2>3. gone'[r] \cap assigned' = {}
    BY <1>1, <1>5
  <2>4. IF call'[r].op = "findHubs" THEN counted'[r] \subseteq Known'
        ELSE counted'[r] \subseteq ever'
    BY <1>1, <1>6 DEF IInv, RequestInv, OwnInv
  <2> QED
    BY <1>10, <2>1, <2>2, <2>3, <2>4 DEF OwnInv, NoRows
<1> QED
  BY <1>7, <1>8, <1>9, <1>11, <1>12, <1>13, StepKeeps

LEMMA FindRiderKeeps == ASSUME IInv, NEW r \in Requests, FindRider(r) PROVE IInv'
<1>1. /\ pc[r] = "findRider" /\ call[r].op \in OfRider /\ NoRows(r)
      /\ Check(r, IsUser(call[r].rider), "checkRider", "notFound")
  BY DEF FindRider, IsUser, IInv, RequestInv, StepInv, OpsAt
<1>2. ASSUME IsUser(call[r].rider), ReadOnly, Known \subseteq Known', pc'[r] = "checkRider"
      PROVE  StepInv(r)'
  BY <1>1, <1>2, FactsStay DEF StepInv, OpsAt, OfRider
<1>3. "checkRider" \in Phases \ {"called", "done"} /\ "notFound" \in Refusals
  BY DEF Phases, Refusals
<1> QED
  BY <1>1, <1>2, <1>3, Checks DEF OfRider

LEMMA CheckRiderKeeps == ASSUME IInv, NEW r \in Requests, CheckRider(r) PROVE IInv'
<1> DEFINE allowed == \/ Unrestricted(Caller(r))
                      \/ HubsInScope(Caller(r), call[r].rider, Pairs) # {}
           next == AfterRider(call[r].op)
<1>1. /\ pc[r] = "checkRider" /\ call[r].op \in OfRider /\ NoRows(r)
      /\ IsUser(call[r].rider) /\ Check(r, allowed, next, "forbidden")
  BY DEF CheckRider, IInv, RequestInv, StepInv, OpsAt
<1>2. /\ next \in {"checkHub", "checkArea", "saveStatus", "answer"}
      /\ call[r].op \in OpsAt(next)
      /\ next = "answer" => call[r].op = "findRider"
  <2>1. /\ call[r].op = "assignHub" => next = "checkHub"
        /\ call[r].op = "assignArea" => next = "checkArea"
        /\ call[r].op = "updateStatus" => next = "saveStatus"
        /\ call[r].op = "findRider" => next = "answer"
    BY DEF AfterRider
  <2> QED
    BY <1>1, <2>1 DEF OpsAt, OfRider, Ops
<1>3. ASSUME allowed, ReadOnly, Known \subseteq Known', pc'[r] = next
      PROVE  StepInv(r)'
  <2>1. ~Unrestricted(Caller(r)) => Reaches(r, call[r].rider)
    <3> SUFFICES ASSUME ~Unrestricted(Caller(r)) PROVE Reaches(r, call[r].rider)
      OBVIOUS
    <3>1. PICK h \in Caller(r).hubIds : <<call[r].rider, h>> \in Pairs
      BY <1>3 DEF HubsInScope
    <3>2. PICK a \in assigned : a.rider = call[r].rider /\ a.hub = h
      BY <3>1 DEF Pairs
    <3>3. a \in ever /\ a.by # r /\ a \notin gone[r]
      BY <1>1, <3>2 DEF IInv, TypeOK, NoRows, Assigns, RequestInv, OwnInv
    <3> QED
      BY <3>1, <3>2, <3>3 DEF Reaches
  <2>2. next = "answer" => Promise(r)'
    BY <1>2, <1>3, FactsStay DEF Promise, Kept, Lists
  <2> QED
    BY <1>1, <1>2, <1>3, <2>1, <2>2, FactsStay DEF StepInv, OfRider
<1>4. next \in Phases \ {"called", "done", "insertHub"} /\ "forbidden" \in Refusals
  BY <1>2 DEF Phases, Refusals
<1> HIDE DEF allowed, next
<1> QED
  BY <1>1, <1>3, <1>4, Checks DEF OfRider

LEMMA CheckHubKeeps == ASSUME IInv, NEW r \in Requests, CheckHub(r) PROVE IInv'
<1> DEFINE allowed == call[r].hub \in hubs /\ InScope(Caller(r), call[r].hub)
           next == IF call[r].op = "createRider" THEN "checkPhone" ELSE "checkPair"
<1>1. /\ pc[r] = "checkHub" /\ call[r].op \in {"createRider", "assignHub"} /\ NoRows(r)
      /\ call[r].op = "assignHub" =>
            /\ IsUser(call[r].rider)
            /\ ~Unrestricted(Caller(r)) => Reaches(r, call[r].rider)
      /\ Check(r, allowed, next, "forbidden")
  BY DEF CheckHub, IInv, RequestInv, StepInv, OpsAt, OfRider
<1>2. ASSUME allowed, ReadOnly, Known \subseteq Known', pc'[r] = next
      PROVE  StepInv(r)'
  BY <1>1, <1>2, FactsStay DEF StepInv, OpsAt, OfRider
<1>3. next \in Phases \ {"called", "done", "insertHub"} /\ "forbidden" \in Refusals
  BY DEF Phases, Refusals
<1> HIDE DEF allowed, next
<1> QED
  BY <1>1, <1>2, <1>3, Checks

LEMMA CheckPhoneKeeps == ASSUME IInv, NEW r \in Requests, CheckPhone(r) PROVE IInv'
<1> DEFINE free == \A u \in users : u.phone # call[r].phone
<1>1. /\ pc[r] = "checkPhone" /\ call[r].op = "createRider" /\ NoRows(r)
      /\ InScope(Caller(r), call[r].hub)
      /\ Check(r, free, "saveUser", "conflict")
  BY DEF CheckPhone, IInv, RequestInv, StepInv, OpsAt
<1>2. ASSUME free, ReadOnly, Known \subseteq Known', pc'[r] = "saveUser"
      PROVE  StepInv(r)'
  BY <1>1, <1>2, FactsStay DEF StepInv, OpsAt, OfRider
<1>3. "saveUser" \in Phases \ {"called", "done"} /\ "conflict" \in Refusals
  BY DEF Phases, Refusals
<1> HIDE DEF free
<1> QED
  BY <1>1, <1>2, <1>3, Checks

LEMMA CheckPairKeeps == ASSUME IInv, NEW r \in Requests, CheckPair(r) PROVE IInv'
<1> DEFINE free == <<call[r].rider, call[r].hub>> \notin Pairs
<1>1. /\ pc[r] = "checkPair" /\ call[r].op = "assignHub" /\ NoRows(r)
      /\ InScope(Caller(r), call[r].hub) /\ IsUser(call[r].rider)
      /\ ~Unrestricted(Caller(r)) => Reaches(r, call[r].rider)
      /\ Check(r, free, "saveAssignment", "conflict")
  BY DEF CheckPair, IInv, RequestInv, StepInv, OpsAt, OfRider
<1>2. ASSUME free, ReadOnly, Known \subseteq Known', pc'[r] = "saveAssignment"
      PROVE  StepInv(r)'
  BY <1>1, <1>2, FactsStay DEF StepInv, OpsAt, OfRider, NoRows
<1>3. "saveAssignment" \in Phases \ {"called", "done"} /\ "conflict" \in Refusals
  BY DEF Phases, Refusals
<1> HIDE DEF free
<1> QED
  BY <1>1, <1>2, <1>3, Checks

LEMMA CheckAreaKeeps == ASSUME IInv, NEW r \in Requests, CheckArea(r) PROVE IInv'
<1> DEFINE free ==
        \A a \in areaRows : <<a.rider, a.area>> # <<call[r].rider, call[r].area>>
<1>1. /\ pc[r] = "checkArea" /\ call[r].op = "assignArea" /\ NoRows(r)
      /\ IsUser(call[r].rider)
      /\ ~Unrestricted(Caller(r)) => Reaches(r, call[r].rider)
      /\ Check(r, free, "saveArea", "conflict")
  BY DEF CheckArea, IInv, RequestInv, StepInv, OpsAt, OfRider
<1>2. ASSUME free, ReadOnly, Known \subseteq Known', pc'[r] = "saveArea"
      PROVE  StepInv(r)'
  BY <1>1, <1>2, FactsStay DEF StepInv, OpsAt, OfRider
<1>3. "saveArea" \in Phases \ {"called", "done"} /\ "conflict" \in Refusals
  BY DEF Phases, Refusals
<1> HIDE DEF free
<1> QED
  BY <1>1, <1>2, <1>3, Checks

LEMMA FindHubKeeps == ASSUME IInv, NEW r \in Requests, FindHub(r) PROVE IInv'
<1> DEFINE next == IF call[r].op = "removeHub" THEN "deleteHub" ELSE "writeHub"
<1>1. /\ pc[r] = "findHub" /\ call[r].op \in {"updateHub", "removeHub"} /\ NoRows(r)
      /\ Check(r, call[r].hub \in hubs, next, "notFound")
  BY DEF FindHub, IInv, RequestInv, StepInv, OpsAt
<1>2. ASSUME call[r].hub \in hubs, ReadOnly, Known \subseteq Known', pc'[r] = next
      PROVE  StepInv(r)'
  <2>1. call[r].hub \in Known'
    BY <1>2 DEF IInv, TableInv
  <2> QED
    BY <1>1, <1>2, <2>1, FactsStay DEF StepInv, OpsAt, OfRider
<1>3. next \in Phases \ {"called", "done", "insertHub"} /\ "notFound" \in Refusals
  BY DEF Phases, Refusals
<1> HIDE DEF next
<1> QED
  BY <1>1, <1>2, <1>3, Checks

LEMMA ReadHubKeeps == ASSUME IInv, NEW r \in Requests, ReadHub(r) PROVE IInv'
<1> DEFINE there == Target(r) \in hubs /\ InScope(Caller(r), Target(r))
<1>1. /\ pc[r] = "readHub" /\ call[r].op \in {"createHub", "updateHub", "findHub"}
      /\ NoRows(r)
      /\ call[r].op = "createHub" => Unrestricted(Caller(r))
      /\ Check(r, there, "answer", "notFound")
  BY DEF ReadHub, IInv, RequestInv, StepInv, OpsAt
<1>2. ASSUME there, ReadOnly, Known \subseteq Known', pc'[r] = "answer"
      PROVE  StepInv(r)'
  <2>1. Promise(r)'
    BY <1>1, <1>2, FactsStay DEF Promise, Kept, Lists
  <2> QED
    BY <1>1, <1>2, <2>1, FactsStay DEF StepInv, OpsAt, OfRider, Ops
<1>3. call[r].op = "createHub" /\ ~there => r \notin hubs
  BY <1>1 DEF Target, InScope
<1>4. "answer" \in Phases \ {"called", "done"} /\ "notFound" \in Refusals
  BY DEF Phases, Refusals
<1> HIDE DEF there
<1> QED
  BY <1>1, <1>2, <1>3, <1>4, Checks

LEMMA UpdateHubKeeps == ASSUME IInv, NEW r \in Requests, UpdateHub(r) PROVE IInv'
<1>1. /\ pc[r] = "writeHub" /\ call[r].op = "updateHub" /\ NoRows(r)
      /\ GoTo(r, "readHub") /\ ReadOnly
  BY DEF UpdateHub, ReadOnly, IInv, RequestInv, StepInv, OpsAt
<1>2. Known \subseteq Known'
  BY <1>1, Goes DEF IInv
<1>3. pc'[r] = "readHub" => StepInv(r)'
  BY <1>1, <1>2, FactsStay DEF StepInv, OpsAt, OfRider
<1> QED
  BY <1>1, <1>3, Passes DEF Phases

LEMMA AnswerKeeps == ASSUME IInv, NEW r \in Requests, Answer(r) PROVE IInv'
<1>1. Promise(r) /\ End(r, "ok") /\ ReadOnly
  BY DEF Answer, ReadOnly, IInv, RequestInv, StepInv
<1> QED
  BY <1>1, Stops DEF Refusals

LEMMA FailKeeps == ASSUME IInv, NEW r \in Requests, Fail(r) PROVE IInv'
<1>1. End(r, "error") /\ ReadOnly
  BY DEF Fail, ReadOnly
<1> QED
  BY <1>1, Stops DEF Refusals

-----------------------------------------------------------------------------
(* The writes, one by one *)

LEMMA SaveUserKeeps == ASSUME IInv, NEW r \in Requests, SaveUser(r) PROVE IInv'
<1> DEFINE new == [id |-> r, phone |-> call[r].phone]
<1>1. /\ pc[r] = "saveUser" /\ call[r].op = "createRider" /\ NoRows(r)
      /\ InScope(Caller(r), call[r].hub)
  BY DEF SaveUser, IInv, RequestInv, StepInv, OpsAt
<1>2. CASE \E u \in users : u.phone = call[r].phone
  <2>1. End(r, "error") /\ ReadOnly
    BY <1>2 DEF SaveUser, ReadOnly, tables, history
  <2> QED
    BY <2>1, Stops DEF Refusals
<1>3. CASE \A u \in users : u.phone # call[r].phone
  <2>1. /\ users' = users \cup {new} /\ touched' = [touched EXCEPT ![r] = @ \cup {r}]
        /\ GoTo(r, "saveAssignment")
        /\ UNCHANGED <<hubs, assigned, areaRows, call, ever, gone,
                       total, items, counted>>
    BY <1>3 DEF SaveUser, reply
  <2>2. /\ Known \subseteq Known' /\ pc'[r] = "saveAssignment" /\ result' = result
        /\ \A q \in Requests : q # r => pc'[q] = pc[q]
    BY <2>1, Goes DEF IInv
  <2>3. touched'[r] = {r} /\ \A q \in Requests : q # r => touched'[q] = touched[q]
    BY <1>1, <2>1 DEF IInv, TypeOK, NoRows
  <2>4. TypeOK'
    <3>1. new \in UserRows
      BY <1>1, CallType DEF IInv, UserRows, Riders
    <3>2. touched' \in [Requests -> SUBSET Riders]
      BY <2>1 DEF IInv, TypeOK, Riders
    <3>3. pc' \in [Requests -> Phases]
      BY <2>1 DEF IInv, TypeOK, GoTo, Phases
    <3> QED
      BY <2>1, <2>2, <3>1, <3>2, <3>3 DEF IInv, TypeOK
  <2>5. Effect(r)
    BY <2>1, <2>2, <2>3 DEF Effect, Grows
  <2>6. TableInv'
    <3>1. \A u, v \in users' : u.phone = v.phone => u = v
      BY <1>3, <2>1 DEF IInv, TableInv, RowsAreSound
    <3>2. r \notin InitialRiders
      BY DirectoryAssumption
    <3> QED
      BY <2>1, <2>2, <3>1, <3>2 DEF IInv, TableInv, RowsAreSound, HubsEver
  <2>7. IsUser(r)' /\ ~Assigns(r)' /\ InScope(Caller(r), call[r].hub)'
    <3>1. new.id = r /\ new \in users'
      BY <2>1
    <3>2. IsUser(r)'
      BY <3>1 DEF IsUser
    <3>3. ~Assigns(r)'
      BY <1>1, <2>1 DEF Assigns, NoRows
    <3>4. Caller(r)' = Caller(r) /\ call'[r] = call[r]
      BY <2>1 DEF Caller
    <3>5. InScope(Caller(r), call[r].hub)'
      BY <1>1, <3>4 DEF InScope, Unrestricted
    <3> QED
      BY <3>2, <3>3, <3>5
  <2>8. StepInv(r)'
    BY <1>1, <2>1, <2>2, <2>7 DEF StepInv, OpsAt, OfRider
  <2>9. AnswerInv(r)'
    BY <1>1, <2>2 DEF IInv, RequestInv, AnswerInv, Refusals
  <2>10. OwnInv(r)'
    BY <1>1, <2>1, <2>2, <2>3 DEF IInv, RequestInv, OwnInv, Scoped, Reaches, ShowsItsScope, Caller
  <2> QED
    BY <2>4, <2>5, <2>6, <2>8, <2>9, <2>10, StepKeeps
<1> QED
  BY <1>2, <1>3

LEMMA SaveAssignmentKeeps == ASSUME IInv, NEW r \in Requests, SaveAssignment(r) PROVE IInv'
<1> DEFINE row == [rider |-> Subject(r), hub |-> call[r].hub, by |-> r]
<1>1. /\ pc[r] = "saveAssignment" /\ call[r].op \in {"createRider", "assignHub"}
      /\ ~Assigns(r) /\ InScope(Caller(r), call[r].hub)
      /\ IsUser(Subject(r))
      /\ call[r].op = "assignHub" =>
            /\ touched[r] = {} /\ Subject(r) = call[r].rider /\ ~IsUser(r)
            /\ ~Unrestricted(Caller(r)) => Reaches(r, call[r].rider)
      /\ call[r].op = "createRider" => Subject(r) = r
  BY DEF SaveAssignment, Subject, IInv, RequestInv, StepInv, OpsAt, OfRider, NoRows
<1>2. CASE row.hub \notin hubs \/ <<row.rider, row.hub>> \in Pairs
  <2>1. End(r, "error") /\ ReadOnly
    BY <1>2 DEF SaveAssignment, ReadOnly, tables, history
  <2> QED
    BY <2>1, Stops DEF Refusals
<1>3. CASE row.hub \in hubs /\ <<row.rider, row.hub>> \notin Pairs
  <2>1. /\ assigned' = assigned \cup {row} /\ ever' = ever \cup {row}
        /\ touched' = [touched EXCEPT ![r] = @ \cup {Subject(r)}]
        /\ GoTo(r, "answer")
        /\ UNCHANGED <<hubs, users, areaRows, call, gone, total, items, counted>>
    BY <1>3 DEF SaveAssignment, reply
  <2>2. /\ Known \subseteq Known' /\ pc'[r] = "answer" /\ result' = result
        /\ \A q \in Requests : q # r => pc'[q] = pc[q]
    BY <2>1, Goes DEF IInv
  <2>3. /\ touched'[r] = touched[r] \cup {Subject(r)}
        /\ \A q \in Requests : q # r => touched'[q] = touched[q]
    BY <2>1 DEF IInv, TypeOK
  <2>4. row \notin ever /\ row.by = r
    BY <1>1 DEF Assigns
  <2>5. row \in AssignmentRows /\ Subject(r) \in Riders
    <3>1. Subject(r) \in Riders
      BY <1>1 DEF IsUser, IInv, TypeOK, UserRows
    <3> QED
      BY <1>3, <3>1 DEF IInv, TypeOK, AssignmentRows
  <2>6. TypeOK'
    <3>1. touched' \in [Requests -> SUBSET Riders]
      BY <2>1, <2>5 DEF IInv, TypeOK
    <3>2. pc' \in [Requests -> Phases]
      BY <2>1 DEF IInv, TypeOK, GoTo, Phases
    <3>3. /\ counted' \in [Requests -> SUBSET (Hubs \cup ever')]
          /\ gone' \in [Requests -> SUBSET ever']
      BY <2>1 DEF IInv, TypeOK
    <3> QED
      BY <2>1, <2>2, <2>5, <3>1, <3>2, <3>3 DEF IInv, TypeOK
  <2>7. Effect(r)
    BY <2>1, <2>2, <2>3, <2>4 DEF Effect, Grows
  <2>8. TableInv'
    <3>1. \A a, b \in assigned' : <<a.rider, a.hub>> = <<b.rider, b.hub>> => a = b
      BY <1>3, <2>1 DEF IInv, TableInv, RowsAreSound, Pairs
    <3>2. \A a \in assigned' : a.hub \in hubs' /\ \E u \in users' : u.id = a.rider
      BY <1>1, <1>3, <2>1 DEF IInv, TableInv, RowsAreSound, IsUser
    <3>3. RowsAreSound'
      BY <2>1, <3>1, <3>2 DEF IInv, TableInv, RowsAreSound
    <3>4. \A a \in ever' : a.hub \in Known' /\ (a.hub \in hubs' => a \in assigned')
      BY <1>3, <2>1, <2>2 DEF IInv, TableInv
    <3>5. \A u \in users' : u.id \in InitialRiders => HubsEver(u.id)' # {}
      BY <2>1 DEF IInv, TableInv, HubsEver
    <3> QED
      BY <2>1, <2>2, <3>3, <3>4, <3>5 DEF IInv, TableInv
  <2>9. Promise(r)'
    <3>1. Kept(r)'
      BY <1>1, <2>1, <2>4 DEF Kept, IsUser
    <3> QED
      BY <1>1, <2>1, <3>1 DEF Promise, Lists
  <2>10. StepInv(r)'
    BY <1>1, <2>1, <2>2, <2>9, CallType DEF StepInv, OpsAt, OfRider, Ops, IInv
  <2>11. AnswerInv(r)'
    BY <1>1, <2>2 DEF IInv, RequestInv, AnswerInv, Refusals
  <2>12. Scoped(r)'
    <3>1. ASSUME ~Unrestricted(Caller(r))
          PROVE  /\ \A a \in ever' : a.by = r => a.hub \in Caller(r).hubIds
                 /\ \A x \in touched'[r] \ {r} : Reaches(r, x)
      <4>1. call[r].hub \in Caller(r).hubIds
        BY <1>1, <3>1 DEF InScope
      <4>2. \A a \in ever' : a.by = r => a.hub \in Caller(r).hubIds
        BY <1>1, <2>1, <4>1 DEF Assigns
      <4>3. \A x \in touched[r] \ {r} : Reaches(r, x)
        BY <3>1 DEF IInv, RequestInv, OwnInv, Scoped
      <4>4. Subject(r) # r => Reaches(r, Subject(r))
        BY <1>1, <3>1
      <4> QED
        BY <2>3, <4>2, <4>3, <4>4
    <3>2. \A x : Reaches(r, x) => Reaches(r, x)'
      BY <2>1 DEF Reaches, Caller
    <3> QED
      BY <2>1, <3>1, <3>2 DEF Scoped, Caller
  <2>13. OwnInv(r)'
    <3>1. ShowsItsScope(r)'
      BY <2>1 DEF IInv, RequestInv, OwnInv, ShowsItsScope, Caller
    <3>2. gone'[r] \cap assigned' = {}
      BY <2>1, <2>4 DEF IInv, RequestInv, OwnInv, TypeOK
    <3> QED
      BY <1>1, <2>1, <2>2, <2>12, <3>1, <3>2 DEF IInv, RequestInv, OwnInv, IsUser
  <2> QED
    BY <2>6, <2>7, <2>8, <2>10, <2>11, <2>13, StepKeeps
<1> QED
  BY <1>2, <1>3

LEMMA SaveAreaKeeps == ASSUME IInv, NEW r \in Requests, SaveArea(r) PROVE IInv'
<1> DEFINE row == [rider |-> call[r].rider, area |-> call[r].area, by |-> r]
           refused == \/ row.area \notin Areas
                      \/ \E a \in areaRows : a.rider = row.rider /\ a.area = row.area
<1>1. /\ pc[r] = "saveArea" /\ call[r].op = "assignArea" /\ NoRows(r)
      /\ IsUser(call[r].rider)
      /\ ~Unrestricted(Caller(r)) => Reaches(r, call[r].rider)
  BY DEF SaveArea, IInv, RequestInv, StepInv, OpsAt, OfRider
<1>2. CASE refused
  <2>1. End(r, "error") /\ ReadOnly
    BY <1>2 DEF SaveArea, ReadOnly, tables, history
  <2> QED
    BY <2>1, Stops DEF Refusals
<1>3. CASE ~refused
  <2>1. /\ areaRows' = areaRows \cup {row}
        /\ touched' = [touched EXCEPT ![r] = @ \cup {call[r].rider}]
        /\ GoTo(r, "answer")
        /\ UNCHANGED <<hubs, users, assigned, call, ever, gone, total, items, counted>>
    BY <1>3 DEF SaveArea, reply
  <2>2. /\ Known \subseteq Known' /\ pc'[r] = "answer" /\ result' = result
        /\ \A q \in Requests : q # r => pc'[q] = pc[q]
    BY <2>1, Goes DEF IInv
  <2>3. /\ touched'[r] = {call[r].rider}
        /\ \A q \in Requests : q # r => touched'[q] = touched[q]
    BY <1>1, <2>1 DEF IInv, TypeOK, NoRows
  <2>4. TypeOK'
    <3>1. call[r].rider \in Riders
      BY <1>1 DEF IsUser, IInv, TypeOK, UserRows
    <3>2. row \in AreaRows /\ touched' \in [Requests -> SUBSET Riders]
      BY <1>3, <2>1, <3>1 DEF IInv, TypeOK, AreaRows
    <3>3. pc' \in [Requests -> Phases]
      BY <2>1 DEF IInv, TypeOK, GoTo, Phases
    <3> QED
      BY <2>1, <2>2, <3>2, <3>3 DEF IInv, TypeOK
  <2>5. Effect(r)
    BY <2>1, <2>2, <2>3 DEF Effect, Grows
  <2>6. TableInv'
    <3>1. \A a, b \in areaRows' : <<a.rider, a.area>> = <<b.rider, b.area>> => a = b
      BY <1>3, <2>1 DEF IInv, TableInv, RowsAreSound
    <3>2. \A a \in areaRows' : \E u \in users' : u.id = a.rider
      BY <1>1, <2>1 DEF IInv, TableInv, RowsAreSound, IsUser
    <3>3. RowsAreSound'
      BY <2>1, <3>1, <3>2 DEF IInv, TableInv, RowsAreSound
    <3> QED
      BY <2>1, <2>2, <3>3 DEF IInv, TableInv, HubsEver
  <2>7. StepInv(r)'
    <3>1. row \in areaRows' /\ row.by = r
      BY <2>1
    <3>2. Promise(r)'
      BY <1>1, <2>1, <3>1 DEF Promise, Kept, Lists
    <3> QED
      BY <1>1, <2>1, <2>2, <3>2 DEF StepInv, OpsAt, OfRider, Ops
  <2>8. AnswerInv(r)'
    BY <1>1, <2>2 DEF IInv, RequestInv, AnswerInv, Refusals
  <2>9. OwnInv(r)'
    BY <1>1, <2>1, <2>2, <2>3
    DEF IInv, RequestInv, OwnInv, Scoped, Reaches, ShowsItsScope, Caller, IsUser
  <2> QED
    BY <2>4, <2>5, <2>6, <2>7, <2>8, <2>9, StepKeeps
<1> QED
  BY <1>2, <1>3

LEMMA SaveStatusKeeps == ASSUME IInv, NEW r \in Requests, SaveStatus(r) PROVE IInv'
<1>1. /\ pc[r] = "saveStatus" /\ call[r].op = "updateStatus" /\ NoRows(r)
      /\ IsUser(call[r].rider)
      /\ ~Unrestricted(Caller(r)) => Reaches(r, call[r].rider)
  BY DEF SaveStatus, IInv, RequestInv, StepInv, OpsAt, OfRider
<1>2. /\ touched' = [touched EXCEPT ![r] = @ \cup {call[r].rider}] /\ GoTo(r, "answer")
      /\ UNCHANGED <<hubs, users, assigned, areaRows, call, ever, gone,
                     total, items, counted>>
  BY DEF SaveStatus, tables, reply
<1>3. /\ Known \subseteq Known' /\ pc'[r] = "answer" /\ result' = result
      /\ \A q \in Requests : q # r => pc'[q] = pc[q]
  BY <1>2, Goes DEF IInv
<1>4. /\ touched'[r] = {call[r].rider}
      /\ \A q \in Requests : q # r => touched'[q] = touched[q]
  BY <1>1, <1>2 DEF IInv, TypeOK, NoRows
<1>5. TypeOK'
  <2>1. call[r].rider \in Riders
    BY <1>1 DEF IsUser, IInv, TypeOK, UserRows
  <2>2. touched' \in [Requests -> SUBSET Riders]
    BY <1>2, <2>1 DEF IInv, TypeOK
  <2>3. pc' \in [Requests -> Phases]
    BY <1>2 DEF IInv, TypeOK, GoTo, Phases
  <2> QED
    BY <1>2, <1>3, <2>2, <2>3 DEF IInv, TypeOK
<1>6. Effect(r)
  BY <1>2, <1>3, <1>4 DEF Effect, Grows
<1>7. TableInv'
  BY <1>2, <1>3 DEF IInv, TableInv, RowsAreSound, HubsEver
<1>8. StepInv(r)'
  <2>1. Promise(r)'
    BY <1>1, <1>2, <1>4 DEF Promise, Kept, Lists
  <2> QED
    BY <1>1, <1>2, <1>3, <2>1 DEF StepInv, OpsAt, OfRider, Ops
<1>9. AnswerInv(r)'
  BY <1>1, <1>3 DEF IInv, RequestInv, AnswerInv, Refusals
<1>10. OwnInv(r)'
  BY <1>1, <1>2, <1>3, <1>4
  DEF IInv, RequestInv, OwnInv, Scoped, Reaches, ShowsItsScope, Caller, IsUser
<1> QED
  BY <1>5, <1>6, <1>7, <1>8, <1>9, <1>10, StepKeeps

LEMMA DeleteHubKeeps == ASSUME IInv, NEW r \in Requests, DeleteHub(r) PROVE IInv'
<1>1. /\ pc[r] = "deleteHub" /\ call[r].op = "removeHub" /\ call[r].hub \in Known
  BY DEF DeleteHub, IInv, RequestInv, StepInv, OpsAt
<1>2. /\ hubs' = hubs \ {call[r].hub} /\ assigned' = {a \in assigned : a.hub # call[r].hub}
      /\ GoTo(r, "answer")
      /\ UNCHANGED <<users, areaRows, call, ever, touched, gone, total, items, counted>>
  BY DEF DeleteHub, history, reply
<1>3. /\ Known \subseteq Known' /\ pc'[r] = "answer" /\ result' = result
      /\ \A q \in Requests : q # r => pc'[q] = pc[q]
  BY <1>2, Goes DEF IInv
<1>4. TypeOK'
  <2>1. pc' \in [Requests -> Phases]
    BY <1>2 DEF IInv, TypeOK, GoTo, Phases
  <2> QED
    BY <1>2, <1>3, <2>1 DEF IInv, TypeOK
<1>5. Effect(r)
  BY <1>2, <1>3 DEF Effect, Grows
<1>6. TableInv'
  <2>1. RowsAreSound'
    BY <1>2 DEF IInv, TableInv, RowsAreSound
  <2> QED
    BY <1>2, <1>3, <2>1 DEF IInv, TableInv, HubsEver
<1>7. StepInv(r)'
  <2>1. Promise(r)'
    BY <1>1, <1>2, <1>3 DEF Promise, Kept, Lists
  <2> QED
    BY <1>1, <1>2, <1>3, <2>1 DEF StepInv, OpsAt, OfRider, Ops
<1>8. AnswerInv(r)'
  BY <1>1, <1>3 DEF IInv, RequestInv, AnswerInv, Refusals
<1>9. OwnInv(r)'
  BY <1>1, <1>2, <1>3
  DEF IInv, RequestInv, OwnInv, Scoped, Reaches, ShowsItsScope, Caller, IsUser
<1> QED
  BY <1>4, <1>5, <1>6, <1>7, <1>8, <1>9, StepKeeps

LEMMA InsertHubKeeps == ASSUME IInv, NEW r \in Requests, InsertHub(r) PROVE IInv'
<1>1. /\ pc[r] = "insertHub" /\ call[r].op = "createHub" /\ NoRows(r)
      /\ Unrestricted(Caller(r)) /\ r \notin Known
  BY DirectoryAssumption DEF InsertHub, IInv, RequestInv, StepInv, OpsAt, Known
<1>2. /\ hubs' = hubs \cup {r} /\ GoTo(r, "readHub")
      /\ UNCHANGED <<users, assigned, areaRows, call, ever, touched, gone,
                     total, items, counted>>
  BY DEF InsertHub, history, reply
<1>3. /\ Known \subseteq Known' /\ pc'[r] = "readHub" /\ result' = result
      /\ r \in Known'
      /\ \A q \in Requests : q # r => pc'[q] = pc[q]
  BY <1>2, Goes DEF IInv, Known
<1>4. TypeOK'
  <2>1. pc' \in [Requests -> Phases]
    BY <1>2 DEF IInv, TypeOK, GoTo, Phases
  <2> QED
    BY <1>2, <1>3, <2>1, DirectoryAssumption DEF IInv, TypeOK
<1>5. Effect(r)
  BY <1>1, <1>2, <1>3 DEF Effect, Grows
<1>6. TableInv'
  <2>1. RowsAreSound'
    BY <1>2 DEF IInv, TableInv, RowsAreSound
  <2> QED
    BY <1>1, <1>2, <1>3, <2>1 DEF IInv, TableInv, HubsEver
<1>7. StepInv(r)'
  <2>1. NoRows(r)' /\ Unrestricted(Caller(r))'
    BY <1>1, <1>2 DEF NoRows, IsUser, Assigns, Caller
  <2> QED
    BY <1>1, <1>2, <1>3, <2>1 DEF StepInv, OpsAt, OfRider
<1>8. AnswerInv(r)'
  BY <1>1, <1>3 DEF IInv, RequestInv, AnswerInv, Refusals
<1>9. OwnInv(r)'
  BY <1>1, <1>2, <1>3
  DEF IInv, RequestInv, OwnInv, Scoped, Reaches, ShowsItsScope, Caller, IsUser
<1> QED
  BY <1>4, <1>5, <1>6, <1>7, <1>8, <1>9, StepKeeps

-----------------------------------------------------------------------------
(* The lists *)

LEMMA MatchingType ==
    ASSUME IInv, NEW r \in Requests
    PROVE  /\ IF call[r].op = "findHubs" THEN Matching(r) \subseteq Hubs \cap hubs
              ELSE Matching(r) \subseteq ever
           /\ Listed(r, Matching(r)) \subseteq Riders \cup Hubs
           /\ IsFiniteSet(Listed(r, Matching(r)))
<1>1. IF call[r].op = "findHubs" THEN Matching(r) \subseteq Hubs \cap hubs
      ELSE Matching(r) \subseteq ever
  BY DEF Matching, IInv, TypeOK
<1>2. Listed(r, Matching(r)) \subseteq Riders \cup Hubs
  <2>1. CASE call[r].op = "findHubs"
    BY <1>1, <2>1 DEF Listed
  <2>2. CASE call[r].op # "findHubs"
    <3>1. \A a \in Matching(r) : a.rider \in Riders
      BY <1>1, <2>2 DEF IInv, TypeOK, AssignmentRows
    <3> QED
      BY <2>2, <3>1 DEF Listed
  <2> QED
    BY <2>1, <2>2
<1> QED
  BY <1>1, <1>2, FiniteIds, FS_Subset

LEMMA CountKeeps == ASSUME IInv, NEW r \in Requests, Count(r) PROVE IInv'
<1> DEFINE number == Cardinality(Listed(r, Matching(r)))
<1>1. pc[r] = "count" /\ call[r].op \in Lists /\ NoRows(r)
  BY DEF Count, IInv, RequestInv, StepInv, OpsAt
<1>2. /\ total' = [total EXCEPT ![r] = number]
      /\ counted' = [counted EXCEPT ![r] = Matching(r)]
      /\ GoTo(r, "findRows")
      /\ UNCHANGED <<hubs, users, assigned, areaRows, call, items, ever, touched, gone>>
  BY DEF Count, tables, history
<1>3. /\ Known \subseteq Known' /\ pc'[r] = "findRows" /\ result' = result
      /\ \A q \in Requests : q # r => pc'[q] = pc[q]
  BY <1>1, <1>2, Goes DEF IInv
<1>4. number \in Nat
  BY MatchingType, FS_CardinalityType
<1>5. Matching(r) \subseteq Hubs \cup ever
  BY MatchingType
<1>6. /\ total'[r] = number /\ counted'[r] = Matching(r)
      /\ \A q \in Requests : q # r => total'[q] = total[q] /\ counted'[q] = counted[q]
  BY <1>2 DEF IInv, TypeOK
<1>7. TypeOK'
  <2>1. pc' \in [Requests -> Phases]
    BY <1>2 DEF IInv, TypeOK, GoTo, Phases
  <2>2. total' \in [Requests -> Nat]
    BY <1>2, <1>4 DEF IInv, TypeOK
  <2>3. counted' \in [Requests -> SUBSET (Hubs \cup ever')]
    BY <1>2, <1>5 DEF IInv, TypeOK
  <2> QED
    BY <1>2, <1>3, <2>1, <2>2, <2>3 DEF IInv, TypeOK
<1>8. Effect(r)
  BY <1>2, <1>3, <1>6 DEF Effect, Grows
<1>9. TableInv'
  <2>1. RowsAreSound'
    BY <1>2 DEF IInv, TableInv, RowsAreSound
  <2> QED
    BY <1>2, <1>3, <2>1 DEF IInv, TableInv, HubsEver
<1>10. StepInv(r)'
  <2>1. NoRows(r)' /\ Listed(r, counted[r])' = Listed(r, Matching(r))
    BY <1>1, <1>2, <1>6 DEF NoRows, IsUser, Assigns, Listed
  <2>2. call[r].op \in OpsAt("findRows")
    BY <1>1 DEF OpsAt
  <2>3. call[r].op \notin OfRider \cup {"createHub"}
    BY <1>1 DEF Lists, OfRider
  <2> QED
    BY <1>2, <1>3, <1>6, <2>1, <2>2, <2>3 DEF StepInv
<1>11. AnswerInv(r)'
  BY <1>1, <1>3 DEF IInv, RequestInv, AnswerInv, Refusals
<1>12. OwnInv(r)'
  <2>1. IF call[r].op = "findHubs" THEN counted'[r] \subseteq Known' ELSE counted'[r] \subseteq ever'
    BY <1>2, <1>3, <1>6, MatchingType DEF IInv, TableInv
  <2> QED
    BY <1>1, <1>2, <2>1
    DEF IInv, RequestInv, OwnInv, Scoped, Reaches, ShowsItsScope, Caller, IsUser
<1> QED
  BY <1>7, <1>8, <1>9, <1>10, <1>11, <1>12, StepKeeps

\* A first page with room left shows all that there is.
LEMMA FirstPage ==
    ASSUME NEW S, IsFiniteSet(S), NEW page \in SUBSET S, NEW c, c.page = 1,
           c.limit \in Nat \ {0}, Cardinality(page) = PageLength(Cardinality(S), c),
           Cardinality(page) < c.limit
    PROVE  page = S
<1>1. Cardinality(S) \in Nat
  BY FS_CardinalityType
<1>2. (c.page - 1) * c.limit = 0
  OBVIOUS
<1>3. Cardinality(page) = Cardinality(S)
  BY <1>1, <1>2 DEF PageLength
<1> QED
  BY <1>3, FS_Subset

LEMMA FindRowsKeeps == ASSUME IInv, NEW r \in Requests, FindRows(r) PROVE IInv'
<1> DEFINE matching == Listed(r, Matching(r))
<1>1. /\ pc[r] = "findRows" /\ call[r].op \in Lists
      /\ total[r] = Cardinality(Listed(r, counted[r]))
  BY DEF FindRows, IInv, RequestInv, StepInv, OpsAt
<1>2. PICK page \in SUBSET matching :
         /\ Cardinality(page) = PageLength(Cardinality(matching), call[r])
         /\ items' = [items EXCEPT ![r] = page]
  BY DEF FindRows
<1>3. /\ GoTo(r, "answer")
      /\ UNCHANGED <<hubs, users, assigned, areaRows, call, total, counted,
                     ever, touched, gone>>
  BY DEF FindRows, tables, history
<1>4. /\ Known \subseteq Known' /\ pc'[r] = "answer" /\ result' = result
      /\ \A q \in Requests : q # r => pc'[q] = pc[q]
  BY <1>1, <1>3, Goes DEF IInv
<1>5. items'[r] = page /\ \A q \in Requests : q # r => items'[q] = items[q]
  BY <1>2 DEF IInv, TypeOK
<1>6. matching \subseteq Riders \cup Hubs /\ IsFiniteSet(matching)
  BY MatchingType
<1>7. TypeOK'
  <2>1. pc' \in [Requests -> Phases]
    BY <1>3 DEF IInv, TypeOK, GoTo, Phases
  <2>2. items' \in [Requests -> SUBSET (Riders \cup Hubs)]
    BY <1>2, <1>6 DEF IInv, TypeOK
  <2> QED
    BY <1>3, <1>4, <2>1, <2>2 DEF IInv, TypeOK
<1>8. Effect(r)
  BY <1>3, <1>4, <1>5 DEF Effect, Grows
<1>9. TableInv'
  <2>1. RowsAreSound'
    BY <1>3 DEF IInv, TableInv, RowsAreSound
  <2> QED
    BY <1>3, <1>4, <2>1 DEF IInv, TableInv, HubsEver
<1>10. AddsUp(r)'
  <2> DEFINE lost == Listed(r, counted[r] \ Matching(r))
  <2>1. lost' = lost /\ Matching(r)' = Matching(r)
    BY <1>3 DEF Matching, Listed, Caller
  <2> SUFFICES ASSUME call[r].page = 1, Cardinality(page) < call[r].limit
               PROVE  total[r] <= Cardinality(page \cup lost)
    BY <1>3, <1>5, <2>1 DEF AddsUp
  <2>2. page = matching
    BY <1>2, <1>6, CallType, FirstPage DEF IInv
  <2>3. Listed(r, counted[r]) \subseteq page \cup lost
    BY <2>2 DEF Listed
  <2>4. IsFiniteSet(page \cup lost)
    <3>1. CASE call[r].op = "findHubs"
      <4>1. counted[r] \subseteq Hubs
        BY <3>1, DirectoryAssumption DEF IInv, RequestInv, OwnInv, Known
      <4>2. page \cup lost \subseteq Riders \cup Hubs
        BY <1>6, <3>1, <4>1 DEF Listed
      <4> QED
        BY <4>2, FiniteIds, FS_Subset
    <3>2. CASE call[r].op # "findHubs"
      <4>1. \A a \in counted[r] : a.rider \in Riders
        BY <3>2 DEF IInv, RequestInv, OwnInv, TypeOK, AssignmentRows
      <4>2. page \cup lost \subseteq Riders \cup Hubs
        BY <1>6, <3>2, <4>1 DEF Listed
      <4> QED
        BY <4>2, FiniteIds, FS_Subset
    <3> QED
      BY <3>1, <3>2
  <2> HIDE DEF lost
  <2> QED
    BY <1>1, <2>3, <2>4, FS_Subset
<1>11. StepInv(r)'
  <2>1. Promise(r)'
    BY <1>1, <1>3, <1>10 DEF Promise, Kept, Lists
  <2>2. call[r].op \in OpsAt("answer") /\ call[r].op # "createHub"
    BY <1>1 DEF OpsAt, Lists, Ops
  <2> QED
    BY <1>3, <1>4, <2>1, <2>2 DEF StepInv
<1>12. AnswerInv(r)'
  BY <1>1, <1>4 DEF IInv, RequestInv, AnswerInv, Refusals
<1>13. OwnInv(r)'
  <2>1. ShowsItsScope(r)'
    <3>1. Caller(r)' = Caller(r) /\ call' = call /\ ever' = ever
      BY <1>3 DEF Caller
    <3>2. \A i \in page : IF call[r].op = "findHubs" THEN InScope(Caller(r), i)
                          ELSE \E a \in ever : a.rider = i /\ InScope(Caller(r), a.hub)
      BY <1>1 DEF Listed, Matching, IInv, TypeOK
    <3> QED
      BY <1>5, <3>1, <3>2 DEF ShowsItsScope
  <2> QED
    BY <1>1, <1>3, <1>4, <2>1
    DEF IInv, RequestInv, OwnInv, Scoped, Reaches, Caller, IsUser
<1> QED
  BY <1>7, <1>8, <1>9, <1>11, <1>12, <1>13, StepKeeps

-----------------------------------------------------------------------------
(* The crash, and the invariant *)

LEMMA CrashKeeps == ASSUME IInv, Crash PROVE IInv'
<1> DEFINE Dying == {r \in Requests : pc[r] \notin {"called", "done"}}
<1>1. /\ ReadOnly
      /\ pc' = [r \in Requests |-> IF r \in Dying THEN "done" ELSE pc[r]]
      /\ result' = [r \in Requests |-> IF r \in Dying THEN "lost" ELSE result[r]]
  BY DEF Crash, ReadOnly
<1>2. Known \subseteq Known'
  BY <1>1 DEF Known
<1>3. TypeOK'
  BY <1>1, TypeReadOnly DEF IInv, TypeOK, Phases
<1>4. Grows
  BY <1>1, <1>2, ReadsGrow
<1>5. ASSUME NEW q \in Requests
      PROVE  StepInv(q)' /\ AnswerInv(q)'
  <2>1. StepInv(q) /\ AnswerInv(q)
    BY DEF IInv, RequestInv
  <2>2. Promise(q) => Promise(q)'
    BY <1>1, <1>3, <1>4, PromiseStays DEF ReadOnly, history, reply
  <2>3. call'[q] = call[q] /\ call[q].op \in Ops
    BY <1>1, CallType DEF IInv, ReadOnly
  <2>4. CASE q \in Dying
    <3>1. pc'[q] = "done" /\ result'[q] = "lost"
      BY <1>1, <2>4
    <3> QED
      BY <2>3, <3>1 DEF StepInv, OpsAt, AnswerInv, Refusals
  <2>5. CASE q \notin Dying
    <3>1. pc'[q] = pc[q] /\ result'[q] = result[q] /\ pc[q] \in {"called", "done"}
      BY <1>1, <2>5
    <3>2. StepInv(q)'
      BY <1>1, <1>2, <2>1, <2>3, <3>1, FactsStay DEF StepInv, OpsAt
    <3>3. AnswerInv(q)'
      BY <1>1, <1>2, <2>1, <2>2, <3>1, FactsStay DEF AnswerInv
    <3> QED
      BY <3>2, <3>3
  <2> QED
    BY <2>4, <2>5
<1> QED
  BY <1>1, <1>2, <1>3, <1>5, TablesStay, OwnStays DEF IInv, RequestInv

LEMMA StepsKeep == ASSUME IInv, [Next]_vars PROVE IInv'
<1>1. ASSUME NEW r \in Requests, Step(r) \/ Fail(r)
      PROVE  IInv'
  BY <1>1, GuardsKeep, FindRiderKeeps, CheckRiderKeeps, CheckHubKeeps, CheckPhoneKeeps,
     CheckPairKeeps, CheckAreaKeeps, SaveUserKeeps, SaveAssignmentKeeps, SaveAreaKeeps,
     SaveStatusKeeps, FindHubKeeps, DeleteHubKeeps, InsertHubKeeps, UpdateHubKeeps,
     ReadHubKeeps, CountKeeps, FindRowsKeeps, AnswerKeeps, FailKeeps DEF Step
<1>2. CASE Crash
  BY <1>2, CrashKeeps
<1>3. CASE UNCHANGED vars
  <2>1. ReadOnly /\ pc' = pc /\ result' = result
    BY <1>3 DEF vars, ReadOnly, tables, history, reply
  <2>2. Known \subseteq Known'
    BY <2>1 DEF Known
  <2>3. TypeOK'
    BY <2>1, TypeReadOnly DEF IInv, TypeOK
  <2>4. ASSUME NEW q \in Requests
        PROVE  StepInv(q)' /\ AnswerInv(q)'
    <3>1. StepInv(q) /\ AnswerInv(q)
      BY DEF IInv, RequestInv
    <3>2. Promise(q) => Promise(q)'
      BY <2>1, <2>2, <2>3, PromiseStays, ReadsGrow DEF ReadOnly, history, reply
    <3>3. Listed(q, counted[q])' = Listed(q, counted[q])
      BY <2>1 DEF Listed, ReadOnly, reply
    <3> QED
      BY <2>1, <2>2, <3>1, <3>2, <3>3, FactsStay DEF StepInv, AnswerInv
  <2> QED
    BY <2>1, <2>2, <2>3, <2>4, TablesStay, OwnStays DEF IInv, RequestInv
<1> QED
  BY <1>1, <1>2, <1>3 DEF Next

LEMMA InitIInv == Init => IInv
<1> SUFFICES ASSUME Init PROVE IInv
  OBVIOUS
<1>1. TypeOK
  BY DirectoryAssumption
  DEF Init, TypeOK, Riders, UserRows, AssignmentRows, Phases
<1>2. \A u \in users : \E a \in ever : a.rider = u.id
  <2> SUFFICES ASSUME NEW u \in InitialUsers PROVE \E a \in InitialRows : a.rider = u.id
    BY DEF Init
  <2>1. u.id \in {a.rider : a \in InitialRows}
    BY DirectoryAssumption
  <2> QED
    BY <2>1
<1>3. \A a \in ever : \E u \in users : u.id = a.rider
  <2> SUFFICES ASSUME NEW a \in InitialRows PROVE \E u \in InitialUsers : u.id = a.rider
    BY DEF Init
  <2>1. a.rider \in {u.id : u \in InitialUsers}
    BY DirectoryAssumption
  <2> QED
    BY <2>1
<1>4. /\ \A a \in ever : a.rider \in InitialRiders /\ a.hub \in InitialHubs /\ a.by = Nobody
      /\ assigned = ever /\ areaRows = {} /\ hubs = InitialHubs
      /\ \A u \in users : u.id \in InitialRiders
      /\ \A u, v \in users : u.phone = v.phone => u = v
  BY DirectoryAssumption DEF Init
<1>5. \A a, b \in ever : <<a.rider, a.hub>> = <<b.rider, b.hub>> => a = b
  BY DirectoryAssumption DEF Init
<1>6. TableInv
  <2>1. RowsAreSound
    BY <1>3, <1>4, <1>5 DEF RowsAreSound
  <2>2. \A u \in users : HubsEver(u.id) # {}
    BY <1>2 DEF HubsEver
  <2> QED
    BY <1>4, <2>1, <2>2 DEF TableInv, Known
<1>7. ASSUME NEW r \in Requests
      PROVE  StepInv(r) /\ AnswerInv(r) /\ OwnInv(r)
  <2>1. /\ pc[r] = "called" /\ result[r] = "none" /\ total[r] = 0
        /\ items[r] = {} /\ touched[r] = {} /\ counted[r] = {} /\ gone[r] = {}
    BY DEF Init
  <2>2. NoRows(r) /\ r \notin hubs
    BY <1>4, <2>1, DirectoryAssumption DEF NoRows, IsUser, Assigns, Riders
  <2>3. StepInv(r)
    BY <1>1, <2>1, <2>2, CallType DEF StepInv, OpsAt
  <2>4. OwnInv(r)
    BY <1>4, <2>1, <2>2 DEF OwnInv, NoRows, Assigns, Scoped, ShowsItsScope
  <2> QED
    BY <2>1, <2>3, <2>4 DEF AnswerInv, Refusals
<1> QED
  BY <1>1, <1>6, <1>7 DEF IInv, RequestInv

LEMMA Invariance == Spec => []IInv
  BY InitIInv, StepsKeep, PTL DEF Spec

-----------------------------------------------------------------------------
(* The theorems *)

\* Every variable keeps its type.
THEOREM TypeCorrect == Spec => []TypeOK
<1>1. IInv => TypeOK
  BY DEF IInv
<1> QED
  BY <1>1, Invariance, PTL

\* Phones, assignments to hubs and assignments to areas stay unique, and no
\* assignment outlives its rider or its hub, although the checks of create,
\* assignHub and assignArea are over long before they write.
THEOREM RowsStaySound == Spec => []RowsAreSound
<1>1. IInv => RowsAreSound
  BY DEF IInv, TableInv
<1> QED
  BY <1>1, Invariance, PTL

\* assertRiderInScope and assertHubAccessible, made once before the writes, keep
\* a hub admin's writes in the scope that the token had while the request was served.
THEOREM WritesAreScoped == Spec => []WritesStayInScope
<1>1. IInv => WritesStayInScope
  BY DEF IInv, RequestInv, OwnInv, Scoped, Reaches, WritesStayInScope
<1> QED
  BY <1>1, Invariance, PTL

\* A success means that all rows of the request were written, a refusal that none is
\* there: no route answers 403, 404 or 409 after a write that stays.
THEOREM AnswersCanBeTrusted == Spec => []AnswersAreTruthful
<1>1. ASSUME IInv, NEW r \in Requests
      PROVE  /\ result[r] = "ok" => Kept(r)
             /\ result[r] \in Refusals => NoTrace(r)
  <2>1. AnswerInv(r)
    BY <1>1 DEF IInv, RequestInv
  <2>2. \A a \in assigned : a \in ever
    BY <1>1 DEF IInv, TypeOK
  <2> QED
    BY <2>1, <2>2 DEF AnswerInv, Promise, NoTrace, NoRows, IsUser, Assigns
<1>2. IInv => AnswersAreTruthful
  BY <1>1 DEF AnswersAreTruthful
<1> QED
  BY <1>2, Invariance, PTL

\* A rider is without a hub only when all its hubs were removed, or when the request
\* that created it did not succeed: create saves the user first, on its own.
THEOREM RidersKeepAHub == Spec => []RidersWithoutHub
<1>1. ASSUME IInv, NEW u \in users, \A a \in assigned : a.rider # u.id
      PROVE  \/ HubsEver(u.id) # {} /\ HubsEver(u.id) \cap hubs = {}
             \/ u.id \in Requests /\ result[u.id] \in {"none", "error", "lost"}
  <2>1. HubsEver(u.id) \cap hubs = {}
    BY <1>1 DEF HubsEver, IInv, TableInv
  <2>2. CASE u.id \in InitialRiders
    BY <1>1, <2>1, <2>2 DEF IInv, TableInv
  <2>3. CASE u.id \notin InitialRiders /\ HubsEver(u.id) = {}
    <3>1. u.id \in Requests
      BY <1>1, <2>3 DEF IInv, TypeOK, UserRows, Riders
    <3>2. IsUser(u.id) /\ call[u.id].op = "createRider"
      BY <1>1, <3>1 DEF IsUser, IInv, RequestInv, OwnInv
    <3>3. ~Kept(u.id)
      BY <2>3, <3>2 DEF Kept, HubsEver
    <3>4. AnswerInv(u.id)
      BY <1>1, <3>1 DEF IInv, RequestInv
    <3>5. result[u.id] # "ok" /\ result[u.id] \notin Refusals
      BY <3>2, <3>3, <3>4 DEF AnswerInv, Promise, NoRows
    <3>6. result[u.id] \in {"none", "ok", "error", "lost"} \cup Refusals
      BY <1>1, <3>1 DEF IInv, TypeOK
    <3> QED
      BY <3>1, <3>5, <3>6
  <2>4. CASE u.id \notin InitialRiders /\ HubsEver(u.id) # {}
    BY <2>1, <2>4
  <2> QED
    BY <2>2, <2>3, <2>4
<1>2. IInv => RidersWithoutHub
  BY <1>1 DEF RidersWithoutHub
<1> QED
  BY <1>2, Invariance, PTL

\* The two queries of a list, with other requests in between: the page is in scope,
\* and short of the total only by what was removed since it was counted.
THEOREM ListsStayHonest == Spec => []ListsAddUp
<1>1. ASSUME IInv, NEW r \in Requests, call[r].op \in Lists, result[r] = "ok"
      PROVE  AddsUp(r) /\ ShowsItsScope(r)
  BY <1>1 DEF IInv, RequestInv, AnswerInv, OwnInv, Promise
<1>2. IInv => ListsAddUp
  BY <1>1 DEF ListsAddUp, AddsUp, ShowsItsScope
<1> QED
  BY <1>2, Invariance, PTL

-----------------------------------------------------------------------------
(* Directory implements Membership *)

\* A step that leaves both tables alone.
LEMMA Stutters ==
    ASSUME UNCHANGED <<hubs, assigned>>
    PROVE  UNCHANGED <<hubs, Pairs>>
  BY DEF Pairs

LEMMA CreatesAHub ==
    ASSUME IInv, NEW r \in Requests, InsertHub(r)
    PROVE  Atomic!Create(r) /\ r \in Hubs
<1>1. r \notin hubs /\ r \in Hubs
  BY DirectoryAssumption
  DEF InsertHub, IInv, TableInv, Known
<1>2. hubs' = hubs \cup {r} /\ Pairs' = Pairs
  BY DEF InsertHub, Pairs
<1> QED
  BY <1>1, <1>2 DEF Atomic!Create

LEMMA AssignsARider ==
    ASSUME IInv, NEW r \in Requests, SaveAssignment(r),
           ~UNCHANGED <<hubs, assigned>>
    PROVE  /\ Atomic!Assign(Subject(r), call[r].hub)
           /\ Subject(r) \in Riders /\ call[r].hub \in Hubs
<1> DEFINE row == [rider |-> Subject(r), hub |-> call[r].hub, by |-> r]
<1>1. row.hub \in hubs /\ assigned' = assigned \cup {row} /\ hubs' = hubs
  BY DEF SaveAssignment, history
<1>2. Pairs' = Pairs \cup {<<Subject(r), call[r].hub>>}
  BY <1>1 DEF Pairs
<1>3. IsUser(Subject(r))
  BY DEF SaveAssignment, Subject, IInv, RequestInv, StepInv, OpsAt, OfRider
<1>4. Subject(r) \in Riders
  BY <1>3 DEF IsUser, IInv, TypeOK, UserRows
<1> QED
  BY <1>1, <1>2, <1>4 DEF Atomic!Assign, IInv, TypeOK

LEMMA RemovesAHub ==
    ASSUME IInv, NEW r \in Requests, DeleteHub(r)
    PROVE  Atomic!Remove(call[r].hub) /\ call[r].hub \in Hubs
<1>1. call[r].hub \in Known
  BY DEF DeleteHub, IInv, RequestInv, StepInv
<1>2. call[r].hub \in Hubs
  BY <1>1, DirectoryAssumption DEF Known
<1>3. /\ hubs' = hubs \ {call[r].hub}
      /\ assigned' = {a \in assigned : a.hub # call[r].hub}
  BY DEF DeleteHub
<1>4. Pairs' = {p \in Pairs : p[2] # call[r].hub}
  BY <1>3 DEF Pairs
<1> QED
  BY <1>2, <1>3, <1>4 DEF Atomic!Remove

LEMMA StepsImplement ==
    ASSUME IInv, [Next]_vars
    PROVE  [Atomic!Next]_<<hubs, Pairs>>
<1>1. ASSUME NEW r \in Requests, Step(r) \/ Fail(r)
      PROVE  [Atomic!Next]_<<hubs, Pairs>>
  <2>1. CASE InsertHub(r)
    BY <2>1, CreatesAHub DEF Atomic!Next
  <2>2. CASE SaveAssignment(r)
    BY <2>2, AssignsARider, Stutters DEF Atomic!Next
  <2>3. CASE DeleteHub(r)
    BY <2>3, RemovesAHub DEF Atomic!Next
  <2>4. CASE \/ Guards(r) \/ FindRider(r) \/ CheckRider(r) \/ CheckHub(r)
             \/ CheckPhone(r) \/ CheckPair(r) \/ CheckArea(r) \/ SaveUser(r)
             \/ SaveArea(r) \/ SaveStatus(r) \/ FindHub(r) \/ UpdateHub(r)
             \/ ReadHub(r) \/ Count(r) \/ FindRows(r) \/ Answer(r) \/ Fail(r)
    <3>1. UNCHANGED <<hubs, assigned>>
      BY <2>4
      DEF Guards, FindRider, CheckRider, CheckHub, CheckPhone, CheckPair, CheckArea,
          SaveUser, SaveArea, SaveStatus, FindHub, UpdateHub, ReadHub, Count, FindRows,
          Answer, Fail, Check, tables
    <3> QED
      BY <3>1, Stutters
  <2> QED
    BY <1>1, <2>1, <2>2, <2>3, <2>4 DEF Step
<1>2. CASE Crash
  BY <1>2, Stutters DEF Crash, tables
<1>3. CASE UNCHANGED vars
  BY <1>3, Stutters DEF vars
<1> QED
  BY <1>1, <1>2, <1>3 DEF Next

\* The statements of concurrent, failing and dying requests change hubs and
\* assignments one hub and one pair at a time, never assign a rider to a hub that
\* is gone, and leave no assignment behind: what TopUp and WalletReads rely on.
THEOREM Refinement == Spec => ImplementsMembership
<1>1. Init => Atomic!Init
  BY DEF Init, Pairs, Atomic!Init
<1>2. IInv /\ [Next]_vars => [Atomic!Next]_<<hubs, Pairs>>
  BY StepsImplement
<1> QED
  BY <1>1, <1>2, Invariance, PTL DEF Spec, ImplementsMembership, Atomic!Spec

=============================================================================
