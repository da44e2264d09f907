------------------------------ MODULE Directory ------------------------------
(***************************************************************************)
(* HubsService and RidersService: hubs, riders, and which rider works for  *)
(* which hub and area.  Each request is a sequence of statements that      *)
(* commit one by one; nothing holds a lock from a check to the write that  *)
(* relies on it, so other requests come in between.  What the checks do    *)
(* not catch, the unique indexes and the foreign keys refuse, and that is  *)
(* a 500.                                                                  *)
(*                                                                         *)
(* A uuid is drawn by the request that inserts the row, so a new rider or  *)
(* hub is known by its request.  A save is one step: PostgreSQL makes      *)
(* inserts of one key, and an insert and the delete of the row it refers   *)
(* to, wait for each other.  The attributes of a hub and the status of a   *)
(* rider are left out; that they are written is not.                       *)
(***************************************************************************)
EXTENDS HubScope, Integers, FiniteSets

CONSTANTS
    Requests,
    Offered,        \* what a request may ask for: a set of records of type Calls
    Phones,
    Areas,          \* the areas that exist; no code deletes one
    InitialHubs,
    InitialRiders,
    InitialUsers,   \* records of type UserRows
    InitialRows,    \* records of type AssignmentRows
    Nobody

Riders == InitialRiders \cup Requests
AreaIds == Areas \cup {Nobody}

Lists == {"findRiders", "findHubs"}
Ops == {"createRider", "assignHub", "assignArea", "updateStatus", "findRider",
        "createHub", "updateHub", "removeHub", "findHub"} \cup Lists
Calls == [op : Ops, user : Users,
          query : Hubs \cup {NoHub},   \* ?hubId=, which only the guard reads
          hub : Hubs \cup {NoHub},     \* that of the body, or of the path
          rider : Riders \cup {Nobody}, phone : Phones \cup {Nobody}, area : AreaIds,
          page : Nat \ {0}, limit : Nat \ {0}]

UserRows == [id : Riders, phone : Phones]
AssignmentRows == [rider : Riders, hub : Hubs, by : Requests \cup {Nobody}]
AreaRows == [rider : Riders, area : Areas, by : Requests]

ASSUME DirectoryAssumption ==
    /\ Hubs = InitialHubs \cup Requests
    /\ InitialHubs \cap Requests = {}
    /\ InitialRiders \cap Requests = {}
    /\ Nobody \notin Riders \cup Phones \cup Areas
    /\ IsFiniteSet(Requests) /\ IsFiniteSet(InitialHubs) /\ IsFiniteSet(InitialRiders)
    /\ Offered \subseteq Calls
    /\ \A c \in Offered : c.op = "createRider" => c.phone \in Phones
    /\ InitialUsers \subseteq [id : InitialRiders, phone : Phones]
    /\ \A u, v \in InitialUsers : u.phone = v.phone => u = v
    /\ InitialRows \subseteq [rider : InitialRiders, hub : InitialHubs, by : {Nobody}]
    \* At the start every rider has a hub, and only riders have.
    /\ {u.id : u \in InitialUsers} = {a.rider : a \in InitialRows}

VARIABLES
    hubs,       \* the hubs that exist
    users,      \* the rows of users with role rider
    assigned,   \* the rows of rider_hub_assignments
    areaRows,   \* the rows of rider_area_assignments
    call,       \* what each request asks for; it never changes
    pc,         \* the statement each request executes next
    result,
    total,      \* what each list has counted
    items,      \* the riders or hubs on the page of each list
    ever,       \* history: every row that was ever in `assigned`
    touched,    \* history: the riders each request has written about
    counted,    \* history: the rows each list has counted
    gone        \* history: the assignments that were gone when each request began

vars == <<hubs, users, assigned, areaRows, call, pc, result, total, items,
          ever, touched, counted, gone>>
tables == <<hubs, users, assigned, areaRows>>
reply == <<total, items, counted>>
history == <<ever, touched, gone>>

Pairs == {<<a.rider, a.hub>> : a \in assigned}

Caller(r) == call[r].user

\* The rider a request writes about: a new one is known by its request.
Subject(r) == IF call[r].op = "createRider" THEN r ELSE call[r].rider

\* The hub a request reads back.
Target(r) == IF call[r].op = "createHub" THEN r ELSE call[r].hub

-----------------------------------------------------------------------------
Init ==
    /\ hubs = InitialHubs
    /\ users = InitialUsers
    /\ assigned = InitialRows
    /\ areaRows = {}
    /\ call \in [Requests -> Offered]
    /\ pc = [r \in Requests |-> "called"]
    /\ result = [r \in Requests |-> "none"]
    /\ total = [r \in Requests |-> 0]
    /\ items = [r \in Requests |-> {}]
    /\ ever = InitialRows
    /\ touched = [r \in Requests |-> {}]
    /\ counted = [r \in Requests |-> {}]
    /\ gone = [r \in Requests |-> {}]

GoTo(r, next) == pc' = [pc EXCEPT ![r] = next] /\ UNCHANGED result

End(r, why) ==
    /\ pc' = [pc EXCEPT ![r] = "done"]
    /\ result' = [result EXCEPT ![r] = why]

\* A read: the request goes on, or ends with an exception.
Check(r, condition, next, why) ==
    /\ IF condition THEN GoTo(r, next) ELSE End(r, why)
    /\ UNCHANGED <<tables, call, history, reply>>

\* A hub admin without hubs gets an empty list of riders without a query.
FirstStep(c) ==
    CASE c.op = "createRider" -> "checkHub"
      [] c.op \in {"assignHub", "assignArea", "updateStatus", "findRider"} -> "findRider"
      [] c.op = "findRiders" ->
             IF Unrestricted(c.user) \/ c.user.hubIds # {} THEN "count" ELSE "answer"
      [] c.op = "createHub" -> "insertHub"
      [] c.op \in {"updateHub", "removeHub"} -> "findHub"
      [] c.op = "findHub" -> "readHub"
      [] c.op = "findHubs" -> "count"

\* The routes that change hubs are for super admins only, and two bodies name a
\* hub: the guard does not look at the hub in a path.
Admitted(c) ==
    /\ GuardsPass(c.user, ClientHub(c.query,
                     IF c.op \in {"createRider", "assignHub"} THEN c.hub ELSE NoHub))
    /\ c.op \in {"createHub", "updateHub", "removeHub"} => Unrestricted(c.user)

\* The guards, then the pipe: a list has no parameter but page and limit.  The token
\* was issued to the owner of the hubs it names, when these existed.
Guards(r) ==
    /\ pc[r] = "called"
    /\ Caller(r).hubIds \subseteq InitialHubs \cup hubs
    /\ IF ~Admitted(call[r]) THEN End(r, "forbidden")
       ELSE IF call[r].op \in Lists /\ call[r].query # NoHub THEN End(r, "badRequest")
       ELSE GoTo(r, FirstStep(call[r]))
    /\ gone' = [gone EXCEPT ![r] = ever \ assigned]
    /\ UNCHANGED <<tables, call, ever, touched, reply>>

\* RidersService.findOne: the user, then assertRiderInScope.
FindRider(r) ==
    /\ pc[r] = "findRider"
    /\ Check(r, \E u \in users : u.id = call[r].rider, "checkRider", "notFound")

AfterRider(op) ==
    CASE op = "assignHub"    -> "checkHub"
      [] op = "assignArea"   -> "checkArea"
      [] op = "updateStatus" -> "saveStatus"
      [] op = "findRider"    -> "answer"

\* Variant: the scope of the rider is not checked, only that of the hub.
CheckRiderUnscoped(r) ==
    /\ pc[r] = "checkRider"
    /\ GoTo(r, AfterRider(call[r].op))
    /\ UNCHANGED <<tables, call, history, reply>>

CheckRider(r) ==
    /\ pc[r] = "checkRider"
    /\ Check(r, \/ Unrestricted(Caller(r))
                \/ HubsInScope(Caller(r), call[r].rider, Pairs) # {},
             AfterRider(call[r].op), "forbidden")

\* assertHubAccessible: a hub that does not exist is also out of scope.
CheckHub(r) ==
    /\ pc[r] = "checkHub"
    /\ Check(r, call[r].hub \in hubs /\ InScope(Caller(r), call[r].hub),
             IF call[r].op = "createRider" THEN "checkPhone" ELSE "checkPair",
             "forbidden")

CheckPhone(r) ==
    /\ pc[r] = "checkPhone"
    /\ Check(r, \A u \in users : u.phone # call[r].phone, "saveUser", "conflict")

CheckPair(r) ==
    /\ pc[r] = "checkPair"
    /\ Check(r, <<call[r].rider, call[r].hub>> \notin Pairs,
             "saveAssignment", "conflict")

CheckArea(r) ==
    /\ pc[r] = "checkArea"
    /\ Check(r, \A a \in areaRows : <<a.rider, a.area>> # <<call[r].rider, call[r].area>>,
             "saveArea", "conflict")

\* Variant: users.phone without its unique index.
SaveUserWithoutIndex(r) ==
    /\ pc[r] = "saveUser"
    /\ users' = users \cup {[id |-> r, phone |-> call[r].phone]}
    /\ touched' = [touched EXCEPT ![r] = @ \cup {r}]
    /\ GoTo(r, "saveAssignment")
    /\ UNCHANGED <<hubs, assigned, areaRows, call, ever, gone, reply>>

\* Variant: the answer is sent before the assignment is saved.
SaveUserAndAnswer(r) ==
    /\ pc[r] = "saveUser"
    /\ \A u \in users : u.phone # call[r].phone
    /\ users' = users \cup {[id |-> r, phone |-> call[r].phone]}
    /\ touched' = [touched EXCEPT ![r] = @ \cup {r}]
    /\ GoTo(r, "answer")
    /\ UNCHANGED <<hubs, assigned, areaRows, call, ever, gone, reply>>

\* The phone was free when it was checked, before the password was hashed.
SaveUser(r) ==
    /\ pc[r] = "saveUser"
    /\ IF \E u \in users : u.phone = call[r].phone
       THEN End(r, "error") /\ UNCHANGED <<users, touched>>
       ELSE /\ users' = users \cup {[id |-> r, phone |-> call[r].phone]}
            /\ touched' = [touched EXCEPT ![r] = @ \cup {r}]
            /\ GoTo(r, "saveAssignment")
    /\ UNCHANGED <<hubs, assigned, areaRows, call, ever, gone, reply>>

\* The hub may be gone; the pair may be there, even for a new rider, whom
\* other requests can see.
SaveAssignment(r) ==
    LET row == [rider |-> Subject(r), hub |-> call[r].hub, by |-> r]
    IN  /\ pc[r] = "saveAssignment"
        /\ IF row.hub \notin hubs \/ <<row.rider, row.hub>> \in Pairs
           THEN End(r, "error") /\ UNCHANGED <<assigned, ever, touched>>
           ELSE /\ assigned' = assigned \cup {row}
                /\ ever' = ever \cup {row}
                /\ touched' = [touched EXCEPT ![r] = @ \cup {row.rider}]
                /\ GoTo(r, "answer")
        /\ UNCHANGED <<hubs, users, areaRows, call, gone, reply>>

\* Variant: rider_area_assignments.area_id without its foreign key.
SaveAreaWithoutKey(r) ==
    LET row == [rider |-> call[r].rider, area |-> call[r].area, by |-> r]
    IN  /\ pc[r] = "saveArea"
        /\ IF \E a \in areaRows : a.rider = row.rider /\ a.area = row.area
           THEN End(r, "error") /\ UNCHANGED <<areaRows, touched>>
           ELSE /\ areaRows' = areaRows \cup {row}
                /\ touched' = [touched EXCEPT ![r] = @ \cup {row.rider}]
                /\ GoTo(r, "answer")
        /\ UNCHANGED <<hubs, users, assigned, call, ever, gone, reply>>

\* The area may not exist, and is not checked before; the pair may be there.
SaveArea(r) ==
    LET row == [rider |-> call[r].rider, area |-> call[r].area, by |-> r]
    IN  /\ pc[r] = "saveArea"
        /\ IF \/ row.area \notin Areas
              \/ \E a \in areaRows : a.rider = row.rider /\ a.area = row.area
           THEN End(r, "error") /\ UNCHANGED <<areaRows, touched>>
           ELSE /\ areaRows' = areaRows \cup {row}
                /\ touched' = [touched EXCEPT ![r] = @ \cup {row.rider}]
                /\ GoTo(r, "answer")
        /\ UNCHANGED <<hubs, users, assigned, call, ever, gone, reply>>

\* A PATCH without a status writes nothing: it is a findRider.
SaveStatus(r) ==
    /\ pc[r] = "saveStatus"
    /\ touched' = [touched EXCEPT ![r] = @ \cup {call[r].rider}]
    /\ GoTo(r, "answer")
    /\ UNCHANGED <<tables, call, ever, gone, reply>>

FindHub(r) ==
    /\ pc[r] = "findHub"
    /\ Check(r, call[r].hub \in hubs,
             IF call[r].op = "removeHub" THEN "deleteHub" ELSE "writeHub", "notFound")

\* Variant: the foreign key without ON DELETE CASCADE, and not enforced.
DeleteHubWithoutCascade(r) ==
    /\ pc[r] = "deleteHub"
    /\ hubs' = hubs \ {call[r].hub}
    /\ GoTo(r, "answer")
    /\ UNCHANGED <<users, assigned, areaRows, call, history, reply>>

\* The assignments go with the hub.  A hub that is gone already is no error.
DeleteHub(r) ==
    /\ pc[r] = "deleteHub"
    /\ hubs' = hubs \ {call[r].hub}
    /\ assigned' = {a \in assigned : a.hub # call[r].hub}
    /\ GoTo(r, "answer")
    /\ UNCHANGED <<users, areaRows, call, history, reply>>

InsertHub(r) ==
    /\ pc[r] = "insertHub"
    /\ hubs' = hubs \cup {r}
    /\ GoTo(r, "readHub")
    /\ UNCHANGED <<users, assigned, areaRows, call, history, reply>>

\* update changes attributes only, and nothing when the hub is gone.
UpdateHub(r) ==
    /\ pc[r] = "writeHub"
    /\ GoTo(r, "readHub")
    /\ UNCHANGED <<tables, call, history, reply>>

\* findOne, with which create and update end as well: 404 when the hub is gone by
\* then, and for a hub admin when it is out of scope.
ReadHub(r) ==
    /\ pc[r] = "readHub"
    /\ Check(r, Target(r) \in hubs /\ InScope(Caller(r), Target(r)), "answer", "notFound")

\* The rows a list is about: hubs, or assignments; and whom or what it shows.  A
\* rider without any assignment is in no list, not even a super admin's.
Matching(r) ==
    IF call[r].op = "findHubs" THEN {h \in hubs : InScope(Caller(r), h)}
    ELSE {a \in assigned : InScope(Caller(r), a.hub)}
Listed(r, rows) ==
    IF call[r].op = "findHubs" THEN rows ELSE {a.rider : a \in rows}

\* COUNT, of riders DISTINCT.
Count(r) ==
    /\ pc[r] = "count"
    /\ total' = [total EXCEPT ![r] = Cardinality(Listed(r, Matching(r)))]
    /\ counted' = [counted EXCEPT ![r] = Matching(r)]
    /\ GoTo(r, "findRows")
    /\ UNCHANGED <<tables, call, items, history>>

\* How many of n rows are on a page.
PageLength(n, c) ==
    LET first == (c.page - 1) * c.limit
    IN  IF n <= first THEN 0 ELSE IF n - first < c.limit THEN n - first ELSE c.limit

\* Variant: the query for the page has lost its scope.
FindRowsUnscoped(r) ==
    LET matching == IF call[r].op = "findHubs" THEN hubs ELSE {a.rider : a \in assigned}
    IN  /\ pc[r] = "findRows"
        /\ \E page \in SUBSET matching :
              /\ Cardinality(page) = PageLength(Cardinality(matching), call[r])
              /\ items' = [items EXCEPT ![r] = page]
        /\ GoTo(r, "answer")
        /\ UNCHANGED <<tables, call, total, counted, history>>

\* Offset and limit.  Names and phone numbers, by which lists are ordered, are left
\* out: any rows may be the first ones.
FindRows(r) ==
    LET matching == Listed(r, Matching(r))
    IN  /\ pc[r] = "findRows"
        /\ \E page \in SUBSET matching :
              /\ Cardinality(page) = PageLength(Cardinality(matching), call[r])
              /\ items' = [items EXCEPT ![r] = page]
        /\ GoTo(r, "answer")
        /\ UNCHANGED <<tables, call, total, counted, history>>

Answer(r) ==
    /\ pc[r] = "answer"
    /\ End(r, "ok")
    /\ UNCHANGED <<tables, call, history, reply>>

\* A statement fails by itself, or succeeds and its acknowledgement is lost.
Fail(r) ==
    /\ pc[r] \notin {"called", "done"}
    /\ End(r, "error")
    /\ UNCHANGED <<tables, call, history, reply>>

\* The server process dies; what each request has written so far stays.
Crash ==
    LET Dying == {r \in Requests : pc[r] \notin {"called", "done"}}
    IN  /\ Dying # {}
        /\ pc' = [r \in Requests |-> IF r \in Dying THEN "done" ELSE pc[r]]
        /\ result' = [r \in Requests |-> IF r \in Dying THEN "lost" ELSE result[r]]
        /\ UNCHANGED <<tables, call, history, reply>>

Step(r) ==
    \/ Guards(r) \/ FindRider(r) \/ CheckRider(r) \/ CheckHub(r) \/ CheckPhone(r)
    \/ CheckPair(r) \/ CheckArea(r) \/ SaveUser(r) \/ SaveAssignment(r)
    \/ SaveArea(r) \/ SaveStatus(r) \/ FindHub(r) \/ DeleteHub(r) \/ InsertHub(r)
    \/ UpdateHub(r) \/ ReadHub(r) \/ Count(r) \/ FindRows(r) \/ Answer(r)

Next == (\E r \in Requests : Step(r) \/ Fail(r)) \/ Crash

Spec == Init /\ [][Next]_vars

-----------------------------------------------------------------------------
(* Properties *)

Phases == {"called", "findRider", "checkRider", "checkHub", "checkPhone", "checkPair",
           "checkArea", "saveUser", "saveAssignment", "saveArea", "saveStatus",
           "findHub", "deleteHub", "insertHub", "writeHub", "readHub", "count",
           "findRows", "answer", "done"}
Refusals == {"badRequest", "forbidden", "notFound", "conflict"}

\* Every variable has its type.
TypeOK ==
    /\ hubs \subseteq Hubs
    /\ users \subseteq UserRows
    /\ assigned \subseteq ever
    /\ ever \subseteq AssignmentRows
    /\ areaRows \subseteq AreaRows
    /\ call \in [Requests -> Offered]
    /\ pc \in [Requests -> Phases]
    /\ result \in [Requests -> {"none", "ok", "error", "lost"} \cup Refusals]
    /\ total \in [Requests -> Nat]
    /\ items \in [Requests -> SUBSET (Riders \cup Hubs)]
    /\ touched \in [Requests -> SUBSET Riders]
    /\ counted \in [Requests -> SUBSET (Hubs \cup ever)]
    /\ gone \in [Requests -> SUBSET ever]

\* However requests interleave between their checks and their writes, a phone
\* belongs to one rider, a rider is assigned to a hub or an area once, and no
\* assignment names a rider or a hub that does not exist.
RowsAreSound ==
    /\ \A u, v \in users : u.phone = v.phone => u = v
    /\ \A a, b \in assigned : <<a.rider, a.hub>> = <<b.rider, b.hub>> => a = b
    /\ \A a, b \in areaRows : <<a.rider, a.area>> = <<b.rider, b.area>> => a = b
    /\ \A a \in assigned : a.hub \in hubs /\ \E u \in users : u.id = a.rider
    /\ \A a \in areaRows : \E u \in users : u.id = a.rider

\* A hub admin's request writes only about the rider it creates, or about riders
\* that somebody else had assigned to a hub of the token's scope, at some time
\* while the request was served: a check is never older than its request.  And it
\* assigns riders only to hubs of that scope, whatever was removed meanwhile.
WritesStayInScope ==
    \A r \in Requests : ~Unrestricted(Caller(r)) =>
       /\ \A a \in ever : a.by = r => a.hub \in Caller(r).hubIds
       /\ \A x \in touched[r] \ {r} :
             \E a \in ever \ gone[r] :
                a.rider = x /\ a.by # r /\ a.hub \in Caller(r).hubIds

\* Nothing that request r inserted is in the tables.
NoTrace(r) ==
    /\ r \notin hubs
    /\ \A u \in users : u.id # r
    /\ \A a \in assigned \cup areaRows : a.by # r
    /\ touched[r] = {}

\* What success promises: the rows were written; and a removed hub stays away.
Kept(r) ==
    CASE call[r].op = "createRider" ->
             (\E u \in users : u.id = r) /\ (\E a \in ever : a.by = r /\ a.rider = r)
      [] call[r].op = "assignHub" -> \E a \in ever : a.by = r /\ a.rider = call[r].rider
      [] call[r].op = "assignArea" -> \E a \in areaRows : a.by = r
      [] call[r].op = "updateStatus" -> touched[r] = {call[r].rider}
      [] call[r].op = "removeHub" -> call[r].hub \notin hubs
      [] OTHER -> TRUE

\* What a caller is told agrees with the tables: success means that all of the
\* request's rows were written; a refusal (403, 404, 409) that none is there,
\* also when a hub that was created has been removed before it is read back.
AnswersAreTruthful ==
    \A r \in Requests :
       /\ result[r] = "ok" => Kept(r)
       /\ result[r] \in Refusals => NoTrace(r)

HubsEver(x) == {a.hub : a \in {b \in ever : b.rider = x}}

\* A rider whom no list shows, one without a hub, is either one whose hubs were
\* all removed, or what a creation left that did not succeed.
RidersWithoutHub ==
    \A u \in users : (\A a \in assigned : a.rider # u.id) =>
       \/ HubsEver(u.id) # {} /\ HubsEver(u.id) \cap hubs = {}
       \/ u.id \in Requests /\ result[u.id] \in {"none", "error", "lost"}

\* A list shows a hub admin only hubs of the token's scope, and riders who were
\* assigned to one; and what a first page with room left lacks of its total, which
\* another query has counted, has lost its rows in between.
ListsAddUp ==
    \A r \in {q \in Requests : call[q].op \in Lists /\ result[q] = "ok"} :
       /\ \A i \in items[r] :
             IF call[r].op = "findHubs" THEN InScope(Caller(r), i)
             ELSE \E a \in ever : a.rider = i /\ InScope(Caller(r), a.hub)
       /\ call[r].page = 1 /\ Cardinality(items[r]) < call[r].limit =>
             total[r] <= Cardinality(items[r] \cup Listed(r, counted[r] \ Matching(r)))

Atomic == INSTANCE Membership
    WITH assigned <- Pairs, InitialPairs <- {<<a.rider, a.hub>> : a \in InitialRows}

\* Request by request, and statement by statement, the two services change hubs
\* and assignments as Membership says: no assignment to a hub that is gone, and
\* none that outlives its hub.
ImplementsMembership == Atomic!Spec
=============================================================================
