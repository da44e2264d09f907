-------------------------------- MODULE Zones --------------------------------
(***************************************************************************)
(* ZonesService and its routes: the regions of the cities and the areas    *)
(* that each is divided into.  Every statement commits by itself.  A PATCH *)
(* reads the row, writes it, and reads it again for the answer; other      *)
(* requests write in between.  A list counts, then reads a page.  No code  *)
(* deletes a region or an area.                                            *)
(*                                                                         *)
(* A uuid is drawn by the request that inserts the row, so a new region or *)
(* area is known by its request.                                           *)
(***************************************************************************)
EXTENDS Envelope, FiniteSets

CONSTANTS
    Requests,
    Offered,       \* what a request may ask for: a set of records of type Calls
    Values,        \* what a field may hold; names among them are numbers
    Bad,           \* passes validation, but the database refuses it: a null,
                   \* or a polygon that PostGIS does not take
    Unset,         \* stands for a field that the body does not have
    Nothing,       \* stands for a zone or a city that is not named
    InitialZones   \* the rows at the start, by their ids

Fields == {"city", "name", "boundary"}
ZoneIds == DOMAIN InitialZones \cup Requests

\* The columns are NOT NULL.  A region is a zone of no region; an area has no city.
Contents == [Fields -> Values \cup {Unset}]
ZoneRows ==
    {row \in [region : ZoneIds \cup {Nothing}, fields : Contents] :
       \A f \in Fields :
          row.fields[f] = Unset => f = "city" /\ row.region # Nothing}

Lists == {"findRegions", "findAreas"}
Calls == [op : {"createRegion", "updateRegion", "findRegion",
                "createArea", "updateArea", "findArea"} \cup Lists,
          role : {"nobody", "rider", "hub_admin", "super_admin"},
          valid : BOOLEAN,   \* whether the pipes let the request through
          zone : ZoneIds \cup {Nothing}, body : [Fields -> Values \cup {Unset, Bad}],
          page : Nat \ {0}, limit : Nat \ {0}, city : Values \cup {Nothing}]

ASSUME ZonesAssumption ==
    /\ IsFiniteSet(Requests)
    /\ IsFiniteSet(DOMAIN InitialZones)
    /\ DOMAIN InitialZones \cap Requests = {}
    /\ Nothing \notin ZoneIds \cup Values
    /\ {Unset, Bad} \cap Values = {} /\ Unset # Bad
    /\ InitialZones \in [DOMAIN InitialZones -> ZoneRows]
    /\ Offered \subseteq Calls
    \* forbidNonWhitelisted: an area's body has no city.
    /\ \A c \in Offered : c.op \in {"createArea", "updateArea"} => c.body["city"] = Unset

NoAnswer == [success |-> FALSE, status |-> 0, code |-> NoCode]

VARIABLES
    zones,     \* the rows of `regions` and `areas`, by their ids
    call,      \* what each request asks for; it never changes
    pc,        \* the statement each request executes next
    shown,     \* the row each request has read last
    total,     \* what each list has counted
    items,     \* the zones on the page of each list
    answer,
    written,   \* history: the requests whose INSERT or UPDATE has been executed
    after,     \* history: the pairs <<p, q>> of these where q's came after p's
    before     \* history: the zones there were when each request began

reply == <<shown, total, items>>
history == <<written, after, before>>
vars == <<zones, call, pc, reply, answer, history>>

Body(r) == call[r].body
Creates(r) == call[r].op \in {"createRegion", "createArea"}
Updates(r) == call[r].op \in {"updateRegion", "updateArea"}

\* The zone a request writes, and reads back.
Target(r) == IF Creates(r) THEN r ELSE call[r].zone

IsRegion(z) == z \in DOMAIN zones /\ zones[z].region = Nothing
IsArea(z) == z \in DOMAIN zones /\ zones[z].region # Nothing

-----------------------------------------------------------------------------
Init ==
    /\ zones = InitialZones
    /\ call \in [Requests -> Offered]
    /\ pc = [r \in Requests |-> "called"]
    /\ shown = [r \in Requests |-> [f \in Fields |-> Unset]]
    /\ total = [r \in Requests |-> 0]
    /\ items = [r \in Requests |-> {}]
    /\ answer = [r \in Requests |-> NoAnswer]
    /\ written = {}
    /\ after = {}
    /\ before = [r \in Requests |-> {}]

GoTo(r, next) == pc' = [pc EXCEPT ![r] = next] /\ UNCHANGED answer

End(r, envelope) ==
    /\ pc' = [pc EXCEPT ![r] = "done"]
    /\ answer' = [answer EXCEPT ![r] = envelope]

FirstStep(op) ==
    CASE op = "createRegion" -> "insert"
      [] op = "findRegions"  -> "count"
      [] OTHER               -> "find"

\* The guards in their order (the throttler, whenever it likes, the token, the
\* role), then the pipes.  The query of a list is validated as a PaginationQueryDto,
\* in which the whitelist finds no city: a list that names one is refused.
Guards(r) ==
    /\ pc[r] = "called"
    /\ \/ End(r, Caught(429))
       \/ call[r].role = "nobody" /\ End(r, Caught(401))
       \/ call[r].role = "rider" /\ End(r, Caught(403))
       \/ /\ call[r].role \in {"hub_admin", "super_admin"}
          /\ IF call[r].valid /\ (call[r].op \in Lists => call[r].city = Nothing)
             THEN GoTo(r, FirstStep(call[r].op)) ELSE End(r, Caught(400))
    /\ before' = [before EXCEPT ![r] = DOMAIN zones]
    /\ UNCHANGED <<zones, call, reply, written, after>>

AfterFind(op) ==
    CASE op \in {"updateRegion", "updateArea"} -> "update"
      [] op = "createArea" -> "insert"
      [] op = "findAreas"  -> "count"
      [] op \in {"findRegion", "findArea"} -> "answer"

\* findRegion or findArea of the zone in the path, and in its table.
Find(r) ==
    /\ pc[r] = "find"
    /\ IF IF call[r].op \in {"updateArea", "findArea"} THEN IsArea(call[r].zone)
                                                       ELSE IsRegion(call[r].zone)
       THEN /\ shown' = [shown EXCEPT ![r] = zones[call[r].zone].fields]
            /\ GoTo(r, AfterFind(call[r].op))
       ELSE End(r, Caught(404)) /\ UNCHANGED shown
    /\ UNCHANGED <<zones, call, total, items, history>>

Wrote(r) ==
    /\ written' = written \cup {r}
    /\ after' = after \cup (written \X {r})

\* Variant: the columns accept NULL.
InsertNull(r) ==
    LET area == call[r].op = "createArea"
        row == [region |-> IF area THEN call[r].zone ELSE Nothing, fields |-> Body(r)]
    IN  /\ pc[r] = "insert"
        /\ zones' = [z \in DOMAIN zones \cup {r} |-> IF z = r THEN row ELSE zones[z]]
        /\ Wrote(r)
        /\ GoTo(r, "readBack")
        /\ UNCHANGED <<call, reply, before>>

\* INSERT.  Validation lets a body without a boundary through; the column does
\* not.  The region of an area is there: it was read, and regions stay.
Insert(r) ==
    LET area == call[r].op = "createArea"
        needed == IF area THEN {"name", "boundary"} ELSE Fields
        row == [region |-> IF area THEN call[r].zone ELSE Nothing,
                fields |-> Body(r)]
    IN  /\ pc[r] = "insert"
        /\ IF \E f \in needed : Body(r)[f] \in {Unset, Bad}
           THEN End(r, CaughtError) /\ UNCHANGED <<zones, written, after>>
           ELSE /\ zones' = [z \in DOMAIN zones \cup {r} |-> IF z = r THEN row ELSE zones[z]]
                /\ Wrote(r)
                /\ GoTo(r, "readBack")
        /\ UNCHANGED <<call, reply, before>>

\* Variant: the row that was read is changed and saved as a whole.
UpdateWholeRow(r) ==
    /\ pc[r] = "update"
    /\ \A f \in Fields : Body(r)[f] # Bad
    /\ zones' = [zones EXCEPT ![Target(r)].fields =
                    [f \in Fields |-> IF Body(r)[f] = Unset THEN shown[r][f] ELSE Body(r)[f]]]
    /\ Wrote(r)
    /\ GoTo(r, "readBack")
    /\ UNCHANGED <<call, reply, before>>

\* UPDATE of the fields that the body has.  Without any, TypeORM throws an
\* UpdateValuesMissingError and sends nothing.
Update(r) ==
    /\ pc[r] = "update"
    /\ IF \/ \A f \in Fields : Body(r)[f] = Unset
          \/ \E f \in Fields : Body(r)[f] = Bad
       THEN End(r, CaughtError) /\ UNCHANGED <<zones, written, after>>
       ELSE /\ zones' = [zones EXCEPT ![Target(r)].fields =
                  [f \in Fields |-> IF Body(r)[f] = Unset THEN @[f] ELSE Body(r)[f]]]
            /\ Wrote(r)
            /\ GoTo(r, "readBack")
    /\ UNCHANGED <<call, reply, before>>

\* Variant: the answer to a PATCH is the row that was read first.
ReadBackNothing(r) ==
    /\ pc[r] = "readBack"
    /\ GoTo(r, "answer")
    /\ UNCHANGED <<zones, call, reply, history>>

\* The row is read again for the answer.
ReadBack(r) ==
    /\ pc[r] = "readBack"
    /\ IF Target(r) \in DOMAIN zones
       THEN shown' = [shown EXCEPT ![r] = zones[Target(r)].fields] /\ GoTo(r, "answer")
       ELSE End(r, Caught(404)) /\ UNCHANGED shown
    /\ UNCHANGED <<zones, call, total, items, history>>

\* The rows a list is about: the areas of a region, or the regions.  findRegions
\* would take those of one city, but Guards lets no city through.
Listed(r) ==
    {z \in DOMAIN zones :
       IF call[r].op = "findAreas" THEN zones[z].region = call[r].zone
       ELSE IsRegion(z)}

Count(r) ==
    /\ pc[r] = "count"
    /\ total' = [total EXCEPT ![r] = Cardinality(Listed(r))]
    /\ GoTo(r, "findRows")
    /\ UNCHANGED <<zones, call, shown, items, history>>

\* The ranks that ORDER BY name ASC may give to the rows S: names are not unique.
Orders(S) ==
    {rank \in [S -> 1 .. Cardinality(S)] :
       \A y, z \in S :
          /\ rank[y] = rank[z] => y = z
          /\ zones[y].fields["name"] < zones[z].fields["name"] => rank[y] < rank[z]}

\* Variant: the page is of the rows there were before they were counted.
FindRowsFirst(r) ==
    LET first == (call[r].page - 1) * call[r].limit
        rows == Listed(r) \cap before[r]
    IN  /\ pc[r] = "findRows"
        /\ \E rank \in Orders(rows) :
              items' = [items EXCEPT ![r] = {z \in rows :
                           first < rank[z] /\ rank[z] <= first + call[r].limit}]
        /\ GoTo(r, "answer")
        /\ UNCHANGED <<zones, call, shown, total, history>>

\* Offset (page - 1) * limit, limit.
FindRows(r) ==
    LET first == (call[r].page - 1) * call[r].limit
    IN  /\ pc[r] = "findRows"
        /\ \E rank \in Orders(Listed(r)) :
              items' = [items EXCEPT ![r] = {z \in Listed(r) :
                           first < rank[z] /\ rank[z] <= first + call[r].limit}]
        /\ GoTo(r, "answer")
        /\ UNCHANGED <<zones, call, shown, total, history>>

\* A POST is answered with 201.
Answer(r) ==
    /\ pc[r] = "answer"
    /\ End(r, Intercepted(IF Creates(r) THEN 201 ELSE 200))
    /\ UNCHANGED <<zones, call, reply, history>>

\* A statement fails by itself, or succeeds and its acknowledgement is lost.
Fail(r) ==
    /\ pc[r] \notin {"called", "done"}
    /\ End(r, CaughtError)
    /\ UNCHANGED <<zones, call, reply, history>>

\* The server process dies; what each request has written so far stays.
Crash ==
    LET Dying == {r \in Requests : pc[r] \notin {"called", "done"}}
    IN  /\ Dying # {}
        /\ pc' = [r \in Requests |-> IF r \in Dying THEN "done" ELSE pc[r]]
        /\ UNCHANGED <<zones, call, reply, answer, history>>

Next ==
    \/ \E r \in Requests :
          \/ Guards(r) \/ Find(r) \/ Insert(r) \/ Update(r) \/ ReadBack(r)
          \/ Count(r) \/ FindRows(r) \/ Answer(r) \/ Fail(r)
    \/ Crash

Spec == Init /\ [][Next]_vars

-----------------------------------------------------------------------------
(* Properties *)

Phases == {"called", "find", "insert", "update", "readBack", "count", "findRows",
           "answer", "done"}
Envelopes == {NoAnswer, CaughtError, Intercepted(200), Intercepted(201)}
                 \cup {Caught(status) : status \in {400, 401, 403, 404, 429}}

\* Every variable has its type; no row lacks a field, and none disappears.
TypeOK ==
    /\ DOMAIN zones \subseteq ZoneIds
    /\ zones \in [DOMAIN zones -> ZoneRows]
    /\ DOMAIN InitialZones \subseteq DOMAIN zones
    /\ call \in [Requests -> Offered]
    /\ pc \in [Requests -> Phases]
    /\ shown \in [Requests -> Contents]
    /\ total \in [Requests -> Nat]
    /\ items \in [Requests -> SUBSET DOMAIN zones]
    /\ answer \in [Requests -> Envelopes]
    /\ written \subseteq Requests
    /\ after \subseteq written \X written
    /\ before \in [Requests -> SUBSET DOMAIN zones]

\* Request q has written field f of zone z.
Gave(q, z, f) ==
    q \in written /\ Target(q) = z /\ Body(q)[f] # Unset

\* A zone's field at the start; a zone that was created had none.
Original(z, f) == IF z \in DOMAIN InitialZones THEN InitialZones[z].fields[f] ELSE Unset

\* Every field holds what the last request that wrote this very field gave it:
\* no PATCH takes back what another one changed between its read and its write.
FieldsAreLatest ==
    \A z \in DOMAIN zones, f \in Fields :
       \/ zones[z].fields[f] = Original(z, f) /\ \A q \in Requests : ~Gave(q, z, f)
       \/ \E q \in Requests :
             /\ Gave(q, z, f) /\ zones[z].fields[f] = Body(q)[f]
             /\ \A p \in Requests : Gave(p, z, f) => <<q, p>> \notin after

Refusals == {"VALIDATION_ERROR", "UNAUTHORIZED", "FORBIDDEN", "NOT_FOUND", "RATE_LIMITED"}

\* What a client is told agrees with the tables.  A POST or PATCH that succeeds
\* has written, and shows, in each field it gave, its own value or that of a
\* request that came later; one that is refused has written nothing; and
\* NOT_FOUND means that the zone was not there when the request began.
AnswersAreTruthful ==
    \A r \in Requests :
       /\ answer[r].success /\ (Creates(r) \/ Updates(r)) =>
             /\ r \in written
             /\ \A f \in Fields : Gave(r, Target(r), f) =>
                   \E q \in Requests :
                      /\ Gave(q, Target(r), f) /\ shown[r][f] = Body(q)[f]
                      /\ q = r \/ <<r, q>> \in after
       /\ answer[r].code \in Refusals => r \notin written
       /\ answer[r].code = "NOT_FOUND" =>
             \/ call[r].zone \notin before[r]
             \/ IsRegion(call[r].zone) = (call[r].op \in {"updateArea", "findArea"})

\* The page of a list is never shorter than its total promises, though the two
\* come from two queries: rows are only added, and the count comes first.
PageFitsTotal ==
    \A r \in {q \in Requests : call[q].op \in Lists} :
       answer[r].success =>
          \/ Cardinality(items[r]) = call[r].limit
          \/ (call[r].page - 1) * call[r].limit + Cardinality(items[r]) >= total[r]
=============================================================================
