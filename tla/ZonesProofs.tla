----------------------------- MODULE ZonesProofs -----------------------------
(***************************************************************************)
(* The safety properties of Zones hold for every set of requests, zones    *)
(* and values.  What carries them: rows and the history of writes only     *)
(* grow, and the writes are in one order, in which the row that a request  *)
(* reads back is at or after its own write.                                *)
(***************************************************************************)
EXTENDS Zones, FiniteSetTheorems, TLAPS

\* Of two writes one came first.
OrderInv ==
    \A p, q \in written : p = q \/ <<p, q>> \in after \/ <<q, p>> \in after

\* Writes are of rows that are there, and a new row is there only by its INSERT.
TableInv ==
    /\ \A q \in written : Target(q) \in DOMAIN zones
    /\ \A q \in Requests \ written : q \notin DOMAIN zones

\* What the answer to a POST or PATCH may show.
Truth(r) ==
    Creates(r) \/ Updates(r) =>
       /\ r \in written
       /\ \A f \in Fields : Gave(r, Target(r), f) =>
             \E q \in Requests :
                /\ Gave(q, Target(r), f) /\ shown[r][f] = Body(q)[f]
                /\ q = r \/ <<r, q>> \in after

\* A page is as long as the total says.
IsList(r) == call[r].op \in Lists
First(r) == (call[r].page - 1) * call[r].limit
Fits(r) ==
    IsList(r) => \/ Cardinality(items[r]) = call[r].limit
                 \/ First(r) + Cardinality(items[r]) >= total[r]

\* What is known where a request is.
StepInv(r) ==
    /\ pc[r] \in {"called", "find", "insert", "update"} => r \notin written
    /\ pc[r] = "find" => call[r].op \notin {"createRegion", "findRegions"}
    /\ pc[r] = "insert" => /\ Creates(r)
                           /\ call[r].op = "createArea" => call[r].zone \in DOMAIN zones
    /\ pc[r] = "update" => Updates(r) /\ call[r].zone \in DOMAIN zones
    /\ pc[r] = "readBack" => (Creates(r) \/ Updates(r)) /\ r \in written
    /\ pc[r] \in {"count", "findRows"} => call[r].op \in Lists
    /\ pc[r] = "findRows" /\ IsList(r) => total[r] <= Cardinality(Listed(r))
    /\ pc[r] = "answer" => Truth(r) /\ Fits(r)

\* What an answer that was sent says.
AnswerInv(r) ==
    /\ pc[r] # "done" => answer[r] = NoAnswer
    /\ answer[r].success => Truth(r) /\ Fits(r)
    /\ answer[r].code \in Refusals => r \notin written
    /\ answer[r].code = "NOT_FOUND" =>
          \/ call[r].zone \notin before[r]
          \/ IsRegion(call[r].zone) = (call[r].op \in {"updateArea", "findArea"})

RequestInv == \A r \in Requests : StepInv(r) /\ AnswerInv(r)

IInv == TypeOK /\ OrderInv /\ TableInv /\ FieldsAreLatest /\ RequestInv

-----------------------------------------------------------------------------
(* Answers *)

LEMMA EnvelopeFacts ==
    /\ NoAnswer.success = FALSE /\ NoAnswer.code \notin Refusals
    /\ CaughtError.success = FALSE /\ CaughtError.code \notin Refusals
    /\ \A s \in {200, 201} : Intercepted(s).success /\ Intercepted(s).code \notin Refusals
    /\ \A s \in {400, 401, 403, 404, 429} :
          Caught(s).success = FALSE /\ (Caught(s).code = "NOT_FOUND" => s = 404)
<1>1. NoAnswer.success = FALSE /\ NoAnswer.code \notin Refusals
  BY DEF NoAnswer, NoCode, Refusals
<1>2. CaughtError.success = FALSE /\ CaughtError.code \notin Refusals
  BY DEF CaughtError, Refusals
<1>3. ASSUME NEW s \in {200, 201}
      PROVE  Intercepted(s).success /\ Intercepted(s).code \notin Refusals
  <2>1. Intercepted(s).success = (200 <= s /\ s < 400) /\ Intercepted(s).code = "none"
    BY DEF Intercepted, NoCode
  <2>2. 200 <= s /\ s < 400
    BY <1>3
  <2> QED
    BY <2>1, <2>2 DEF Refusals
<1>4. ASSUME NEW s \in {400, 401, 403, 404, 429}
      PROVE  Caught(s).success = FALSE /\ (Caught(s).code = "NOT_FOUND" => s = 404)
  <2>1. Caught(s).success = FALSE /\ Caught(s).code = StatusToCode(s)
    BY DEF Caught
  <2>2. StatusToCode(s) = "NOT_FOUND" => s = 404
    BY <1>4 DEF StatusToCode
  <2> QED
    BY <2>1, <2>2
<1> QED
  BY <1>1, <1>2, <1>3, <1>4

LEMMA CallType ==
    ASSUME TypeOK, NEW r \in Requests
    PROVE  /\ call[r] \in Calls
           /\ Body(r) \in [Fields -> Values \cup {Unset, Bad}]
           /\ call[r].zone \in ZoneIds \cup {Nothing}
           /\ Target(r) \in ZoneIds \cup {Nothing}
           /\ call[r].page \in Nat \ {0} /\ call[r].limit \in Nat \ {0}
           /\ First(r) \in Nat
<1>1. call[r] \in Calls
  BY ZonesAssumption DEF TypeOK
<1>2. /\ Body(r) \in [Fields -> Values \cup {Unset, Bad}]
      /\ call[r].zone \in ZoneIds \cup {Nothing}
      /\ call[r].page \in Nat \ {0} /\ call[r].limit \in Nat \ {0}
  BY <1>1 DEF Calls, Body
<1>3. ASSUME NEW m \in Nat \ {0}, NEW n \in Nat \ {0} PROVE (m - 1) * n \in Nat
  OBVIOUS
<1> QED
  BY <1>1, <1>2, <1>3 DEF Target, ZoneIds, First

-----------------------------------------------------------------------------
(* Writes *)

\* The INSERT or UPDATE of request r.
Writes(r) ==
    /\ r \notin written
    /\ written' = written \cup {r}
    /\ after' = after \cup (written \X {r})
    /\ Target(r) \in DOMAIN zones'
    /\ DOMAIN zones \subseteq DOMAIN zones'
    /\ \A z \in DOMAIN zones' \ DOMAIN zones : z = r /\ Creates(r)
    /\ \A z \in DOMAIN zones : zones'[z].region = zones[z].region
    /\ \A z \in DOMAIN zones', f \in Fields :
          zones'[z].fields[f] =
             IF z = Target(r) /\ Body(r)[f] # Unset THEN Body(r)[f]
             ELSE IF z \in DOMAIN zones THEN zones[z].fields[f] ELSE Unset

NoWrite == UNCHANGED <<zones, written, after>>

LEMMA Inserts ==
    ASSUME IInv, NEW r \in Requests, Insert(r)
    PROVE  \/ NoWrite /\ End(r, CaughtError)
           \/ /\ Writes(r) /\ GoTo(r, "readBack")
              /\ zones' \in [DOMAIN zones' -> ZoneRows]
              /\ DOMAIN zones' \subseteq ZoneIds
<1> DEFINE area == call[r].op = "createArea"
           needed == IF area THEN {"name", "boundary"} ELSE Fields
           row == [region |-> IF area THEN call[r].zone ELSE Nothing, fields |-> Body(r)]
<1>1. CASE \E f \in needed : Body(r)[f] \in {Unset, Bad}
  BY <1>1 DEF Insert, NoWrite
<1>2. CASE ~\E f \in needed : Body(r)[f] \in {Unset, Bad}
  <2>1. /\ zones' = [z \in DOMAIN zones \cup {r} |-> IF z = r THEN row ELSE zones[z]]
        /\ Wrote(r) /\ GoTo(r, "readBack") /\ pc[r] = "insert"
    BY <1>2 DEF Insert
  <2>2. /\ Creates(r) /\ r \notin written /\ Target(r) = r
        /\ area => call[r].zone \in DOMAIN zones
    BY <2>1 DEF IInv, RequestInv, StepInv, Target
  <2>3. r \notin DOMAIN zones
    BY <2>2 DEF IInv, TableInv
  <2>4. /\ DOMAIN zones' = DOMAIN zones \cup {r}
        /\ zones'[r] = row
        /\ \A z \in DOMAIN zones : zones'[z] = zones[z]
    BY <2>1, <2>3
  <2>5. Writes(r)
    <3>1. row.fields = Body(r)
      OBVIOUS
    <3> HIDE DEF row
    <3> QED
      BY <2>1, <2>2, <2>3, <2>4, <3>1 DEF Writes, Wrote
  <2>6. row \in ZoneRows
    <3>1. Body(r)["city"] \in Values \cup {Unset}
      <4>1. CASE area
        BY <4>1, ZonesAssumption DEF Body, IInv, TypeOK
      <4>2. CASE ~area
        BY <4>2, <1>2, CallType DEF IInv, Fields
      <4> QED
        BY <4>1, <4>2
    <3>2. Body(r) \in Contents /\ \A f \in {"name", "boundary"} : Body(r)[f] # Unset
      <4>1. Body(r) \in [Fields -> Values \cup {Unset, Bad}]
        BY CallType DEF IInv
      <4>2. \A f \in {"name", "boundary"} : Body(r)[f] \in Values
        BY <1>2, <4>1 DEF Fields
      <4>3. \A f \in Fields : Body(r)[f] \in Values \cup {Unset}
        BY <3>1, <4>2 DEF Fields
      <4>4. \A f \in {"name", "boundary"} : Body(r)[f] # Unset
        BY <4>2, ZonesAssumption
      <4> QED
        BY <4>1, <4>3, <4>4 DEF Contents
    <3>3. /\ row.region \in ZoneIds \cup {Nothing}
          /\ area => row.region # Nothing
      BY <2>2, ZonesAssumption DEF IInv, TypeOK
    <3>4. ~area => Body(r)["city"] # Unset
      BY <1>2 DEF Fields
    <3> QED
      BY <3>2, <3>3, <3>4 DEF ZoneRows, Fields
  <2>7. zones' \in [DOMAIN zones' -> ZoneRows]
    <3> HIDE DEF row
    <3>1. \A z \in DOMAIN zones : zones[z] \in ZoneRows
      BY DEF IInv, TypeOK
    <3> QED
      BY <2>1, <2>4, <2>6, <3>1
  <2>8. DOMAIN zones' \subseteq ZoneIds
    BY <2>4 DEF IInv, TypeOK, ZoneIds
  <2> QED
    BY <2>1, <2>5, <2>7, <2>8
<1> QED
  BY <1>1, <1>2

LEMMA UpdatesWrite ==
    ASSUME IInv, NEW r \in Requests, Update(r)
    PROVE  \/ NoWrite /\ End(r, CaughtError)
           \/ /\ Writes(r) /\ GoTo(r, "readBack")
              /\ zones' \in [DOMAIN zones' -> ZoneRows]
              /\ DOMAIN zones' \subseteq ZoneIds
<1> DEFINE stop == \/ \A f \in Fields : Body(r)[f] = Unset
                   \/ \E f \in Fields : Body(r)[f] = Bad
           t == Target(r)
           new == [f \in Fields |-> IF Body(r)[f] = Unset THEN zones[t].fields[f]
                                                          ELSE Body(r)[f]]
<1>1. CASE stop
  BY <1>1 DEF Update, NoWrite
<1>2. CASE ~stop
  <2>1. /\ zones' = [zones EXCEPT ![t].fields = new]
        /\ Wrote(r) /\ GoTo(r, "readBack") /\ pc[r] = "update"
    BY <1>2 DEF Update
  <2>2. Updates(r) /\ r \notin written /\ t \in DOMAIN zones
    BY <2>1 DEF IInv, RequestInv, StepInv, Target, Updates, Creates
  <2>3. /\ zones \in [DOMAIN zones -> ZoneRows]
        /\ zones[t] \in [region : ZoneIds \cup {Nothing}, fields : Contents]
    BY <2>2 DEF IInv, TypeOK, ZoneRows
  <2>4. /\ DOMAIN zones' = DOMAIN zones
        /\ zones'[t].region = zones[t].region /\ zones'[t].fields = new
        /\ zones'[t] \in [region : {zones[t].region}, fields : {new}]
        /\ \A z \in DOMAIN zones : z # t => zones'[z] = zones[z]
    <3> HIDE DEF new
    <3> QED
      BY <2>1, <2>2, <2>3
  <2>5. Writes(r)
    <3>1. \A f \in Fields : new[f] = IF Body(r)[f] # Unset THEN Body(r)[f]
                                                          ELSE zones[t].fields[f]
      OBVIOUS
    <3> HIDE DEF new
    <3> QED
      BY <2>1, <2>2, <2>4, <3>1 DEF Writes, Wrote
  <2>6. zones'[t] \in ZoneRows
    <3>1. Body(r) \in [Fields -> Values \cup {Unset, Bad}] /\ \A f \in Fields : Body(r)[f] # Bad
      BY <1>2, CallType DEF IInv
    <3>2. new \in Contents
      BY <2>3, <3>1 DEF Contents
    <3>3. \A f \in Fields : new[f] = Unset => zones[t].fields[f] = Unset
      OBVIOUS
    <3>4. \A f \in Fields : zones[t].fields[f] = Unset => f = "city" /\ zones[t].region # Nothing
      BY <2>2 DEF IInv, TypeOK, ZoneRows
    <3> HIDE DEF new
    <3> QED
      BY <2>3, <2>4, <3>2, <3>3, <3>4 DEF ZoneRows
  <2>7. zones' \in [DOMAIN zones' -> ZoneRows]
    BY <2>1, <2>3, <2>4, <2>6
  <2> QED
    BY <2>1, <2>4, <2>5, <2>7 DEF IInv, TypeOK
<1> QED
  BY <1>1, <1>2

\* Any step writes nothing, or is the write of one request.
LEMMA StepsWrite ==
    ASSUME IInv, [Next]_vars
    PROVE  NoWrite \/ \E r \in Requests : Writes(r)
<1>1. CASE \E r \in Requests : Insert(r)
  BY <1>1, Inserts
<1>2. CASE \E r \in Requests : Update(r)
  BY <1>2, UpdatesWrite
<1>3. CASE \E r \in Requests :
             \/ Guards(r) \/ Find(r) \/ ReadBack(r) \/ Count(r) \/ FindRows(r)
             \/ Answer(r) \/ Fail(r)
  BY <1>3 DEF NoWrite, Guards, Find, ReadBack, Count, FindRows, Answer, Fail, history
<1>4. CASE Crash \/ UNCHANGED vars
  BY <1>4 DEF NoWrite, Crash, vars, history
<1> QED
  BY <1>1, <1>2, <1>3, <1>4 DEF Next

\* What no step takes away.
Grows ==
    /\ call' = call
    /\ DOMAIN zones \subseteq DOMAIN zones'
    /\ \A z \in DOMAIN zones : zones'[z].region = zones[z].region
    /\ written \subseteq written' /\ after \subseteq after'

LEMMA StepsGrow == IInv /\ [Next]_vars => Grows
<1> SUFFICES ASSUME IInv, [Next]_vars PROVE Grows
  OBVIOUS
<1>1. call' = call
  BY DEF Next, Guards, Find, Insert, Update, ReadBack, Count, FindRows, Answer, Fail, Crash, vars
<1>2. CASE NoWrite
  BY <1>1, <1>2 DEF Grows, NoWrite
<1>3. CASE \E r \in Requests : Writes(r)
  BY <1>1, <1>3 DEF Grows, Writes
<1> QED
  BY <1>2, <1>3, StepsWrite

\* The writes stay in one order, and of rows that are there.
LEMMA TablesStaySound ==
    ASSUME IInv, [Next]_vars
    PROVE  OrderInv' /\ TableInv'
<1>1. Grows
  BY StepsGrow
<1>2. CASE NoWrite
  BY <1>1, <1>2 DEF IInv, NoWrite, Grows, OrderInv, TableInv, Target, Creates
<1>3. ASSUME NEW r \in Requests, Writes(r) PROVE OrderInv' /\ TableInv'
  <2>1. \A q \in Requests : Target(q)' = Target(q)
    BY <1>1 DEF Grows, Target, Creates
  <2>2. OrderInv'
    BY <1>3 DEF IInv, OrderInv, Writes
  <2>3. TableInv'
    BY <1>3, <2>1 DEF IInv, TypeOK, TableInv, Writes
  <2> QED
    BY <2>2, <2>3
<1> QED
  BY <1>2, <1>3, StepsWrite

\* Each field keeps what the last request that wrote it gave it.
LEMMA FieldsStayLatest ==
    ASSUME IInv, [Next]_vars
    PROVE  FieldsAreLatest'
<1>1. Grows
  BY StepsGrow
<1>2. \A q \in Requests : Target(q)' = Target(q) /\ Body(q)' = Body(q)
  BY <1>1 DEF Grows, Target, Creates, Body
<1>3. CASE NoWrite
  BY <1>2, <1>3 DEF IInv, NoWrite, FieldsAreLatest, Gave, Original
<1>4. ASSUME NEW r \in Requests, Writes(r) PROVE FieldsAreLatest'
  <2> SUFFICES ASSUME NEW z \in DOMAIN zones', NEW f \in Fields
               PROVE  \/ /\ zones'[z].fields[f] = Original(z, f)
                         /\ \A q \in Requests : ~Gave(q, z, f)'
                      \/ \E q \in Requests :
                            /\ Gave(q, z, f)' /\ zones'[z].fields[f] = Body(q)[f]
                            /\ \A p \in Requests : Gave(p, z, f)' => <<q, p>> \notin after'
    BY <1>2 DEF FieldsAreLatest, Original
  <2>1. /\ r \notin written /\ written' = written \cup {r}
        /\ after' = after \cup (written \X {r})
        /\ after \subseteq written \X written /\ written \subseteq Requests
    BY <1>4 DEF Writes, IInv, TypeOK
  <2>2. \A q \in Requests \ {r} : Gave(q, z, f)' = Gave(q, z, f)
    BY <1>2, <2>1 DEF Gave
  <2>3. CASE z = Target(r) /\ Body(r)[f] # Unset
    <3>1. Gave(r, z, f)' /\ zones'[z].fields[f] = Body(r)[f]
      BY <1>2, <1>4, <2>1, <2>3 DEF Gave, Writes
    <3>2. \A p \in Requests : <<r, p>> \notin after'
      BY <2>1
    <3> QED
      BY <3>1, <3>2
  <2>4. CASE ~(z = Target(r) /\ Body(r)[f] # Unset)
    <3>1. \A q \in Requests : Gave(q, z, f)' = Gave(q, z, f)
      BY <1>2, <2>1, <2>2, <2>4 DEF Gave
    <3>2. CASE z \in DOMAIN zones
      <4>1. zones'[z].fields[f] = zones[z].fields[f]
        BY <1>4, <2>4, <3>2 DEF Writes
      <4>2. \A q, p \in Requests : Gave(p, z, f) /\ <<q, p>> \notin after => <<q, p>> \notin after'
        BY <2>1 DEF Gave
      <4>3. \/ zones[z].fields[f] = Original(z, f) /\ \A q \in Requests : ~Gave(q, z, f)
            \/ \E q \in Requests :
                  /\ Gave(q, z, f) /\ zones[z].fields[f] = Body(q)[f]
                  /\ \A p \in Requests : Gave(p, z, f) => <<q, p>> \notin after
        BY <3>2 DEF IInv, FieldsAreLatest
      <4> QED
        BY <3>1, <4>1, <4>2, <4>3
    <3>3. CASE z \notin DOMAIN zones
      <4>1. z = r /\ zones'[z].fields[f] = Unset
        BY <1>4, <2>4, <3>3 DEF Writes
      <4>2. \A q \in Requests : ~Gave(q, z, f)
        BY <3>3 DEF Gave, IInv, TableInv
      <4>3. Original(z, f) = Unset
        BY <4>1, ZonesAssumption DEF Original
      <4> QED
        BY <3>1, <4>1, <4>2, <4>3
    <3> QED
      BY <3>2, <3>3
  <2> QED
    BY <2>3, <2>4
<1> QED
  BY <1>3, <1>4, StepsWrite

-----------------------------------------------------------------------------
(* Types *)

LEMMA TypeInit == Init => TypeOK
  BY ZonesAssumption DEF Init, TypeOK, ZoneIds, Phases, Contents, Envelopes

LEMMA TypeNext ==
    ASSUME IInv, [Next]_vars
    PROVE  TypeOK'
<1> USE DEF IInv, TypeOK
<1>1. ASSUME NEW r \in Requests, Guards(r) PROVE TypeOK'
  BY <1>1 DEF Guards, GoTo, End, FirstStep, Phases, Envelopes, reply
<1>2. ASSUME NEW r \in Requests, Find(r) PROVE TypeOK'
  <2>1. IsArea(call[r].zone) \/ IsRegion(call[r].zone) => zones[call[r].zone].fields \in Contents
    BY DEF IsArea, IsRegion, ZoneRows
  <2>2. pc[r] = "find" => call[r].op \in {"updateRegion", "findRegion", "createArea",
                                         "updateArea", "findArea", "findAreas"}
    BY CallType DEF RequestInv, StepInv, Calls, Lists
  <2>3. pc[r] = "find" => AfterFind(call[r].op) \in Phases
    BY <2>2 DEF AfterFind, Phases
  <2>4. /\ pc' \in [Requests -> Phases] /\ answer' \in [Requests -> Envelopes]
        /\ shown' \in [Requests -> Contents]
    BY <1>2, <2>1, <2>3 DEF Find, GoTo, End, Phases, Envelopes
  <2> QED
    BY <1>2, <2>4 DEF Find, history
<1>3. ASSUME NEW r \in Requests, Writes(r), GoTo(r, "readBack"),
             zones' \in [DOMAIN zones' -> ZoneRows], DOMAIN zones' \subseteq ZoneIds,
             UNCHANGED <<call, reply, before>>
      PROVE  TypeOK'
  BY <1>3 DEF Writes, GoTo, Phases, reply
<1>4. ASSUME NEW r \in Requests, NoWrite, End(r, CaughtError), UNCHANGED <<call, reply, before>>
      PROVE  TypeOK'
  BY <1>4 DEF NoWrite, End, Phases, Envelopes, reply
<1>5. ASSUME NEW r \in Requests, Insert(r) \/ Update(r) PROVE TypeOK'
  <2>1. UNCHANGED <<call, reply, before>>
    BY <1>5 DEF Insert, Update
  <2> QED
    BY <1>3, <1>4, <1>5, <2>1, Inserts, UpdatesWrite
<1>6. ASSUME NEW r \in Requests, ReadBack(r) PROVE TypeOK'
  <2>1. Target(r) \in DOMAIN zones => zones[Target(r)].fields \in Contents
    BY DEF ZoneRows
  <2> QED
    BY <1>6, <2>1 DEF ReadBack, GoTo, End, Phases, Envelopes, history
<1>7. ASSUME NEW r \in Requests, Count(r) PROVE TypeOK'
  <2>1. IsFiniteSet(Listed(r))
    <3>1. IsFiniteSet(ZoneIds)
      BY ZonesAssumption, FS_Union DEF ZoneIds
    <3>2. Listed(r) \in SUBSET ZoneIds
      BY DEF Listed
    <3> QED
      BY <3>1, <3>2, FS_Subset
  <2>2. Cardinality(Listed(r)) \in Nat
    BY <2>1, FS_CardinalityType
  <2> QED
    BY <1>7, <2>2 DEF Count, GoTo, Phases, history
<1>8. ASSUME NEW r \in Requests, FindRows(r) PROVE TypeOK'
  <2>1. \E S \in SUBSET DOMAIN zones : items' = [items EXCEPT ![r] = S]
    BY <1>8 DEF FindRows, Listed
  <2> QED
    BY <1>8, <2>1 DEF FindRows, GoTo, Phases, history
<1>9. ASSUME NEW r \in Requests, Answer(r) \/ Fail(r) PROVE TypeOK'
  BY <1>9 DEF Answer, Fail, GoTo, End, Phases, Envelopes, reply, history
<1>10. CASE Crash
  BY <1>10 DEF Crash, Phases, reply, history
<1>11. CASE UNCHANGED vars
  BY <1>11 DEF vars, reply, history
<1> QED
  BY <1>1, <1>2, <1>5, <1>6, <1>7, <1>8, <1>9, <1>10, <1>11 DEF Next

-----------------------------------------------------------------------------
(* Pages *)

\* The elements that a one-to-one rank function gives the ranks a+1 to b are
\* b - a in number.
LEMMA RanksAreDense ==
    ASSUME NEW S, IsFiniteSet(S), NEW rank \in [S -> 1 .. Cardinality(S)],
           \A x, y \in S : rank[x] = rank[y] => x = y,
           NEW a \in Nat, NEW b \in Nat, a <= b, b <= Cardinality(S),
           NEW T \in SUBSET S, \A x \in S : x \in T <=> a < rank[x] /\ rank[x] <= b
    PROVE  Cardinality(T) = b - a
<1> DEFINE n == Cardinality(S)
           g == [x \in T |-> rank[x]]
<1>1. n \in Nat
  BY FS_CardinalityType
<1>2. IsFiniteSet(1 .. n) /\ Cardinality(1 .. n) = n
  BY <1>1, FS_Interval
<1>3. rank \in Injection(S, 1 .. n)
  BY DEF Injection, IsInjective
<1>4. rank \in Surjection(S, 1 .. n)
  BY <1>2, <1>3, FS_Injection
<1>5. g \in [T -> a + 1 .. b]
  BY <1>1
<1>6. \A x, y \in T : g[x] = g[y] => x = y
  OBVIOUS
<1>7. \A k \in a + 1 .. b : \E x \in T : g[x] = k
  <2> TAKE k \in a + 1 .. b
  <2>1. k \in 1 .. n
    BY <1>1
  <2>2. PICK x \in S : rank[x] = k
    BY <1>4, <2>1 DEF Surjection
  <2> QED
    BY <2>2
<1>8. IsFiniteSet(a + 1 .. b) /\ Cardinality(a + 1 .. b) = b - a
  <2>1. a + 1 \in Int /\ b \in Int
    OBVIOUS
  <2>2. /\ IsFiniteSet(a + 1 .. b)
        /\ Cardinality(a + 1 .. b) = IF a + 1 > b THEN 0 ELSE b - (a + 1) + 1
    BY <2>1, FS_Interval
  <2> QED
    BY <2>2
<1>9. g \in Injection(T, a + 1 .. b) /\ g \in Surjection(T, a + 1 .. b)
  BY <1>5, <1>6, <1>7 DEF Injection, Surjection, IsInjective
<1> HIDE DEF g
<1>10. IsFiniteSet(T) /\ Cardinality(T) = Cardinality(a + 1 .. b)
  BY <1>8, <1>9, FS_Injection
<1> QED
  BY <1>8, <1>10

\* A page is full, or it is the last.
LEMMA PagesAreFull ==
    ASSUME IInv, NEW r \in Requests, NEW rank \in Orders(Listed(r)),
           NEW T, T = {z \in Listed(r) : First(r) < rank[z] /\ rank[z] <= First(r) + call[r].limit}
    PROVE  Cardinality(T) = call[r].limit \/ First(r) + Cardinality(T) >= Cardinality(Listed(r))
<1> DEFINE S == Listed(r)
           n == Cardinality(S)
           limit == call[r].limit
           a == IF First(r) <= n THEN First(r) ELSE n
           b == IF First(r) + limit <= n THEN First(r) + limit ELSE n
<1>1. IsFiniteSet(S) /\ n \in Nat
  <2>1. IsFiniteSet(ZoneIds)
    BY ZonesAssumption, FS_Union DEF ZoneIds
  <2>2. S \in SUBSET ZoneIds
    BY DEF Listed, IInv, TypeOK
  <2> QED
    BY <2>1, <2>2, FS_Subset, FS_CardinalityType
<1>2. First(r) \in Nat /\ limit \in Nat
  BY CallType DEF IInv
<1>3. /\ rank \in [S -> 1 .. n]
      /\ \A x, y \in S : rank[x] = rank[y] => x = y
  BY DEF Orders
<1>4. a \in Nat /\ b \in Nat /\ a <= b /\ b <= n
  BY <1>1, <1>2
<1>5. T = {z \in S : a < rank[z] /\ rank[z] <= b}
  <2>1. \A z \in S : rank[z] \in 1 .. n
    BY <1>3
  <2> QED
    BY <1>1, <1>2, <2>1
<1> HIDE DEF S, a, b
<1>6. Cardinality(T) = b - a
  <2>1. T \in SUBSET S /\ \A z \in S : z \in T <=> a < rank[z] /\ rank[z] <= b
    BY <1>5
  <2> QED
    BY <1>1, <1>3, <1>4, <2>1, RanksAreDense
<1>7. ASSUME NEW m \in Nat, NEW k \in Nat, NEW l \in Nat, NEW c,
             c = (IF k + l <= m THEN k + l ELSE m) - (IF k <= m THEN k ELSE m)
      PROVE  c = l \/ k + c >= m
  BY <1>7
<1> QED
  BY <1>1, <1>2, <1>6, <1>7 DEF S, a, b

\* A list never gets shorter.
LEMMA ListsGrow ==
    ASSUME IInv, TypeOK', Grows, NEW r \in Requests, IsList(r)
    PROVE  /\ Cardinality(Listed(r)) \in Nat /\ Cardinality(Listed(r)') \in Nat
           /\ Cardinality(Listed(r)) <= Cardinality(Listed(r)')
<1>1. Listed(r) \in SUBSET (Listed(r)')
  <2>1. \A z \in DOMAIN zones : z \in DOMAIN zones' /\ zones'[z].region = zones[z].region
    BY DEF Grows
  <2>2. call' = call
    BY DEF Grows
  <2> QED
    BY <2>1, <2>2 DEF Listed, IsRegion
<1>2. IsFiniteSet(Listed(r)')
  <2>1. IsFiniteSet(ZoneIds)
    BY ZonesAssumption, FS_Union DEF ZoneIds
  <2>2. Listed(r)' \in SUBSET ZoneIds
    BY DEF Listed, TypeOK
  <2> QED
    BY <2>1, <2>2, FS_Subset
<1> QED
  BY <1>1, <1>2, FS_Subset, FS_CardinalityType

-----------------------------------------------------------------------------
(* Requests *)

\* What an answer may show stays so, whoever writes after it.
LEMMA TruthStays ==
    ASSUME IInv, TypeOK', Grows, NEW r \in Requests, shown'[r] = shown[r], Truth(r)
    PROVE  Truth(r)'
<1>1. \A q \in Requests :
         /\ Body(q)' = Body(q) /\ Target(q)' = Target(q)
         /\ Creates(q)' = Creates(q) /\ Updates(q)' = Updates(q)
  BY DEF Grows, Body, Target, Creates, Updates
<1>2. SUFFICES ASSUME Creates(r) \/ Updates(r)
               PROVE  /\ r \in written'
                      /\ \A f \in Fields : Gave(r, Target(r), f)' =>
                            \E q \in Requests :
                               /\ Gave(q, Target(r), f)' /\ shown'[r][f] = Body(q)[f]
                               /\ q = r \/ <<r, q>> \in after'
  BY <1>1 DEF Truth
<1>3. r \in written
  BY <1>2 DEF Truth
<1>4. ASSUME NEW f \in Fields, Gave(r, Target(r), f)'
      PROVE  \E q \in Requests :
                /\ Gave(q, Target(r), f)' /\ shown'[r][f] = Body(q)[f]
                /\ q = r \/ <<r, q>> \in after'
  <2>1. Gave(r, Target(r), f)
    BY <1>1, <1>3, <1>4 DEF Gave
  <2>2. PICK q \in Requests :
           /\ Gave(q, Target(r), f) /\ shown[r][f] = Body(q)[f]
           /\ q = r \/ <<r, q>> \in after
    BY <1>2, <2>1 DEF Truth
  <2>3. written \subseteq written' /\ after \subseteq after'
    BY DEF Grows
  <2>4. q \in written /\ Target(q) = Target(r) /\ Body(q)[f] # Unset
    BY <2>2 DEF Gave
  <2>5. Gave(q, Target(r), f)'
    BY <1>1, <2>3, <2>4 DEF Gave
  <2> QED
    BY <2>2, <2>3, <2>5
<1> QED
  BY <1>3, <1>4 DEF Grows

LEMMA FitsStays ==
    ASSUME Grows, NEW r \in Requests, items'[r] = items[r], total'[r] = total[r], Fits(r)
    PROVE  Fits(r)'
  BY DEF Grows, Fits, IsList, First

\* A request keeps what it knows while it does not move, or when it dies.
LEMMA OthersKeep ==
    ASSUME IInv, TypeOK', Grows, NEW r \in Requests,
           pc'[r] \in {pc[r], "done"}, shown'[r] = shown[r], total'[r] = total[r],
           items'[r] = items[r], answer'[r] = answer[r], before'[r] = before[r],
           r \in written' => r \in written
    PROVE  StepInv(r)' /\ AnswerInv(r)'
<1>1. StepInv(r) /\ AnswerInv(r)
  BY DEF IInv, RequestInv
<1>2. call' = call /\ DOMAIN zones \subseteq DOMAIN zones' /\ written \subseteq written'
  BY DEF Grows
<1>3. /\ Creates(r)' = Creates(r) /\ Updates(r)' = Updates(r)
      /\ IsList(r)' = IsList(r)
  BY <1>2 DEF Creates, Updates, IsList
<1>4. (Truth(r) => Truth(r)') /\ (Fits(r) => Fits(r)')
  BY TruthStays, FitsStays
<1>5. IsList(r) /\ total[r] <= Cardinality(Listed(r)) => total'[r] <= Cardinality(Listed(r)')
  <2>1. total[r] \in Nat
    BY DEF IInv, TypeOK
  <2> QED
    BY <2>1, ListsGrow
<1>6. StepInv(r)'
  BY <1>1, <1>2, <1>3, <1>4, <1>5 DEF StepInv
<1>7. /\ call[r].zone \in before[r] => call[r].zone \in DOMAIN zones
      /\ call[r].zone \in DOMAIN zones => IsRegion(call[r].zone)' = IsRegion(call[r].zone)
  BY <1>2 DEF IInv, TypeOK, IsRegion, Grows
<1>8. AnswerInv(r)'
  <2>1. answer'[r] = answer[r] /\ (pc'[r] # "done" => answer'[r] = NoAnswer)
    BY <1>1 DEF AnswerInv
  <2>2. answer'[r].success => Truth(r)' /\ Fits(r)'
    BY <1>1, <1>4 DEF AnswerInv
  <2>3. answer'[r].code \in Refusals => r \notin written'
    BY <1>1 DEF AnswerInv
  <2>4. answer'[r].code = "NOT_FOUND" =>
          \/ call'[r].zone \notin before'[r]
          \/ IsRegion(call[r].zone)' = (call'[r].op \in {"updateArea", "findArea"})
    BY <1>1, <1>2, <1>7 DEF AnswerInv
  <2> QED
    BY <1>2, <2>1, <2>2, <2>3, <2>4 DEF AnswerInv
<1> QED
  BY <1>6, <1>8

\* A request that ends with an exception.
LEMMA Throws ==
    ASSUME IInv, TypeOK', Grows, NEW r \in Requests, NEW e \in Envelopes, End(r, e),
           e.success = FALSE, e.code \in Refusals => r \notin written',
           e.code = "NOT_FOUND" =>
              \/ call[r].zone \notin before'[r]
              \/ IsRegion(call[r].zone)' = (call[r].op \in {"updateArea", "findArea"})
    PROVE  StepInv(r)' /\ AnswerInv(r)'
<1>1. pc'[r] = "done" /\ answer'[r] = e /\ call' = call
  BY DEF End, IInv, TypeOK, Grows
<1> QED
  BY <1>1 DEF StepInv, AnswerInv

\* A request that reads and goes on.
LEMMA Advances ==
    ASSUME IInv, TypeOK', Grows, NEW r \in Requests, NEW next \in Phases \ {"done"},
           pc[r] # "done", GoTo(r, next), StepInv(r)'
    PROVE  AnswerInv(r)'
<1>1. answer'[r] = NoAnswer /\ NoAnswer.success = FALSE /\ NoAnswer.code \notin Refusals
  BY EnvelopeFacts DEF GoTo, IInv, RequestInv, AnswerInv
<1>2. NoAnswer.code # "NOT_FOUND"
  BY <1>1 DEF Refusals
<1> QED
  BY <1>1, <1>2 DEF AnswerInv

\* The row that a request reads back shows its own write or a later one.
LEMMA ReadBackShows ==
    ASSUME IInv, NEW r \in Requests, pc[r] = "readBack",
           shown'[r] = zones[Target(r)].fields, UNCHANGED <<call, written, after>>
    PROVE  Truth(r)'
<1>1. r \in written /\ Target(r) \in DOMAIN zones
  BY DEF IInv, RequestInv, StepInv, TableInv
<1>2. ASSUME NEW f \in Fields, Gave(r, Target(r), f)
      PROVE  \E q \in Requests :
                /\ Gave(q, Target(r), f) /\ shown'[r][f] = Body(q)[f]
                /\ q = r \/ <<r, q>> \in after
  <2>1. PICK q \in Requests :
           /\ Gave(q, Target(r), f) /\ zones[Target(r)].fields[f] = Body(q)[f]
           /\ \A p \in Requests : Gave(p, Target(r), f) => <<q, p>> \notin after
    BY <1>1, <1>2 DEF IInv, FieldsAreLatest
  <2>2. q \in written /\ <<q, r>> \notin after
    BY <1>2, <2>1 DEF Gave
  <2>3. q = r \/ <<r, q>> \in after
    BY <1>1, <2>2 DEF IInv, OrderInv
  <2> QED
    BY <2>1, <2>3
<1> QED
  BY <1>1, <1>2 DEF Truth, Gave, Target, Creates, Updates, Body

LEMMA RequestsStay ==
    ASSUME IInv, [Next]_vars
    PROVE  RequestInv'
<1>1. TypeOK' /\ Grows
  BY TypeNext, StepsGrow
<1>2. ASSUME NEW r \in Requests,
             \/ Guards(r) \/ Find(r) \/ Insert(r) \/ Update(r) \/ ReadBack(r)
             \/ Count(r) \/ FindRows(r) \/ Answer(r) \/ Fail(r),
             StepInv(r)' /\ AnswerInv(r)'
      PROVE  RequestInv'
  <2> SUFFICES ASSUME NEW q \in Requests, q # r PROVE StepInv(q)' /\ AnswerInv(q)'
    BY <1>2 DEF RequestInv
  <2>1. /\ pc'[q] = pc[q] /\ shown'[q] = shown[q] /\ total'[q] = total[q]
        /\ items'[q] = items[q] /\ answer'[q] = answer[q] /\ before'[q] = before[q]
        /\ q \in written' => q \in written
    BY <1>2 DEF Guards, Find, Insert, Update, ReadBack, Count, FindRows, Answer, Fail, Wrote,
                GoTo, End, reply, history, IInv, TypeOK
  <2> QED
    BY <1>1, <2>1, OthersKeep
<1>3. ASSUME NEW r \in Requests, Guards(r) PROVE StepInv(r)' /\ AnswerInv(r)'
  <2>1. pc[r] = "called" /\ r \notin written /\ r \notin written' /\ call' = call
    BY <1>3 DEF Guards, IInv, RequestInv, StepInv
  <2>2. CASE \E s \in {400, 401, 403, 429} : End(r, Caught(s))
    <3>1. PICK s \in {400, 401, 403, 429} : End(r, Caught(s))
      BY <2>2
    <3>2. Caught(s) \in Envelopes /\ Caught(s).success = FALSE /\ Caught(s).code # "NOT_FOUND"
      BY EnvelopeFacts DEF Envelopes
    <3> QED
      BY <1>1, <2>1, <3>1, <3>2, Throws
  <2>3. CASE GoTo(r, FirstStep(call[r].op))
    <3>1. /\ FirstStep(call[r].op) \in {"insert", "count", "find"}
          /\ FirstStep(call[r].op) = "insert" => call[r].op = "createRegion"
          /\ FirstStep(call[r].op) = "count" => call[r].op = "findRegions"
          /\ FirstStep(call[r].op) = "find" => call[r].op \notin {"createRegion", "findRegions"}
      BY DEF FirstStep
    <3>2. pc'[r] = FirstStep(call[r].op)
      BY <2>3 DEF GoTo, IInv, TypeOK
    <3>3. StepInv(r)'
      BY <2>1, <3>1, <3>2 DEF StepInv, Creates, Lists
    <3> QED
      BY <1>1, <2>1, <2>3, <3>1, <3>3, Advances DEF Phases
  <2> QED
    BY <1>3, <2>2, <2>3 DEF Guards
<1>4. ASSUME NEW r \in Requests, Find(r) PROVE StepInv(r)' /\ AnswerInv(r)'
  <2> DEFINE z == call[r].zone
             op == call[r].op
             ofAreas == op \in {"updateArea", "findArea"}
  <2>1. /\ pc[r] = "find" /\ r \notin written
        /\ UNCHANGED <<zones, call, total, items, written, after, before>>
        /\ op \in {"updateRegion", "findRegion", "createArea", "updateArea", "findArea", "findAreas"}
    BY <1>4, CallType DEF Find, history, IInv, RequestInv, StepInv, Calls, Lists
  <2>2. CASE IF ofAreas THEN IsArea(z) ELSE IsRegion(z)
    <3>1. GoTo(r, AfterFind(op)) /\ z \in DOMAIN zones
      BY <1>4, <2>2 DEF Find, IsArea, IsRegion
    <3>2. /\ AfterFind(op) \in {"update", "insert", "count", "answer"}
          /\ AfterFind(op) = "update" => op \in {"updateRegion", "updateArea"}
          /\ AfterFind(op) = "insert" => op = "createArea"
          /\ AfterFind(op) = "count" => op = "findAreas"
          /\ AfterFind(op) = "answer" => op \in {"findRegion", "findArea"}
      BY <2>1 DEF AfterFind
    <3>3. pc'[r] = AfterFind(op)
      BY <3>1 DEF GoTo, IInv, TypeOK
    <3>4. AfterFind(op) = "answer" => Truth(r)' /\ Fits(r)'
      BY <2>1, <3>2 DEF Truth, Fits, Creates, Updates, IsList, Lists
    <3>5. StepInv(r)'
      BY <2>1, <3>1, <3>2, <3>3, <3>4 DEF StepInv, Creates, Updates, Lists
    <3> QED
      BY <1>1, <2>1, <3>1, <3>2, <3>5, Advances DEF Phases
  <2>3. CASE ~(IF ofAreas THEN IsArea(z) ELSE IsRegion(z))
    <3>1. End(r, Caught(404)) /\ Caught(404) \in Envelopes /\ Caught(404).success = FALSE
      BY <1>4, <2>3, EnvelopeFacts DEF Find, Envelopes
    <3>2. z \notin before'[r] \/ IsRegion(z)' = ofAreas
      BY <2>1, <2>3 DEF IInv, TypeOK, IsArea, IsRegion
    <3> QED
      BY <1>1, <2>1, <3>1, <3>2, Throws
  <2> QED
    BY <2>2, <2>3
<1>5. ASSUME NEW r \in Requests, Insert(r) \/ Update(r) PROVE StepInv(r)' /\ AnswerInv(r)'
  <2>1. /\ pc[r] \in {"insert", "update"} /\ (Creates(r) \/ Updates(r)) /\ r \notin written
        /\ call' = call
    BY <1>5 DEF Insert, Update, IInv, RequestInv, StepInv
  <2>2. CASE NoWrite /\ End(r, CaughtError)
    <3>1. CaughtError \in Envelopes /\ CaughtError.code # "NOT_FOUND"
      BY EnvelopeFacts DEF Envelopes, Refusals
    <3> QED
      BY <1>1, <2>2, <3>1, EnvelopeFacts, Throws
  <2>3. CASE Writes(r) /\ GoTo(r, "readBack")
    <3>1. pc'[r] = "readBack" /\ r \in written'
      BY <2>3 DEF GoTo, Writes, IInv, TypeOK
    <3>2. StepInv(r)'
      BY <2>1, <3>1 DEF StepInv, Creates, Updates
    <3> QED
      BY <1>1, <2>1, <2>3, <3>2, Advances DEF Phases
  <2> QED
    BY <1>5, <2>2, <2>3, Inserts, UpdatesWrite
<1>6. ASSUME NEW r \in Requests, ReadBack(r) PROVE StepInv(r)' /\ AnswerInv(r)'
  <2>1. /\ pc[r] = "readBack" /\ (Creates(r) \/ Updates(r)) /\ Target(r) \in DOMAIN zones
        /\ UNCHANGED <<zones, call, total, items, written, after, before>>
    BY <1>6 DEF ReadBack, history, IInv, RequestInv, StepInv, TableInv
  <2>2. shown'[r] = zones[Target(r)].fields /\ GoTo(r, "answer") /\ pc'[r] = "answer"
    BY <1>6, <2>1 DEF ReadBack, GoTo, IInv, TypeOK
  <2>3. Truth(r)'
    BY <2>1, <2>2, ReadBackShows
  <2>4. Fits(r)'
    BY <2>1 DEF Fits, IsList, Lists, Creates, Updates
  <2>5. StepInv(r)'
    BY <2>2, <2>3, <2>4 DEF StepInv
  <2> QED
    BY <1>1, <2>1, <2>2, <2>5, Advances DEF Phases
<1>7. ASSUME NEW r \in Requests, Count(r) PROVE StepInv(r)' /\ AnswerInv(r)'
  <2>1. /\ pc[r] = "count" /\ call[r].op \in Lists /\ GoTo(r, "findRows") /\ pc'[r] = "findRows"
        /\ total'[r] = Cardinality(Listed(r)) /\ UNCHANGED <<zones, call>>
    BY <1>7 DEF Count, GoTo, IInv, TypeOK, RequestInv, StepInv
  <2>2. IsList(r) => Cardinality(Listed(r)) \in Nat
    BY <1>1, ListsGrow
  <2>3. Listed(r)' = Listed(r) /\ IsList(r)' = IsList(r)
    BY <2>1 DEF Listed, IsRegion, IsList
  <2>4. IsList(r)' => total'[r] <= Cardinality(Listed(r)')
    BY <2>1, <2>2, <2>3
  <2>5. StepInv(r)'
    BY <2>1, <2>4 DEF StepInv
  <2> QED
    BY <1>1, <2>1, <2>5, Advances DEF Phases
<1>8. ASSUME NEW r \in Requests, FindRows(r) PROVE StepInv(r)' /\ AnswerInv(r)'
  <2>1. /\ pc[r] = "findRows" /\ call[r].op \in Lists /\ GoTo(r, "answer") /\ pc'[r] = "answer"
        /\ UNCHANGED <<zones, call, shown, total>>
    BY <1>8 DEF FindRows, GoTo, IInv, TypeOK, RequestInv, StepInv
  <2>2. PICK rank \in Orders(Listed(r)) :
           items'[r] = {z \in Listed(r) : First(r) < rank[z] /\ rank[z] <= First(r) + call[r].limit}
    BY <1>8 DEF FindRows, First, IInv, TypeOK
  <2>3. \/ Cardinality(items'[r]) = call[r].limit
        \/ First(r) + Cardinality(items'[r]) >= Cardinality(Listed(r))
    BY <2>2, PagesAreFull
  <2>4. IsFiniteSet(items'[r]) /\ Cardinality(items'[r]) \in Nat
    <3>1. IsFiniteSet(ZoneIds)
      BY ZonesAssumption, FS_Union DEF ZoneIds
    <3>2. items'[r] \in SUBSET ZoneIds
      BY <1>1 DEF TypeOK
    <3> QED
      BY <3>1, <3>2, FS_Subset, FS_CardinalityType
  <2>5. IsList(r) => total[r] <= Cardinality(Listed(r)) /\ Cardinality(Listed(r)) \in Nat
    BY <1>1, <2>1, ListsGrow DEF IInv, RequestInv, StepInv
  <2>6. total[r] \in Nat /\ First(r) \in Nat
    BY CallType DEF IInv, TypeOK
  <2>7. IsList(r) => \/ Cardinality(items'[r]) = call[r].limit
                    \/ First(r) + Cardinality(items'[r]) >= total[r]
    BY <2>3, <2>4, <2>5, <2>6
  <2>8. Fits(r)'
    BY <2>1, <2>7 DEF Fits, IsList, First
  <2>9. Truth(r)'
    BY <2>1 DEF Truth, Creates, Updates, Lists
  <2>10. StepInv(r)'
    BY <2>1, <2>8, <2>9 DEF StepInv
  <2> QED
    BY <1>1, <2>1, <2>10, Advances DEF Phases
<1>9. ASSUME NEW r \in Requests, Answer(r) PROVE StepInv(r)' /\ AnswerInv(r)'
  <2>1. PICK s \in {200, 201} : End(r, Intercepted(s))
    BY <1>9 DEF Answer
  <2>2. /\ pc'[r] = "done" /\ answer'[r] = Intercepted(s)
        /\ UNCHANGED <<zones, call, shown, total, items, written, after, before>>
    BY <1>9, <2>1 DEF Answer, End, reply, history, IInv, TypeOK
  <2>3. Truth(r) /\ Fits(r)
    BY <1>9 DEF Answer, IInv, RequestInv, StepInv
  <2>4. Truth(r)' /\ Fits(r)'
    BY <1>1, <2>2, <2>3, TruthStays, FitsStays
  <2>5. Intercepted(s).code \notin Refusals /\ Intercepted(s).code # "NOT_FOUND"
    BY EnvelopeFacts DEF Refusals
  <2> QED
    BY <2>2, <2>4, <2>5 DEF StepInv, AnswerInv
<1>10. ASSUME NEW r \in Requests, Fail(r) PROVE StepInv(r)' /\ AnswerInv(r)'
  <2>1. CaughtError \in Envelopes /\ CaughtError.code # "NOT_FOUND"
    BY EnvelopeFacts DEF Envelopes, Refusals
  <2> QED
    BY <1>1, <1>10, <2>1, EnvelopeFacts, Throws DEF Fail
<1>11. CASE Crash \/ UNCHANGED vars
  <2> SUFFICES ASSUME NEW q \in Requests PROVE StepInv(q)' /\ AnswerInv(q)'
    BY DEF RequestInv
  <2>1. /\ pc'[q] \in {pc[q], "done"} /\ shown'[q] = shown[q] /\ total'[q] = total[q]
        /\ items'[q] = items[q] /\ answer'[q] = answer[q] /\ before'[q] = before[q]
        /\ written' = written
    BY <1>11 DEF Crash, vars, reply, history
  <2> QED
    BY <1>1, <2>1, OthersKeep
<1> QED
  BY <1>2, <1>3, <1>4, <1>5, <1>6, <1>7, <1>8, <1>9, <1>10, <1>11 DEF Next

-----------------------------------------------------------------------------
(* Theorems *)

LEMMA InvInit == Init => IInv
<1> SUFFICES ASSUME Init PROVE IInv
  OBVIOUS
<1>1. TypeOK
  BY TypeInit
<1>2. OrderInv /\ TableInv
  BY ZonesAssumption DEF Init, OrderInv, TableInv
<1>3. FieldsAreLatest
  BY DEF Init, FieldsAreLatest, Gave, Original
<1>4. RequestInv
  <2> SUFFICES ASSUME NEW r \in Requests PROVE StepInv(r) /\ AnswerInv(r)
    BY DEF RequestInv
  <2>1. pc[r] = "called" /\ answer[r] = NoAnswer /\ r \notin written
    BY DEF Init
  <2>2. NoAnswer.code # "NOT_FOUND"
    BY EnvelopeFacts DEF Refusals
  <2> QED
    BY <2>1, <2>2, EnvelopeFacts DEF StepInv, AnswerInv
<1> QED
  BY <1>1, <1>2, <1>3, <1>4 DEF IInv

LEMMA InvNext == IInv /\ [Next]_vars => IInv'
  BY TypeNext, TablesStaySound, FieldsStayLatest, RequestsStay DEF IInv

LEMMA Invariance == Spec => []IInv
  BY InvInit, InvNext, PTL DEF Spec

\* Every variable of Zones keeps its type, and no row lacks a field.
THEOREM TypeCorrect == Spec => []TypeOK
<1>1. IInv => TypeOK
  BY DEF IInv
<1> QED
  BY <1>1, Invariance, PTL

\* No PATCH takes back what another one wrote between its read and its write.
THEOREM NoFieldIsLost == Spec => []FieldsAreLatest
<1>1. IInv => FieldsAreLatest
  BY DEF IInv
<1> QED
  BY <1>1, Invariance, PTL

\* Answers agree with the tables: what success shows was written by the request
\* or after it, and a refusal has written nothing.
THEOREM AnswersCanBeTrusted == Spec => []AnswersAreTruthful
<1>1. IInv => AnswersAreTruthful
  BY DEF IInv, RequestInv, AnswerInv, Truth, AnswersAreTruthful
<1> QED
  BY <1>1, Invariance, PTL

\* A page of all regions, or of a region's areas, is as long as its total says.
THEOREM PagesFitTheirTotals == Spec => []PageFitsTotal
<1>1. IInv => PageFitsTotal
  BY DEF IInv, RequestInv, AnswerInv, Fits, IsList, First, Lists, PageFitsTotal
<1> QED
  BY <1>1, Invariance, PTL
=============================================================================
