-------------------------- MODULE WalletReadsProofs --------------------------
(***************************************************************************)
(* The safety properties of WalletReads hold for every set of wallets,     *)
(* operations and readers.  Rows are only ever added, so a row's place in  *)
(* the list only moves towards its end, away from the pages a reader has   *)
(* left behind: whatever was in front of a page that has been read has     *)
(* been seen.                                                              *)
(***************************************************************************)
EXTENDS WalletReads, FiniteSetTheorems, TLAPS

\* How many rows come before page p, and how many until its end.
Start(r) == (page[r] - 1) * Limit(r)
End(r) == page[r] * Limit(r)

\* The place in the list of a row that shares its instant with no other.
Above(o, r) == {p \in Rows(r) : createdAt[p] >= createdAt[o]}
Place(o, r) == Cardinality(Above(o, r))

\* The rows known at the beginning that are among the first n are in S.
KnownAmong(r, n, S) ==
    \A o \in known[r] : Alone(o, r) /\ Place(o, r) <= n => o \in S

\* All the rows known at the beginning are in S.
AllKnownIn(r, S) == \A o \in known[r] : Alone(o, r) => o \in S

\* What the pages read so far have shown.
SeenInv(r) ==
    /\ pc[r] \notin {"received", "done"} => KnownAmong(r, Start(r), seen[r])
    /\ pc[r] \in {"count", "answer"} => KnownAmong(r, End(r), seen[r] \cup items[r])
    /\ pc[r] = "received" => KnownAmong(r, End(r), seen[r])

\* The page that is last in the reader's eyes is last for the known rows.
LastInv(r) ==
    /\ pc[r] = "count" /\ Cardinality(items[r]) < Limit(r) /\ (items[r] # {} \/ page[r] = 1)
          => AllKnownIn(r, seen[r] \cup items[r])
    /\ pc[r] = "answer" /\ total[r] <= End(r) => AllKnownIn(r, seen[r] \cup items[r])
    /\ pc[r] = "received" /\ total[r] <= End(r) => AllKnownIn(r, seen[r])
    /\ pc[r] = "done" => AllKnownIn(r, seen[r])

TotalInv(r) ==
    /\ pc[r] = "count" /\ items[r] # {} =>
          Start(r) + Cardinality(items[r]) <= Cardinality(Rows(r))
    /\ pc[r] \in {"answer", "received", "done"} =>
          /\ total[r] <= Cardinality(Rows(r))
          /\ items[r] # {} => Start(r) + Cardinality(items[r]) <= total[r]

WalkInv(r) == call[r].op = "transactions" => SeenInv(r) /\ LastInv(r) /\ TotalInv(r)

Reachable(r) ==
    \/ Unrestricted(Caller(r)) \/ OwnerOf(r) \in Caller(r).hubIds
    \/ HubsInScope(Caller(r), OwnerOf(r), during[r]) # {}

\* What has been checked of the caller by now, and whose rows are shown.
AccessInv(r) ==
    /\ pc[r] \in {"findRows", "count"} => call[r].op = "transactions"
    /\ pc[r] \in {"findWallet", "checkAccess"} => assigned \subseteq during[r]
    /\ pc[r] \in {"findRows", "count", "answer", "received"} => Reachable(r)
    /\ \A o \in items[r] \cup seen[r] \cup known[r] : call[r].wallet \in Parties[o]

Inv(r) == WalkInv(r) /\ AccessInv(r)
IInv == TypeOK /\ \A r \in Readers : Inv(r)

-----------------------------------------------------------------------------
(* Ranks *)

\* The elements that a one-to-one rank function gives the ranks a+1 to b are
\* b - a in number.
LEMMA RanksAreDense ==
    ASSUME NEW S, IsFiniteSet(S), NEW rank \in [S -> 1 .. Cardinality(S)],
           \A x, y \in S : rank[x] = rank[y] => x = y,
           NEW a \in Nat, NEW b \in Nat, a <= b, b <= Cardinality(S),
           NEW T, T = {x \in S : a < rank[x] /\ rank[x] <= b}
    PROVE  Cardinality(T) = b - a
<1> DEFINE n == Cardinality(S)
           g == [x \in T |-> rank[x]]
<1>1. n \in Nat
  BY FS_CardinalityType
<1>2. IsFiniteSet(1 .. n) /\ Cardinality(1 .. n) = n
  BY <1>1, FS_Interval
<1>3. rank \in Injection(S, 1 .. n)
  BY DEF Injection, IsInjective
<1>4. rank \in Surjection(S, 1 .. n)
  BY <1>2, <1>3, FS_Injection
<1>5. g \in [T -> a + 1 .. b]
  BY <1>1
<1>6. \A x, y \in T : g[x] = g[y] => x = y
  OBVIOUS
<1>7. \A k \in a + 1 .. b : \E x \in T : g[x] = k
  <2> TAKE k \in a + 1 .. b
  <2>1. k \in 1 .. n
    BY <1>1
  <2>2. PICK x \in S : rank[x] = k
    BY <1>4, <2>1 DEF Surjection
  <2> QED
    BY <2>2
<1>8. IsFiniteSet(a + 1 .. b) /\ Cardinality(a + 1 .. b) = b - a
  <2>1. a + 1 \in Int /\ b \in Int
    OBVIOUS
  <2>2. /\ IsFiniteSet(a + 1 .. b)
        /\ Cardinality(a + 1 .. b) = IF a + 1 > b THEN 0 ELSE b - (a + 1) + 1
    BY <2>1, FS_Interval
  <2> QED
    BY <2>2
<1>9. g \in Injection(T, a + 1 .. b) /\ g \in Surjection(T, a + 1 .. b)
  BY <1>5, <1>6, <1>7 DEF Injection, Surjection, IsInjective
<1> HIDE DEF g
<1>10. IsFiniteSet(T) /\ Cardinality(T) = Cardinality(a + 1 .. b)
  BY <1>8, <1>9, FS_Injection
<1> QED
  BY <1>8, <1>10

\* The committed rows of a wallet are finitely many.
LEMMA RowsAreFinite ==
    ASSUME TypeOK, NEW r \in Readers
    PROVE  IsFiniteSet(Rows(r)) /\ Cardinality(Rows(r)) \in Nat
<1>1. Rows(r) \in SUBSET Operations
  BY DEF Rows, TypeOK
<1>2. IsFiniteSet(Rows(r))
  BY <1>1, FS_Subset, WalletReadsAssumption
<1> QED
  BY <1>2, FS_CardinalityType

\* Whatever order the database chooses, a row that shares its instant with no
\* other has the same rank: the number of rows that are not older.
LEMMA RankOfAlone ==
    ASSUME TypeOK, NEW r \in Readers, NEW rank \in Orders(Rows(r)),
           NEW o \in Rows(r), Alone(o, r)
    PROVE  rank[o] = Place(o, r)
<1> DEFINE S == Rows(r)
           n == Cardinality(S)
<1>1. IsFiniteSet(S) /\ n \in Nat
  BY RowsAreFinite
<1>2. /\ rank \in [S -> 1 .. n]
      /\ \A x, y \in S : rank[x] = rank[y] => x = y
      /\ \A x, y \in S : createdAt[x] > createdAt[y] => rank[x] < rank[y]
  BY DEF Orders
<1>3. \A p \in S : createdAt[p] \in Nat
  BY DEF Rows, TypeOK
<1>4. \A p \in S : p # o => createdAt[p] # createdAt[o]
  BY DEF Alone, Rows, TypeOK
<1>5. ASSUME NEW p \in S
      PROVE  createdAt[p] >= createdAt[o] <=> 0 < rank[p] /\ rank[p] <= rank[o]
  <2>1. rank[p] \in Nat /\ rank[o] \in Nat /\ 0 < rank[p]
    BY <1>1, <1>2
  <2>2. CASE p = o
    BY <1>3, <2>1, <2>2
  <2>3. CASE p # o
    <3>1. createdAt[p] > createdAt[o] \/ createdAt[o] > createdAt[p]
      BY <1>3, <1>4, <2>3
    <3>2. CASE createdAt[p] > createdAt[o]
      BY <1>2, <1>3, <2>1, <3>2
    <3>3. CASE createdAt[o] > createdAt[p]
      BY <1>2, <1>3, <2>1, <3>3
    <3> QED
      BY <3>1, <3>2, <3>3
  <2> QED
    BY <2>2, <2>3
<1>6. Above(o, r) = {p \in S : 0 < rank[p] /\ rank[p] <= rank[o]}
  BY <1>5 DEF Above
<1>7. rank[o] \in Nat /\ rank[o] <= n
  BY <1>1, <1>2
<1>8. 0 \in Nat /\ 0 <= rank[o]
  BY <1>7
<1> HIDE DEF S
<1>9. Cardinality(Above(o, r)) = rank[o] - 0
  BY <1>1, <1>2, <1>6, <1>7, <1>8, RanksAreDense
<1> QED
  BY <1>7, <1>9 DEF Place

-----------------------------------------------------------------------------
(* Rows are only added *)

\* What any step leaves of the ledger.
Grows ==
    /\ call' = call
    /\ committed \subseteq committed'
    /\ \A p \in Operations : createdAt[p] > 0 => createdAt'[p] = createdAt[p]

LEMMA StepsGrow == TypeOK /\ [Next]_vars => Grows
<1> SUFFICES ASSUME TypeOK, [Next]_vars PROVE Grows
  OBVIOUS
<1>1. CASE \E r \in Readers :
             \/ Guards(r) \/ FindWallet(r) \/ CheckAccess(r) \/ FindRows(r) \/ Count(r)
             \/ Answer(r) \/ Fail(r) \/ TurnPage(r) \/ Repeat(r)
  BY <1>1 DEF Grows, ledger, Guards, FindWallet, CheckAccess, FindRows, Count, Answer,
              Fail, TurnPage, Repeat
<1>2. CASE \E o \in Operations : Begin(o)
  BY <1>2 DEF Grows, Begin, TypeOK
<1>3. CASE \E o \in Operations : Commit(o)
  BY <1>3 DEF Grows, Commit
<1>4. CASE (\E x \in Riders, h \in Hubs : AssignHub(x, h)) \/ \E h \in Hubs : RemoveHub(h)
  BY <1>4 DEF Grows, AssignHub, Services!Assign, RemoveHub, Services!Remove, ledger
<1>5. CASE Tick \/ UNCHANGED vars
  BY <1>5 DEF Grows, Tick, vars, ledger
<1> QED
  BY <1>1, <1>2, <1>3, <1>4, <1>5 DEF Next

\* A row's place is a positive number.
LEMMA PlaceType ==
    ASSUME TypeOK, NEW r \in Readers, NEW o \in Rows(r)
    PROVE  Place(o, r) \in Nat \ {0}
<1>1. o \in Above(o, r)
  BY DEF Above, Rows, TypeOK
<1>2. Above(o, r) \in SUBSET Rows(r)
  BY DEF Above
<1>3. IsFiniteSet(Above(o, r))
  BY <1>2, RowsAreFinite, FS_Subset
<1> QED
  BY <1>1, <1>3, FS_CardinalityType, FS_EmptySet DEF Place

\* A row does not come closer to the beginning of the list, and a row that is
\* alone at its instant has always been.
LEMMA PlacesGrow ==
    ASSUME TypeOK, TypeOK', Grows, NEW r \in Readers, NEW o \in Rows(r)
    PROVE  /\ Place(o, r) \in Nat /\ Place(o, r)' \in Nat
           /\ Place(o, r) <= Place(o, r)'
           /\ Alone(o, r)' => Alone(o, r)
<1>1. Rows(r) \subseteq Rows(r)'
  BY DEF Grows, Rows
<1>2. Above(o, r) \in SUBSET (Above(o, r)')
  BY <1>1 DEF Grows, Above, Rows, TypeOK
<1>3. IsFiniteSet(Above(o, r)')
  <2>1. Above(o, r)' \in SUBSET (Rows(r)')
    BY DEF Above
  <2>2. IsFiniteSet(Rows(r)')
    BY FS_Subset, WalletReadsAssumption DEF Rows, TypeOK
  <2> QED
    BY <2>1, <2>2, FS_Subset
<1>4. /\ Place(o, r) \in Nat /\ Place(o, r)' \in Nat
      /\ Place(o, r) <= Place(o, r)'
  BY <1>2, <1>3, FS_Subset, FS_CardinalityType DEF Place
<1>5. ASSUME Alone(o, r)' PROVE Alone(o, r)
  <2> SUFFICES ASSUME NEW p \in Operations \ {o}, call[r].wallet \in Parties[p],
                      createdAt[p] = createdAt[o]
               PROVE  FALSE
    BY DEF Alone
  <2>1. o \in committed /\ createdAt[o] > 0
    BY DEF Rows, TypeOK
  <2> QED
    BY <1>5, <2>1 DEF Alone, Grows, TypeOK
<1> QED
  BY <1>1, <1>4, <1>5

\* Whatever has been said of the rows known so far stays true.
LEMMA KnownStays ==
    ASSUME TypeOK, TypeOK', Grows, NEW r \in Readers,
           known'[r] = known[r], known[r] \subseteq Rows(r),
           NEW n \in Nat, NEW S, NEW T, S \subseteq T
    PROVE  /\ KnownAmong(r, n, S) =>
                 \A o \in known'[r] : Alone(o, r)' /\ Place(o, r)' <= n => o \in T
           /\ AllKnownIn(r, S) => \A o \in known'[r] : Alone(o, r)' => o \in T
<1>1. ASSUME NEW o \in known'[r], Alone(o, r)'
      PROVE  /\ o \in known[r] /\ Alone(o, r)
             /\ Place(o, r)' <= n => Place(o, r) <= n
  BY <1>1, PlacesGrow
<1> QED
  BY <1>1 DEF KnownAmong, AllKnownIn

\* The rows of a wallet do not get fewer.
LEMMA RowsStay ==
    ASSUME TypeOK, TypeOK', Grows, NEW r \in Readers
    PROVE  /\ Cardinality(Rows(r)) \in Nat /\ Cardinality(Rows(r)') \in Nat
           /\ Cardinality(Rows(r)) <= Cardinality(Rows(r)')
<1>1. Rows(r) \in SUBSET (Rows(r)')
  BY DEF Grows, Rows
<1>2. IsFiniteSet(Rows(r)')
  BY FS_Subset, WalletReadsAssumption DEF Rows, TypeOK
<1> QED
  BY <1>1, <1>2, FS_Subset, FS_CardinalityType

-----------------------------------------------------------------------------
(* Types *)

\* The page and the limit, and where the page begins and ends.
LEMMA Bounds ==
    ASSUME TypeOK, NEW r \in Readers
    PROVE  /\ Limit(r) \in Nat \ {0} /\ page[r] \in Nat \ {0}
           /\ Start(r) \in Nat /\ End(r) \in Nat /\ End(r) = Start(r) + Limit(r)
           /\ page[r] = 1 => Start(r) = 0
<1>1. Limit(r) \in Nat \ {0} /\ page[r] \in Nat \ {0}
  BY WalletReadsAssumption DEF TypeOK, Calls, Limit
<1>2. ASSUME NEW m \in Nat \ {0}, NEW n \in Nat \ {0}
      PROVE  (m - 1) * n \in Nat /\ m * n \in Nat /\ m * n = (m - 1) * n + n
             /\ (m = 1 => (m - 1) * n = 0)
  OBVIOUS
<1> QED
  BY <1>1, <1>2 DEF Start, End

\* The rows of a page are finitely many.
LEMMA ItemsAreFinite ==
    ASSUME TypeOK, NEW r \in Readers
    PROVE  IsFiniteSet(items[r]) /\ Cardinality(items[r]) \in Nat
<1>1. items[r] \in SUBSET Operations
  BY DEF TypeOK
<1>2. IsFiniteSet(items[r])
  BY <1>1, FS_Subset, WalletReadsAssumption
<1> QED
  BY <1>2, FS_CardinalityType

LEMMA TypeInit == Init => TypeOK
  BY WalletReadsAssumption DEF Init, TypeOK, Phases

LEMMA TypeNext == TypeOK /\ [Next]_vars => TypeOK'
<1> SUFFICES ASSUME TypeOK, [Next]_vars PROVE TypeOK'
  OBVIOUS
<1> USE DEF TypeOK
<1>1. ASSUME NEW r \in Readers, Guards(r) PROVE TypeOK'
  BY <1>1 DEF Guards, GoTo, Phases, ledger, directory, found, Rows
<1>2. ASSUME NEW r \in Readers, FindWallet(r) \/ CheckAccess(r) \/ Fail(r) \/ Repeat(r)
      PROVE  TypeOK'
  BY <1>2 DEF FindWallet, CheckAccess, Fail, Repeat, AfterAccess, GoTo, Phases,
              ledger, directory, found, history
<1>3. ASSUME NEW r \in Readers, FindRows(r) PROVE TypeOK'
  BY <1>3 DEF FindRows, GoTo, Phases, ledger, directory, history, Rows
<1>4. ASSUME NEW r \in Readers, Count(r) PROVE TypeOK'
  <2>1. Start(r) \in Nat /\ Start(r) = (page[r] - 1) * Limit(r)
    BY Bounds DEF Start
  <2>2. Cardinality(Rows(r)) \in Nat /\ Cardinality(items[r]) \in Nat
    BY RowsAreFinite, ItemsAreFinite
  <2>3. \E n \in Nat : total' = [total EXCEPT ![r] = n]
    BY <1>4, <2>1, <2>2 DEF Count
  <2> QED
    BY <1>4, <2>3 DEF Count, GoTo, Phases, ledger, directory, history
<1>5. ASSUME NEW r \in Readers, Answer(r) \/ TurnPage(r) PROVE TypeOK'
  BY <1>5 DEF Answer, TurnPage, GoTo, Phases, ledger, directory, found, history
<1>6. CASE Tick
  BY <1>6, WalletReadsAssumption DEF Tick, directory, found, history
<1>7. ASSUME NEW o \in Operations, Begin(o) \/ Commit(o) PROVE TypeOK'
  BY <1>7 DEF Begin, Commit, directory, found, history
<1>8. ASSUME NEW x \in Riders, NEW h \in Hubs, AssignHub(x, h) PROVE TypeOK'
  BY <1>8 DEF AssignHub, Services!Assign, ledger, found
<1>9. ASSUME NEW h \in Hubs, RemoveHub(h) PROVE TypeOK'
  BY <1>9 DEF RemoveHub, Services!Remove, ledger, found, history
<1>10. CASE UNCHANGED vars
  BY <1>10 DEF vars, ledger, directory, found, history
<1> QED
  BY <1>1, <1>2, <1>3, <1>4, <1>5, <1>6, <1>7, <1>8, <1>9, <1>10 DEF Next

-----------------------------------------------------------------------------
(* The walk *)

\* Nothing happens to reader q's own variables.
Still(q) ==
    /\ pc'[q] = pc[q] /\ page'[q] = page[q] /\ items'[q] = items[q]
    /\ total'[q] = total[q] /\ seen'[q] = seen[q] /\ known'[q] = known[q]

LEMMA KnownAreRows ==
    ASSUME TypeOK, NEW r \in Readers, AccessInv(r)
    PROVE  known[r] \subseteq Rows(r) /\ items[r] \subseteq Rows(r)
  BY DEF AccessInv, Rows, TypeOK

\* While others go on, what a reader has seen stays as good as it was.
LEMMA WalkUndisturbed ==
    ASSUME TypeOK, TypeOK', Grows, NEW q \in Readers, Inv(q), Still(q)
    PROVE  WalkInv(q)'
<1> SUFFICES ASSUME call[q].op = "transactions"
             PROVE  SeenInv(q)' /\ LastInv(q)' /\ TotalInv(q)'
  BY DEF WalkInv, Grows
<1>1. SeenInv(q) /\ LastInv(q) /\ TotalInv(q) /\ known[q] \subseteq Rows(q)
  BY KnownAreRows DEF Inv, WalkInv
<1>2. Limit(q)' = Limit(q) /\ Start(q)' = Start(q) /\ End(q)' = End(q)
  BY DEF Grows, Still, Limit, Start, End
<1>3. Start(q) \in Nat /\ End(q) \in Nat
  BY Bounds
<1>4. SeenInv(q)'
  <2>1. KnownAmong(q, Start(q), seen[q]) => KnownAmong(q, Start(q), seen[q])'
    BY <1>1, <1>2, <1>3, KnownStays DEF Still, KnownAmong
  <2>2. KnownAmong(q, End(q), seen[q]) => KnownAmong(q, End(q), seen[q])'
    BY <1>1, <1>2, <1>3, KnownStays DEF Still, KnownAmong
  <2>3. KnownAmong(q, End(q), seen[q] \cup items[q])
           => KnownAmong(q, End(q), seen[q] \cup items[q])'
    <3> DEFINE S == seen[q] \cup items[q]
    <3>1. S' = S /\ S \subseteq S
      BY DEF Still
    <3> HIDE DEF S
    <3>2. KnownAmong(q, End(q), S) => KnownAmong(q, End(q), S)'
      BY <1>1, <1>2, <1>3, <3>1, KnownStays DEF Still, KnownAmong
    <3> QED
      BY <3>2 DEF S
  <2> QED
    BY <1>1, <2>1, <2>2, <2>3 DEF SeenInv, Still
<1>5. LastInv(q)'
  <2>1. AllKnownIn(q, seen[q]) => AllKnownIn(q, seen[q])'
    BY <1>1, <1>3, KnownStays DEF Still, AllKnownIn
  <2>2. AllKnownIn(q, seen[q] \cup items[q]) => AllKnownIn(q, seen[q] \cup items[q])'
    <3> DEFINE S == seen[q] \cup items[q]
    <3>1. S' = S /\ S \subseteq S
      BY DEF Still
    <3> HIDE DEF S
    <3>2. AllKnownIn(q, S) => AllKnownIn(q, S)'
      BY <1>1, <1>3, <3>1, KnownStays DEF Still, AllKnownIn
    <3> QED
      BY <3>2 DEF S
  <2> QED
    BY <1>1, <1>2, <2>1, <2>2 DEF LastInv, Still
<1>6. TotalInv(q)'
  <2>1. /\ Cardinality(Rows(q)) \in Nat /\ Cardinality(Rows(q)') \in Nat
        /\ Cardinality(Rows(q)) <= Cardinality(Rows(q)')
    BY RowsStay
  <2>2. Cardinality(items[q]) \in Nat /\ total[q] \in Nat
    BY ItemsAreFinite DEF TypeOK
  <2> QED
    BY <1>1, <1>2, <1>3, <2>1, <2>2 DEF TotalInv, Still
<1> QED
  BY <1>4, <1>5, <1>6

\* What stays when the request of r goes on to another phase.
LEMMA SeenStays ==
    ASSUME TypeOK, TypeOK', Grows, NEW r \in Readers, Inv(r), call[r].op = "transactions",
           known'[r] = known[r], page'[r] = page[r], pc[r] \notin {"received", "done"},
           seen'[r] = seen[r]
    PROVE  KnownAmong(r, Start(r), seen[r])'
<1>1. known[r] \subseteq Rows(r) /\ KnownAmong(r, Start(r), seen[r])
  BY KnownAreRows DEF Inv, WalkInv, SeenInv
<1>2. Start(r)' = Start(r) /\ Start(r) \in Nat
  BY Bounds DEF Grows, Limit, Start
<1> QED
  BY <1>1, <1>2, KnownStays DEF KnownAmong

LEMMA GuardsWalk ==
    ASSUME TypeOK, TypeOK', Grows, NEW r \in Readers, Inv(r), Guards(r)
    PROVE  WalkInv(r)'
<1> SUFFICES ASSUME call[r].op = "transactions"
             PROVE  SeenInv(r)' /\ LastInv(r)' /\ TotalInv(r)'
  BY DEF WalkInv, Grows
<1>1. /\ pc[r] = "called" /\ pc'[r] \in {"findWallet", "refused"}
      /\ page' = page /\ seen' = seen
  BY DEF Guards, GoTo, found, TypeOK
<1>2. KnownAmong(r, Start(r), seen[r])'
  <2>1. CASE page[r] = 1
    <3>1. Start(r)' = 0
      BY <1>1, <2>1, Bounds DEF Grows, Start, Limit
    <3>2. ASSUME NEW o \in known'[r] PROVE Place(o, r)' \in Nat \ {0}
      <4>1. o \in Rows(r)
        BY <2>1 DEF Guards, TypeOK
      <4>2. Place(o, r) \in Nat \ {0}
        BY <4>1, PlaceType
      <4> QED
        BY <4>1, <4>2, PlacesGrow
    <3> QED
      BY <3>1, <3>2 DEF KnownAmong
  <2>2. CASE page[r] # 1
    BY <1>1, <2>2, SeenStays DEF Guards, TypeOK
  <2> QED
    BY <2>1, <2>2
<1> QED
  BY <1>1, <1>2 DEF SeenInv, LastInv, TotalInv

LEMMA PhaseWalk ==
    ASSUME TypeOK, TypeOK', Grows, NEW r \in Readers, Inv(r),
           FindWallet(r) \/ CheckAccess(r) \/ Fail(r) \/ Repeat(r)
    PROVE  WalkInv(r)'
<1> SUFFICES ASSUME call[r].op = "transactions"
             PROVE  SeenInv(r)' /\ LastInv(r)' /\ TotalInv(r)'
  BY DEF WalkInv, Grows
<1>1. /\ pc[r] \notin {"received", "done"}
      /\ pc'[r] \notin {"count", "answer", "received", "done"}
      /\ page' = page /\ seen' = seen /\ known' = known
  BY DEF FindWallet, CheckAccess, Fail, Repeat, AfterAccess, GoTo, found, history, TypeOK
<1>2. KnownAmong(r, Start(r), seen[r])'
  BY <1>1, SeenStays
<1> QED
  BY <1>1, <1>2 DEF SeenInv, LastInv, TotalInv

\* The number of rows bounds every place.
LEMMA PlaceBound ==
    ASSUME TypeOK, NEW r \in Readers, NEW o \in Rows(r)
    PROVE  Place(o, r) <= Cardinality(Rows(r))
<1>1. Above(o, r) \in SUBSET Rows(r)
  BY DEF Above
<1> QED
  BY <1>1, RowsAreFinite, FS_Subset DEF Place

\* A page holds the rows ranked after its start and up to its end, as many as
\* there are; when it is not full, no row comes after it.
LEMMA PageSize ==
    ASSUME TypeOK, NEW r \in Readers, NEW rank \in Orders(Rows(r)), NEW T,
           T = {o \in Rows(r) : Start(r) < rank[o] /\ rank[o] <= End(r)}
    PROVE  /\ Cardinality(T) < Limit(r) => Cardinality(Rows(r)) < End(r)
           /\ T # {} => Start(r) + Cardinality(T) <= Cardinality(Rows(r))
<1> DEFINE n == Cardinality(Rows(r))
<1>1. IsFiniteSet(Rows(r)) /\ n \in Nat
  BY RowsAreFinite
<1>2. /\ rank \in [Rows(r) -> 1 .. n]
      /\ \A x, y \in Rows(r) : rank[x] = rank[y] => x = y
  BY DEF Orders
<1>3. /\ Limit(r) \in Nat \ {0} /\ Start(r) \in Nat /\ End(r) \in Nat
      /\ End(r) = Start(r) + Limit(r) /\ Start(r) <= End(r)
  BY Bounds
<1>4. CASE End(r) <= n
  <2>1. Cardinality(T) = End(r) - Start(r)
    BY <1>1, <1>2, <1>3, <1>4, RanksAreDense
  <2> QED
    BY <1>1, <1>3, <1>4, <2>1
<1>5. CASE n < End(r)
  <2> SUFFICES ASSUME T # {} PROVE Start(r) + Cardinality(T) <= n
    BY <1>5
  <2>1. PICK x \in Rows(r) : Start(r) < rank[x] /\ rank[x] <= n
    BY <1>1, <1>2
  <2>2. Start(r) <= n /\ n <= n
    BY <1>1, <1>2, <1>3, <2>1
  <2>3. T = {o \in Rows(r) : Start(r) < rank[o] /\ rank[o] <= n}
    BY <1>1, <1>2, <1>3, <1>5
  <2>4. Cardinality(T) = n - Start(r)
    BY <1>1, <1>2, <1>3, <2>2, <2>3, RanksAreDense
  <2> QED
    BY <1>1, <1>3, <2>4
<1> QED
  BY <1>1, <1>3, <1>4, <1>5

LEMMA FindRowsWalk ==
    ASSUME TypeOK, TypeOK', Grows, NEW r \in Readers, Inv(r), FindRows(r)
    PROVE  WalkInv(r)'
<1> SUFFICES ASSUME call[r].op = "transactions"
             PROVE  SeenInv(r)' /\ LastInv(r)' /\ TotalInv(r)'
  BY DEF WalkInv, Grows
<1>1. /\ pc[r] = "findRows" /\ pc'[r] = "count" /\ page' = page
      /\ seen' = seen /\ known' = known /\ Rows(r)' = Rows(r)
  BY DEF FindRows, GoTo, history, ledger, Rows, TypeOK
<1>2. PICK rank \in Orders(Rows(r)) :
         items'[r] = {o \in Rows(r) : Start(r) < rank[o] /\ rank[o] <= End(r)}
  BY DEF FindRows, Start, End, TypeOK
<1>3. /\ Limit(r)' = Limit(r) /\ Start(r)' = Start(r) /\ End(r)' = End(r)
      /\ Limit(r) \in Nat \ {0} /\ Start(r) \in Nat /\ End(r) \in Nat
  BY <1>1, Bounds DEF Grows, Limit, Start, End
<1>4. known[r] \subseteq Rows(r) /\ KnownAmong(r, Start(r), seen[r])
  BY <1>1, KnownAreRows DEF Inv, WalkInv, SeenInv
<1>5. KnownAmong(r, Start(r), seen[r])'
  BY <1>1, SeenStays
<1>6. ASSUME NEW o \in known[r], Alone(o, r), Place(o, r) <= End(r)
      PROVE  o \in seen[r] \cup items'[r]
  <2>1. rank[o] = Place(o, r) /\ Place(o, r) \in Nat \ {0}
    BY <1>2, <1>4, <1>6, RankOfAlone, PlaceType
  <2>2. CASE Place(o, r) <= Start(r)
    BY <1>4, <1>6, <2>2 DEF KnownAmong
  <2>3. CASE Start(r) < Place(o, r)
    BY <1>2, <1>4, <1>6, <2>1, <2>3
  <2> QED
    BY <1>3, <2>1, <2>2, <2>3
<1>7. KnownAmong(r, End(r), seen[r] \cup items[r])'
  <2> SUFFICES ASSUME NEW o \in known[r], Alone(o, r)', Place(o, r)' <= End(r)
               PROVE  o \in seen[r] \cup items'[r]
    BY <1>1, <1>3 DEF KnownAmong
  <2>1. Alone(o, r) /\ Place(o, r) <= End(r)
    BY <1>3, <1>4, PlacesGrow
  <2> QED
    BY <1>6, <2>1
<1>8. Cardinality(items'[r]) < Limit(r) => AllKnownIn(r, seen[r] \cup items[r])'
  <2> SUFFICES ASSUME Cardinality(items'[r]) < Limit(r), NEW o \in known[r], Alone(o, r)'
               PROVE  o \in seen[r] \cup items'[r]
    BY <1>1 DEF AllKnownIn
  <2>1. Cardinality(Rows(r)) < End(r)
    BY <1>2, PageSize
  <2>2. Place(o, r) \in Nat /\ Place(o, r) <= Cardinality(Rows(r)) /\ Alone(o, r)
    BY <1>4, PlaceType, PlaceBound, PlacesGrow
  <2>3. Place(o, r) <= End(r)
    BY <1>3, <2>1, <2>2, RowsAreFinite
  <2> QED
    BY <1>6, <2>2, <2>3
<1>9. items'[r] # {} => Start(r) + Cardinality(items'[r]) <= Cardinality(Rows(r))
  BY <1>2, PageSize
<1> QED
  BY <1>1, <1>3, <1>5, <1>7, <1>8, <1>9 DEF SeenInv, LastInv, TotalInv

\* A total that does not reach beyond the page leaves no known row behind it.
LEMMA CountWalk ==
    ASSUME TypeOK, TypeOK', Grows, NEW r \in Readers, Inv(r), Count(r)
    PROVE  WalkInv(r)'
<1> SUFFICES ASSUME call[r].op = "transactions"
             PROVE  SeenInv(r)' /\ LastInv(r)' /\ TotalInv(r)'
  BY DEF WalkInv, Grows
<1> DEFINE S == seen[r] \cup items[r]
<1>1. /\ pc[r] = "count" /\ pc'[r] = "answer" /\ page' = page /\ items' = items
      /\ seen' = seen /\ known' = known /\ Rows(r)' = Rows(r)
  BY DEF Count, GoTo, history, ledger, Rows, TypeOK
<1>2. /\ Limit(r)' = Limit(r) /\ Start(r)' = Start(r) /\ End(r)' = End(r)
      /\ Limit(r) \in Nat \ {0} /\ Start(r) \in Nat /\ End(r) \in Nat
      /\ page[r] = 1 => Start(r) = 0
  BY <1>1, Bounds DEF Grows, Limit, Start, End
<1>3. known[r] \subseteq Rows(r) /\ SeenInv(r) /\ LastInv(r) /\ TotalInv(r)
  BY KnownAreRows DEF Inv, WalkInv
<1>4. S' = S /\ S \subseteq S
  BY <1>1
<1>5. KnownAmong(r, Start(r), seen[r])'
  BY <1>1, SeenStays
<1> HIDE DEF S
<1>6. KnownAmong(r, End(r), S)'
  <2>1. KnownAmong(r, End(r), S)
    BY <1>1, <1>3 DEF SeenInv, S
  <2> QED
    BY <1>1, <1>2, <1>3, <1>4, <2>1, KnownStays DEF KnownAmong
<1>7. Cardinality(Rows(r)) \in Nat /\ Cardinality(items[r]) \in Nat
  BY RowsAreFinite, ItemsAreFinite
<1>8. CASE total'[r] = Cardinality(Rows(r))
  <2>1. ASSUME total'[r] <= End(r), NEW o \in known[r], Alone(o, r)'
        PROVE  o \in S
    <3>1. Alone(o, r) /\ Place(o, r) \in Nat /\ Place(o, r) <= Cardinality(Rows(r))
      BY <1>3, <2>1, PlacesGrow, PlaceBound
    <3>2. Place(o, r) <= End(r)
      BY <1>2, <1>7, <1>8, <2>1, <3>1
    <3> QED
      BY <1>1, <1>3, <3>1, <3>2 DEF SeenInv, KnownAmong, S
  <2>2. total'[r] <= End(r) => AllKnownIn(r, S)'
    BY <1>1, <1>4, <2>1 DEF AllKnownIn
  <2>3. items[r] # {} => Start(r) + Cardinality(items[r]) <= total'[r]
    BY <1>1, <1>3, <1>8 DEF TotalInv
  <2>4. total'[r] <= Cardinality(Rows(r))
    BY <1>7, <1>8
  <2> QED
    BY <1>1, <1>2, <1>5, <1>6, <2>2, <2>3, <2>4 DEF SeenInv, LastInv, TotalInv, S
<1>9. CASE /\ Cardinality(items[r]) < Limit(r)
           /\ items[r] # {} \/ page[r] = 1
           /\ total'[r] = Start(r) + Cardinality(items[r])
  <2>1. AllKnownIn(r, S)
    BY <1>1, <1>3, <1>9 DEF LastInv, S
  <2>2. AllKnownIn(r, S)'
    BY <1>1, <1>2, <1>3, <1>4, <2>1, KnownStays DEF AllKnownIn
  <2>3. total'[r] <= Cardinality(Rows(r))
    <3>1. CASE items[r] # {}
      BY <1>1, <1>3, <1>9, <3>1 DEF TotalInv
    <3>2. CASE items[r] = {}
      BY <1>2, <1>7, <1>9, <3>2, FS_EmptySet
    <3> QED
      BY <3>1, <3>2
  <2>4. Start(r) + Cardinality(items[r]) <= total'[r]
    BY <1>2, <1>7, <1>9
  <2> QED
    BY <1>1, <1>2, <1>5, <1>6, <2>2, <2>3, <2>4 DEF SeenInv, LastInv, TotalInv, S
<1> QED
  BY <1>8, <1>9 DEF Count, Start, TypeOK

LEMMA AnswerWalk ==
    ASSUME TypeOK, TypeOK', Grows, NEW r \in Readers, Inv(r), Answer(r)
    PROVE  WalkInv(r)'
<1> SUFFICES ASSUME call[r].op = "transactions"
             PROVE  SeenInv(r)' /\ LastInv(r)' /\ TotalInv(r)'
  BY DEF WalkInv, Grows
<1> DEFINE S == seen[r] \cup items[r]
<1>1. /\ pc[r] = "answer" /\ pc'[r] = "received" /\ page' = page /\ items' = items
      /\ total' = total /\ seen'[r] = S /\ known' = known /\ Rows(r)' = Rows(r)
  BY DEF Answer, GoTo, found, ledger, Rows, TypeOK
<1>2. Start(r)' = Start(r) /\ End(r)' = End(r) /\ End(r) \in Nat
  BY <1>1, Bounds DEF Grows, Limit, Start, End
<1>3. known[r] \subseteq Rows(r) /\ SeenInv(r) /\ LastInv(r) /\ TotalInv(r)
  BY KnownAreRows DEF Inv, WalkInv
<1> HIDE DEF S
<1>4. KnownAmong(r, End(r), seen[r])'
  <2>1. KnownAmong(r, End(r), S)
    BY <1>1, <1>3 DEF SeenInv, S
  <2> QED
    BY <1>1, <1>2, <1>3, <2>1, KnownStays DEF KnownAmong
<1>5. total[r] <= End(r) => AllKnownIn(r, seen[r])'
  <2>1. total[r] <= End(r) => AllKnownIn(r, S)
    BY <1>1, <1>3 DEF LastInv, S
  <2> QED
    BY <1>1, <1>2, <1>3, <2>1, KnownStays DEF AllKnownIn
<1> QED
  BY <1>1, <1>2, <1>3, <1>4, <1>5 DEF SeenInv, LastInv, TotalInv

LEMMA TurnPageWalk ==
    ASSUME TypeOK, TypeOK', Grows, NEW r \in Readers, Inv(r), TurnPage(r)
    PROVE  WalkInv(r)'
<1> SUFFICES ASSUME call[r].op = "transactions"
             PROVE  SeenInv(r)' /\ LastInv(r)' /\ TotalInv(r)'
  BY DEF WalkInv, Grows
<1>1. /\ pc[r] = "received" /\ items' = items /\ total' = total
      /\ seen' = seen /\ known' = known /\ Rows(r)' = Rows(r)
  BY DEF TurnPage, ledger, history, Rows
<1>2. known[r] \subseteq Rows(r) /\ SeenInv(r) /\ LastInv(r) /\ TotalInv(r)
  BY KnownAreRows DEF Inv, WalkInv
<1>3. Limit(r)' = Limit(r) /\ End(r) \in Nat /\ total[r] \in Nat
  BY Bounds DEF Grows, Limit, TypeOK
<1>4. CASE End(r) < total[r]
  <2>1. pc'[r] = "called" /\ page'[r] = page[r] + 1
    BY <1>4 DEF TurnPage, GoTo, TypeOK, End
  <2>2. Start(r)' = End(r)
    BY <1>3, <2>1, Bounds DEF Start, End
  <2>3. KnownAmong(r, End(r), seen[r])
    BY <1>1, <1>2 DEF SeenInv
  <2>4. KnownAmong(r, Start(r), seen[r])'
    BY <1>1, <1>2, <1>3, <2>2, <2>3, KnownStays DEF KnownAmong
  <2> QED
    BY <2>1, <2>4 DEF SeenInv, LastInv, TotalInv
<1>5. CASE total[r] <= End(r)
  <2>1. pc'[r] = "done" /\ page' = page
    BY <1>3, <1>5 DEF TurnPage, GoTo, TypeOK, End
  <2>2. AllKnownIn(r, seen[r])
    BY <1>1, <1>2, <1>5 DEF LastInv
  <2>3. AllKnownIn(r, seen[r])'
    BY <1>1, <1>2, <1>3, <2>2, KnownStays DEF AllKnownIn
  <2>4. Start(r)' = Start(r)
    BY <1>3, <2>1 DEF Start
  <2> QED
    BY <1>1, <1>2, <2>1, <2>3, <2>4 DEF SeenInv, LastInv, TotalInv
<1> QED
  BY <1>3, <1>4, <1>5

-----------------------------------------------------------------------------
(* Access *)

LEMMA AccessUndisturbed ==
    ASSUME NEW q \in Readers, AccessInv(q), Still(q), Grows, during[q] \subseteq during'[q],
           pc[q] \in {"findWallet", "checkAccess"} => assigned' \subseteq during'[q]
    PROVE  AccessInv(q)'
  BY DEF AccessInv, Still, Grows, Reachable, Unrestricted, HubsInScope, Caller, OwnerOf

\* The steps of reader r itself.
LEMMA AccessStep ==
    ASSUME TypeOK, TypeOK', Grows, NEW r \in Readers, Inv(r),
           \/ Guards(r) \/ FindWallet(r) \/ CheckAccess(r) \/ FindRows(r) \/ Count(r)
           \/ Answer(r) \/ Fail(r) \/ TurnPage(r) \/ Repeat(r)
    PROVE  AccessInv(r)'
<1> USE DEF AccessInv, Inv
<1>1. CASE Guards(r)
  BY <1>1 DEF Guards, GoTo, Rows, found, directory, ledger, TypeOK
<1>2. CASE FindWallet(r)
  BY <1>2 DEF FindWallet, GoTo, found, directory, history, TypeOK
<1>3. CASE CheckAccess(r)
  <2>1. /\ pc'[r] \in {"findRows", "count"} => call[r].op = "transactions"
        /\ pc'[r] \notin {"findWallet", "checkAccess"}
        /\ UNCHANGED <<call, items, seen, known, during>>
    <3>1. call[r].op \in {"wallet", "transactions"}
      BY WalletReadsAssumption DEF TypeOK, Calls
    <3> QED
      BY <1>3, <3>1 DEF CheckAccess, AfterAccess, GoTo, found, history, TypeOK
  <2>2. pc'[r] \in {"findRows", "count", "answer", "received"} => Reachable(r)
    BY <1>3 DEF CheckAccess, GoTo, TypeOK, Reachable, HubsInScope
  <2>3. Reachable(r)' = Reachable(r)
    BY <2>1 DEF Reachable, Caller, OwnerOf
  <2> QED
    BY <2>1, <2>2, <2>3
<1>4. CASE FindRows(r)
  <2>1. \A o \in items'[r] : call[r].wallet \in Parties[o]
    BY <1>4 DEF FindRows, Rows, TypeOK
  <2>2. pc[r] = "findRows" /\ pc'[r] = "count" /\ UNCHANGED <<call, seen, known, during>>
    BY <1>4 DEF FindRows, GoTo, history, TypeOK
  <2>3. Reachable(r)' = Reachable(r)
    BY <2>2 DEF Reachable, Caller, OwnerOf
  <2> QED
    BY <2>1, <2>2, <2>3
<1>5. CASE Count(r) \/ Answer(r)
  <2>1. /\ pc[r] \in {"count", "answer"} /\ pc'[r] \in {"answer", "received"}
        /\ UNCHANGED <<call, items, known, during>> /\ seen'[r] \subseteq seen[r] \cup items[r]
    BY <1>5 DEF Count, Answer, GoTo, found, history, TypeOK
  <2>2. Reachable(r)' = Reachable(r)
    BY <2>1 DEF Reachable, Caller, OwnerOf
  <2> QED
    BY <2>1, <2>2
<1>6. CASE Fail(r) \/ TurnPage(r) \/ Repeat(r)
  BY <1>6 DEF Fail, TurnPage, Repeat, GoTo, found, history, TypeOK
<1> QED
  BY <1>1, <1>2, <1>3, <1>4, <1>5, <1>6

-----------------------------------------------------------------------------
(* The theorems *)

LEMMA InvInit == Init => IInv
<1> SUFFICES ASSUME Init PROVE IInv
  OBVIOUS
<1>1. TypeOK
  BY TypeInit
<1>2. ASSUME NEW r \in Readers PROVE Inv(r)
  BY <1>1, Bounds DEF Init, Inv, WalkInv, SeenInv, LastInv, TotalInv, AccessInv, KnownAmong
<1> QED
  BY <1>1, <1>2 DEF IInv

LEMMA InvNext == IInv /\ [Next]_vars => IInv'
<1> SUFFICES ASSUME IInv, [Next]_vars PROVE IInv'
  OBVIOUS
<1>1. TypeOK /\ TypeOK' /\ Grows
  BY TypeNext, StepsGrow DEF IInv
<1>2. \A q \in Readers : Inv(q)
  BY DEF IInv
<1>3. ASSUME NEW q \in Readers, Still(q), during[q] \subseteq during'[q],
             pc[q] \in {"findWallet", "checkAccess"} => assigned' \subseteq during'[q]
      PROVE  Inv(q)'
  BY <1>1, <1>2, <1>3, WalkUndisturbed, AccessUndisturbed DEF Inv
<1>4. ASSUME NEW r \in Readers,
             \/ Guards(r) \/ FindWallet(r) \/ CheckAccess(r) \/ FindRows(r) \/ Count(r)
             \/ Answer(r) \/ Fail(r) \/ TurnPage(r) \/ Repeat(r)
      PROVE  \A q \in Readers : Inv(q)'
  <2>1. WalkInv(r)'
    BY <1>1, <1>2, <1>4, GuardsWalk, PhaseWalk, FindRowsWalk, CountWalk, AnswerWalk,
       TurnPageWalk
  <2>2. AccessInv(r)'
    BY <1>1, <1>2, <1>4, AccessStep
  <2>3. ASSUME NEW q \in Readers \ {r} PROVE Inv(q)'
    <3>1. Still(q) /\ during'[q] = during[q] /\ assigned' = assigned
      BY <1>1, <1>4 DEF TypeOK, Still, Guards, FindWallet, CheckAccess, FindRows, Count,
         Answer, Fail, TurnPage, Repeat, GoTo, found, history, directory
    <3>2. AccessInv(q)
      BY <1>2 DEF Inv
    <3> QED
      BY <1>3, <3>1, <3>2 DEF AccessInv
  <2> QED
    BY <2>1, <2>2, <2>3 DEF Inv
<1>5. ASSUME \/ Tick \/ UNCHANGED vars
             \/ \E o \in Operations : Begin(o) \/ Commit(o)
      PROVE  \A q \in Readers : Inv(q)'
  <2>1. UNCHANGED <<pc, found, history, assigned>>
    BY <1>5 DEF Tick, Begin, Commit, vars, directory
  <2> QED
    BY <1>2, <1>3, <2>1 DEF Still, found, history, Inv, AccessInv
<1>6. ASSUME NEW x \in Riders, NEW h \in Hubs, AssignHub(x, h)
      PROVE  \A q \in Readers : Inv(q)'
  <2> TAKE q \in Readers
  <2>1. Still(q) /\ during[q] \subseteq during'[q]
    BY <1>1, <1>6 DEF AssignHub, Services!Assign, Still, found, TypeOK
  <2>2. pc[q] \in {"findWallet", "checkAccess"} => assigned' \subseteq during'[q]
    BY <1>1, <1>2, <1>6 DEF AssignHub, Services!Assign, Inv, AccessInv, TypeOK
  <2> QED
    BY <1>3, <2>1, <2>2
<1>7. ASSUME NEW h \in Hubs, RemoveHub(h) PROVE \A q \in Readers : Inv(q)'
  <2> TAKE q \in Readers
  <2>1. Still(q) /\ during'[q] = during[q] /\ assigned' \subseteq assigned
    BY <1>7 DEF RemoveHub, Services!Remove, Still, found, history
  <2> QED
    BY <1>2, <1>3, <2>1 DEF Inv, AccessInv
<1> QED
  BY <1>1, <1>4, <1>5, <1>6, <1>7 DEF IInv, Next

LEMMA Invariance == Spec => []IInv
  BY InvInit, InvNext, PTL DEF Spec

\* All variables keep their types.
THEOREM TypeCorrect == Spec => []TypeOK
<1>1. IInv => TypeOK
  BY DEF IInv
<1> QED
  BY <1>1, Invariance, PTL

\* Turning the pages to the end shows every row that was there at the beginning,
\* for any number of rows, of rows that commit meanwhile and of pages.
THEOREM WalksAreComplete == Spec => []NothingIsMissed
<1>1. IInv => NothingIsMissed
  BY DEF IInv, Inv, WalkInv, LastInv, AllKnownIn, NothingIsMissed
<1> QED
  BY <1>1, Invariance, PTL

\* A total agrees with the page it comes with and with the table.
THEOREM TotalsAreSound == Spec => []TotalsAddUp
<1>1. ASSUME TypeOK, NEW r \in Readers, Inv(r), call[r].op = "transactions",
             pc[r] \in {"answer", "received", "done"}
      PROVE  /\ total[r] <= Cardinality(Rows(r))
             /\ items[r] # {} =>
                   (page[r] - 1) * Limit(r) + Cardinality(items[r]) <= total[r]
  BY <1>1 DEF Inv, WalkInv, TotalInv, Start
<1>2. IInv => TotalsAddUp
  BY <1>1 DEF IInv, TotalsAddUp
<1> QED
  BY <1>2, Invariance, PTL

\* What a hub admin is shown belongs to the hubs of the token while it is asked for.
THEOREM ReadsAreScoped == Spec => []ReadsStayInScope
<1>1. IInv => ReadsStayInScope
  BY DEF IInv, Inv, AccessInv, Reachable, ReadsStayInScope
<1> QED
  BY <1>1, Invariance, PTL
=============================================================================
