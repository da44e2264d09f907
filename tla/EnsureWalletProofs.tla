-------------------------- MODULE EnsureWalletProofs --------------------------
(***************************************************************************)
(* ensureWallet is safe for any number of calls and owners.  The unique    *)
(* index acts on committed and uncommitted rows together, and this is what *)
(* the inductive invariant says of them: they are of different owners.     *)
(***************************************************************************)
EXTENDS EnsureWallet, TLAPS

\* The rows, committed or not, are of different owners.
KeysDiffer == \A v, w \in rows \cup inserted : v.owner = w.owner => v = w

\* The rows that are not committed are exactly those of the calls about to commit.
InsertedByCommitters ==
    /\ \A w \in inserted :
          w \notin rows /\ pc[w.by] = "committing" /\ w = NewWallet(w.by)
    /\ \A c \in Callers : pc[c] = "committing" => NewWallet(c) \in inserted

\* A call has an outcome when it is done; a wallet it returns is committed; and
\* it looks again only for a wallet that is there, or after a failure.
CallInv(c) ==
    /\ result[c] = "none" <=> pc[c] # "done"
    /\ result[c] = "ok" => [owner |-> owner[c], by |-> found[c]] \in rows
    /\ pc[c] = "refinding" => c \in faulted \/ WalletOf(owner[c], rows) # {}
    /\ result[c] \in {"notFound", "error", "lost"} => c \in faulted

IInv ==
    /\ TypeOK
    /\ KeysDiffer
    /\ InsertedByCommitters
    /\ \A c \in Callers : CallInv(c)

-----------------------------------------------------------------------------
LEMMA InitHolds == Init => IInv
    BY DEF Init, IInv, TypeOK, Phases, Results, KeysDiffer, InsertedByCommitters, CallInv

\* Another call's invariant survives whatever only adds rows.
LEMMA OthersKeep ==
    ASSUME NEW c \in Callers, CallInv(c), rows \subseteq rows', owner' = owner,
           faulted \subseteq faulted',
           pc'[c] = pc[c], result'[c] = result[c], found'[c] = found[c]
    PROVE  CallInv(c)'
    BY DEF CallInv, WalletOf

LEMMA FindKeeps == ASSUME IInv, NEW c \in Callers, Find(c) PROVE IInv'
<1> USE DEF Find, Return, GoTo
<1>1. TypeOK'
    BY EnsureWalletAssumption DEF IInv, TypeOK, Phases, Results, Wallets, WalletOf, CallInv
<1>2. KeysDiffer' /\ InsertedByCommitters'
    BY DEF IInv, TypeOK, Wallets, KeysDiffer, InsertedByCommitters, NewWallet
<1>3. CallInv(c)'
    BY DEF IInv, TypeOK, Wallets, CallInv, WalletOf
<1>4. ASSUME NEW d \in Callers, d # c PROVE CallInv(d)'
    BY <1>4, OthersKeep DEF IInv, TypeOK
<1> QED BY <1>1, <1>2, <1>3, <1>4 DEF IInv

LEMMA InsertKeeps == ASSUME IInv, NEW c \in Callers, Insert(c) PROVE IInv'
<1> USE DEF Insert, GoTo
<1>1. TypeOK'
    BY DEF IInv, TypeOK, Phases, Wallets, NewWallet
<1>2. KeysDiffer'
    BY DEF IInv, TypeOK, Wallets, KeysDiffer, NewWallet, WalletOf
<1>3. InsertedByCommitters'
    BY DEF IInv, TypeOK, Wallets, InsertedByCommitters, NewWallet, WalletOf
<1>4. CallInv(c)'
    BY DEF IInv, TypeOK, CallInv, WalletOf
<1>5. ASSUME NEW d \in Callers, d # c PROVE CallInv(d)'
    BY <1>5, OthersKeep DEF IInv, TypeOK
<1> QED BY <1>1, <1>2, <1>3, <1>4, <1>5 DEF IInv

LEMMA CommitKeeps == ASSUME IInv, NEW c \in Callers, Commit(c) PROVE IInv'
<1> USE DEF Commit, Return
<1>1. NewWallet(c) \in inserted
    BY DEF IInv, InsertedByCommitters
<1>2. TypeOK'
    BY <1>1, EnsureWalletAssumption DEF IInv, TypeOK, Phases, Results, Wallets, NewWallet, CallInv
<1>3. KeysDiffer'
    <2>1. (rows \cup inserted)' = rows \cup inserted
        BY <1>1
    <2> QED BY <2>1 DEF IInv, KeysDiffer
<1>4. InsertedByCommitters'
    BY DEF IInv, TypeOK, Wallets, InsertedByCommitters, NewWallet
<1>5. CallInv(c)'
    BY DEF IInv, TypeOK, CallInv, WalletOf, NewWallet
<1>6. ASSUME NEW d \in Callers, d # c PROVE CallInv(d)'
    BY <1>6, OthersKeep DEF IInv, TypeOK
<1> QED BY <1>2, <1>3, <1>4, <1>5, <1>6 DEF IInv

LEMMA RefindKeeps == ASSUME IInv, NEW c \in Callers, Refind(c) PROVE IInv'
<1> USE DEF Refind, Return, Throw
<1>1. TypeOK'
    <2>1. TypeOK /\ result[c] = "none" /\ found[c] = NoWallet
        BY DEF IInv, TypeOK, CallInv
    <2>2. CASE \E w \in WalletOf(owner[c], rows) : Return(c, w)
        BY <2>1, <2>2, EnsureWalletAssumption DEF TypeOK, Phases, Results, Wallets, WalletOf
    <2>3. CASE Throw(c, "notFound")
        BY <2>1, <2>3 DEF TypeOK, Phases, Results
    <2> QED BY <2>2, <2>3
<1>2. KeysDiffer' /\ InsertedByCommitters'
    BY DEF IInv, TypeOK, Wallets, KeysDiffer, InsertedByCommitters, NewWallet
<1>3. CallInv(c)'
    BY DEF IInv, TypeOK, Wallets, CallInv, WalletOf
<1>4. ASSUME NEW d \in Callers, d # c PROVE CallInv(d)'
    BY <1>4, OthersKeep DEF IInv, TypeOK
<1> QED BY <1>1, <1>2, <1>3, <1>4 DEF IInv

LEMMA SaveFailsKeeps == ASSUME IInv, NEW c \in Callers, SaveFails(c) PROVE IInv'
<1> USE DEF SaveFails, GoTo
<1>1. rows \subseteq rows' /\ rows' \cup inserted' \subseteq rows \cup inserted
    BY DEF IInv, InsertedByCommitters
<1>2. TypeOK'
    BY <1>1 DEF IInv, TypeOK, Phases
<1>3. KeysDiffer'
    BY <1>1 DEF IInv, KeysDiffer
<1>4. InsertedByCommitters'
    BY DEF IInv, TypeOK, Wallets, InsertedByCommitters, NewWallet
<1>5. CallInv(c)'
    BY <1>1 DEF IInv, TypeOK, CallInv
<1>6. ASSUME NEW d \in Callers, d # c PROVE CallInv(d)'
    BY <1>1, <1>6, OthersKeep DEF IInv, TypeOK
<1> QED BY <1>2, <1>3, <1>4, <1>5, <1>6 DEF IInv

LEMMA FindFailsKeeps == ASSUME IInv, NEW c \in Callers, FindFails(c) PROVE IInv'
<1> USE DEF FindFails, Throw
<1>1. TypeOK'
    BY DEF IInv, TypeOK, Phases, Results, CallInv
<1>2. KeysDiffer' /\ InsertedByCommitters'
    BY DEF IInv, TypeOK, Wallets, KeysDiffer, InsertedByCommitters, NewWallet
<1>3. CallInv(c)'
    BY DEF IInv, TypeOK, CallInv
<1>4. ASSUME NEW d \in Callers, d # c PROVE CallInv(d)'
    BY <1>4, OthersKeep DEF IInv, TypeOK
<1> QED BY <1>1, <1>2, <1>3, <1>4 DEF IInv

LEMMA CrashKeeps == ASSUME IInv, Crash PROVE IInv'
<1> USE DEF Crash
<1>1. TypeOK'
    BY DEF IInv, TypeOK, Phases, Results, CallInv
<1>2. KeysDiffer' /\ InsertedByCommitters'
    BY DEF IInv, KeysDiffer, InsertedByCommitters
<1>3. ASSUME NEW c \in Callers PROVE CallInv(c)'
    BY DEF IInv, TypeOK, CallInv
<1> QED BY <1>1, <1>2, <1>3 DEF IInv

LEMMA StutterKeeps == ASSUME IInv, UNCHANGED vars PROVE IInv'
    BY DEF vars, IInv, TypeOK, KeysDiffer, InsertedByCommitters, CallInv, WalletOf, NewWallet

LEMMA Invariant == Spec => []IInv
<1>1. IInv /\ [Next]_vars => IInv'
    BY FindKeeps, InsertKeeps, CommitKeeps, RefindKeeps, SaveFailsKeeps, FindFailsKeeps,
       CrashKeeps, StutterKeeps DEF Next, Progress
<1> QED BY InitHolds, <1>1, PTL DEF Spec

\* Every variable has its type, and a call has found a wallet exactly when it
\* returned one (ensureWallet, whatever calls race).
THEOREM TypeCorrect == Spec => []TypeOK
<1>1. IInv => TypeOK
    BY DEF IInv
<1> QED BY <1>1, Invariant, PTL

-----------------------------------------------------------------------------
\* All that ensureWallet returns for an owner is the owner's only wallet,
\* however many calls race and whatever fails.
THEOREM OneWalletPerOwner == Spec => []ReturnsTheOneWallet
<1>1. ASSUME IInv, NEW c \in Callers, result[c] = "ok"
      PROVE  WalletOf(owner[c], rows) = {[owner |-> owner[c], by |-> found[c]]}
    <2>1. [owner |-> owner[c], by |-> found[c]] \in rows
        BY <1>1 DEF IInv, CallInv
    <2>2. \A v, w \in rows : v.owner = w.owner => v = w
        BY <1>1 DEF IInv, KeysDiffer
    <2> QED BY <2>1, <2>2 DEF WalletOf
<1>2. IInv => ReturnsTheOneWallet
    BY <1>1 DEF ReturnsTheOneWallet
<1> QED BY <1>2, Invariant, PTL

\* Losing the race for the INSERT is nobody's error.
THEOREM RacesStayInside == Spec => []RaceNeverSurfaces
<1>1. IInv => RaceNeverSurfaces
    BY DEF IInv, CallInv, RaceNeverSurfaces
<1> QED BY <1>1, Invariant, PTL

-----------------------------------------------------------------------------
(* Waits and steps: what EveryCallEnds rests on besides fairness. *)

\* A call whose INSERT has to wait, waits for one that is about to commit and
\* that nothing keeps from it: no wait is for a call that waits itself.
WaitsForCommits ==
    \A c \in Callers :
       pc[c] = "inserting" /\ WalletOf(owner[c], inserted) # {} =>
          \E d \in Callers : pc[d] = "committing" /\ owner[d] = owner[c]

\* A bound on the statements that a call in phase p still has to execute.
StepsLeft(p) ==
    CASE p = "finding" -> 4 [] p = "inserting" -> 3 [] p = "committing" -> 2
      [] p = "refinding" -> 1 [] p = "done" -> 0

\* A step of a call brings it closer to its end, and no other step sets it back.
StepsRunOut ==
    [][\A c \in Callers :
          /\ StepsLeft(pc'[c]) <= StepsLeft(pc[c])
          /\ Progress(c) \/ SaveFails(c) \/ FindFails(c) =>
                StepsLeft(pc'[c]) < StepsLeft(pc[c])]_vars

\* The unique index makes calls wait, but never for each other.
THEOREM WaitsAreShort == Spec => []WaitsForCommits
<1>1. ASSUME IInv, NEW c \in Callers, NEW w \in WalletOf(owner[c], inserted)
      PROVE  \E d \in Callers : pc[d] = "committing" /\ owner[d] = owner[c]
    BY <1>1 DEF IInv, TypeOK, InsertedByCommitters, Wallets, WalletOf, NewWallet
<1>2. IInv => WaitsForCommits
    BY <1>1 DEF WaitsForCommits
<1> QED BY <1>2, Invariant, PTL

\* A call makes at most four steps, whatever it waits for, fails or loses.
THEOREM CallsRunOut == Spec => StepsRunOut
<1>1. ASSUME IInv, NEW c \in Callers, Progress(c) \/ SaveFails(c) \/ FindFails(c)
      PROVE  StepsLeft(pc'[c]) < StepsLeft(pc[c])
    BY <1>1 DEF IInv, TypeOK, Progress, Find, Insert, Commit, Refind, SaveFails, FindFails,
                Return, Throw, GoTo, StepsLeft
<1>2. ASSUME IInv, [Next]_vars, NEW c \in Callers
      PROVE  StepsLeft(pc'[c]) <= StepsLeft(pc[c])
    <2>1. pc[c] \in Phases /\ StepsLeft(pc[c]) \in 0 .. 4
        BY <1>2 DEF IInv, TypeOK, Phases, StepsLeft
    <2>2. CASE Crash
        <3>1. pc'[c] = "done"
            BY <2>2 DEF Crash
        <3>2. StepsLeft(pc'[c]) = 0
            BY <3>1 DEF StepsLeft
        <3> QED BY <2>1, <3>2
    <2>3. CASE UNCHANGED vars
        BY <2>1, <2>3 DEF vars
    <2>4. ASSUME NEW d \in Callers, Progress(d) \/ SaveFails(d) \/ FindFails(d)
          PROVE  StepsLeft(pc'[c]) <= StepsLeft(pc[c])
        <3>1. CASE d = c
            <4>1. pc'[c] \in Phases
                BY <1>2, <2>4, <3>1 DEF IInv, TypeOK, Progress, Find, Insert, Commit, Refind,
                            SaveFails, FindFails, Return, Throw, GoTo, Phases
            <4>2. StepsLeft(pc'[c]) \in 0 .. 4
                BY <4>1 DEF Phases, StepsLeft
            <4>3. StepsLeft(pc'[c]) < StepsLeft(pc[c])
                BY <1>1, <1>2, <2>4, <3>1
            <4> QED BY <2>1, <4>2, <4>3
        <3>2. CASE d # c
            <4>1. pc'[c] = pc[c]
                BY <1>2, <2>4, <3>2 DEF IInv, TypeOK, Progress, Find, Insert, Commit, Refind,
                            SaveFails, FindFails, Return, Throw, GoTo
            <4> QED BY <2>1, <4>1
        <3> QED BY <3>1, <3>2
    <2> QED BY <1>2, <2>2, <2>3, <2>4 DEF Next
<1>3. ASSUME IInv, [Next]_vars
      PROVE  [\A c \in Callers :
                 /\ StepsLeft(pc'[c]) <= StepsLeft(pc[c])
                 /\ Progress(c) \/ SaveFails(c) \/ FindFails(c) =>
                       StepsLeft(pc'[c]) < StepsLeft(pc[c])]_vars
    BY <1>1, <1>2, <1>3
<1> QED BY <1>3, Invariant, PTL DEF Spec, StepsRunOut

-----------------------------------------------------------------------------
(* Refinement *)

AbstractWallet == [o \in Owners |-> WalletAt(o)]

\* An owner has the wallet that is committed for it, and only then one.
LEMMA WalletAtIs ==
    ASSUME IInv
    PROVE  /\ \A w \in rows : WalletAt(w.owner) = w.by /\ w.by # NoWallet
           /\ \A o \in Owners : WalletAt(o) = NoWallet <=> WalletOf(o, rows) = {}
<1>1. ASSUME NEW w \in rows PROVE WalletAt(w.owner) = w.by /\ w.by # NoWallet
    <2>1. WalletOf(w.owner, rows) = {w}
        BY <1>1 DEF IInv, KeysDiffer, WalletOf
    <2>2. w.by \in Callers
        BY <1>1 DEF IInv, TypeOK, Wallets
    <2> QED BY <2>1, <2>2, EnsureWalletAssumption DEF WalletAt
<1>2. ASSUME NEW o \in Owners, WalletOf(o, rows) # {} PROVE WalletAt(o) # NoWallet
    <2>1. PICK w \in rows : w.owner = o
        BY <1>2 DEF WalletOf
    <2> QED BY <1>1, <2>1
<1>3. ASSUME NEW o \in Owners, WalletOf(o, rows) = {} PROVE WalletAt(o) = NoWallet
    BY <1>3 DEF WalletAt
<1> QED BY <1>1, <1>2, <1>3

\* A step that commits nothing leaves every owner's wallet as it was.
LEMMA SameWallets ==
    ASSUME rows' = rows PROVE AbstractWallet' = AbstractWallet
    BY DEF AbstractWallet, WalletAt, WalletOf

\* A call's commit gives its owner, who had no wallet, the call's own.
LEMMA CommitCreates ==
    ASSUME IInv, IInv', NEW c \in Callers, pc[c] = "committing",
           rows' = rows \cup {NewWallet(c)}, owner' = owner
    PROVE  /\ WalletAt(owner[c]) = NoWallet
           /\ AbstractWallet' = [AbstractWallet EXCEPT ![owner[c]] = c]
<1>1. /\ NewWallet(c) \in inserted
      /\ NewWallet(c) \notin rows
      /\ NewWallet(c).owner = owner[c]
      /\ NewWallet(c).by = c
      /\ owner[c] \in Owners
    BY DEF IInv, TypeOK, InsertedByCommitters, NewWallet
<1>2. WalletOf(owner[c], rows) = {}
    BY <1>1 DEF IInv, KeysDiffer, WalletOf
<1>3. WalletAt(owner[c]) = NoWallet
    BY <1>1, <1>2, WalletAtIs
<1>4. WalletAt(owner[c])' = c
    <2>1. WalletOf(owner[c], rows)' = {NewWallet(c)}
        BY <1>1, <1>2 DEF WalletOf
    <2> QED BY <1>1, <2>1 DEF WalletAt
<1>5. ASSUME NEW o \in Owners, o # owner[c] PROVE WalletAt(o)' = WalletAt(o)
    <2>1. WalletOf(o, rows)' = WalletOf(o, rows)
        BY <1>1, <1>5 DEF WalletOf
    <2>2. CASE WalletOf(o, rows) = {}
        BY <2>1, <2>2 DEF WalletAt
    <2>3. ASSUME NEW w \in WalletOf(o, rows) PROVE WalletAt(o)' = WalletAt(o)
        <3>1. WalletOf(o, rows) = {w}
            BY <2>3 DEF IInv, KeysDiffer, WalletOf
        <3> QED BY <2>1, <3>1 DEF WalletAt
    <2> QED BY <2>2, <2>3
<1> QED BY <1>1, <1>3, <1>4, <1>5 DEF AbstractWallet

\* What a call finds is the wallet its owner has.
LEMMA FoundIsEnsured ==
    ASSUME IInv, NEW c \in Callers, NEW w \in WalletOf(owner[c], rows)
    PROVE  /\ WalletAt(owner[c]) = w.by
           /\ WalletAt(owner[c]) # NoWallet
           /\ owner[c] \in Owners
    BY WalletAtIs DEF WalletOf, IInv, TypeOK

LEMMA UnderWayIs ==
    ASSUME IInv, NEW c \in Callers, pc[c] # "done" PROVE c \in Atomic!UnderWay
    BY DEF IInv, CallInv, Atomic!UnderWay

\* An answer with the wallet that is there is the abstract step.
LEMMA ReturnMaps ==
    ASSUME IInv, NEW c \in Callers, pc[c] # "done", NEW w \in WalletOf(owner[c], rows),
           Return(c, w), rows' = rows, owner' = owner
    PROVE  Atomic!GetOrCreate(c)
<1>1. c \in Atomic!UnderWay
    BY UnderWayIs
<1>2. AbstractWallet' = AbstractWallet
    BY SameWallets
<1>3. /\ AbstractWallet[owner[c]] = w.by
      /\ w.by # NoWallet
      /\ owner[c] \in Owners
    BY FoundIsEnsured DEF AbstractWallet
<1>4. Atomic!Ensured(c) = w.by
    BY <1>3 DEF Atomic!Ensured, AbstractWallet
<1>5. AbstractWallet' = [AbstractWallet EXCEPT ![owner[c]] = Atomic!Ensured(c)]
    BY <1>2, <1>3, <1>4 DEF AbstractWallet
<1> QED BY <1>1, <1>4, <1>5 DEF Atomic!GetOrCreate, Return, AbstractWallet

LEMMA CommitMaps ==
    ASSUME IInv, IInv', NEW c \in Callers, Commit(c) PROVE Atomic!GetOrCreate(c)
<1> USE DEF Commit
<1>1. c \in Atomic!UnderWay
    BY UnderWayIs
<1>2. /\ WalletAt(owner[c]) = NoWallet
      /\ AbstractWallet' = [AbstractWallet EXCEPT ![owner[c]] = c]
    BY CommitCreates
<1>3. Atomic!Ensured(c) = c
    BY <1>2 DEF Atomic!Ensured, IInv, TypeOK
<1> QED BY <1>1, <1>2, <1>3 DEF Atomic!GetOrCreate, Return, NewWallet, AbstractWallet

LEMMA RefindMaps ==
    ASSUME IInv, NEW c \in Callers, Refind(c)
    PROVE  Atomic!GetOrCreate(c) \/ Atomic!NotFound(c)
<1> USE DEF Refind
<1>1. ASSUME NEW w \in WalletOf(owner[c], rows), Return(c, w) PROVE Atomic!GetOrCreate(c)
    BY <1>1, ReturnMaps
<1>2. ASSUME WalletOf(owner[c], rows) = {}, Throw(c, "notFound") PROVE Atomic!NotFound(c)
    <2>1. c \in Atomic!UnderWay
        BY UnderWayIs
    <2>2. owner[c] \in Owners /\ AbstractWallet[owner[c]] = NoWallet
        BY <1>2 DEF IInv, TypeOK, AbstractWallet, WalletAt
    <2>3. AbstractWallet' = AbstractWallet
        BY SameWallets
    <2> QED BY <1>2, <2>1, <2>2, <2>3 DEF Atomic!NotFound, Throw, AbstractWallet
<1> QED BY <1>1, <1>2

\* A failing save is seen by callers only if its commit was executed.
LEMMA SaveFailsMaps ==
    ASSUME IInv, IInv', NEW c \in Callers, SaveFails(c)
    PROVE  Atomic!Create(c) \/ UNCHANGED Atomic!vars
<1> USE DEF SaveFails, GoTo
<1>1. CASE rows' = rows
    BY <1>1, SameWallets DEF Atomic!vars, AbstractWallet
<1>2. CASE pc[c] = "committing" /\ rows' = rows \cup {NewWallet(c)}
    <2>1. c \in Atomic!UnderWay
        BY <1>2, UnderWayIs
    <2>2. /\ WalletAt(owner[c]) = NoWallet
          /\ AbstractWallet' = [AbstractWallet EXCEPT ![owner[c]] = c]
        BY <1>2, CommitCreates
    <2> QED BY <2>1, <2>2 DEF Atomic!Create, IInv, TypeOK, AbstractWallet
<1> QED BY <1>1, <1>2

LEMMA FindFailsMaps ==
    ASSUME IInv, NEW c \in Callers, FindFails(c) PROVE Atomic!Fail({c})
<1> USE DEF FindFails, Throw
<1>1. {c} \subseteq Atomic!UnderWay
    BY UnderWayIs
<1>2. AbstractWallet' = AbstractWallet
    BY SameWallets
<1>3. result' = [d \in Callers |-> IF d \in {c} THEN "error" ELSE result[d]]
    BY DEF IInv, TypeOK
<1> QED BY <1>1, <1>2, <1>3 DEF Atomic!Fail, AbstractWallet

LEMMA CrashMaps ==
    ASSUME IInv, Crash PROVE \E S \in SUBSET Callers : Atomic!Fail(S)
<1> DEFINE Dying == {c \in Callers : pc[c] # "done"}
<1>1. Dying \subseteq Atomic!UnderWay
    BY UnderWayIs
<1>2. AbstractWallet' = AbstractWallet
    BY SameWallets DEF Crash
<1>3. result' = [c \in Callers |-> IF c \in Dying THEN "lost" ELSE result[c]]
    BY DEF Crash
<1>4. UNCHANGED <<owner, found>>
    BY DEF Crash
<1> HIDE DEF Dying
<1>5. Atomic!Fail(Dying)
    BY <1>1, <1>2, <1>3, <1>4 DEF Atomic!Fail, AbstractWallet
<1>6. Dying \in SUBSET Callers
    BY DEF Dying
<1> QED BY <1>5, <1>6

LEMMA StepMaps == ASSUME IInv, IInv', [Next]_vars PROVE [Atomic!Next]_(Atomic!vars)
<1>1. ASSUME NEW c \in Callers, Find(c) PROVE [Atomic!Next]_(Atomic!vars)
    <2>1. ASSUME NEW w \in WalletOf(owner[c], rows), Return(c, w)
          PROVE  Atomic!GetOrCreate(c)
        BY <1>1, <2>1, ReturnMaps DEF Find
    <2>2. ASSUME GoTo(c, "inserting") PROVE UNCHANGED Atomic!vars
        BY <1>1, <2>2, SameWallets DEF Find, GoTo, Atomic!vars, AbstractWallet
    <2> QED BY <1>1, <2>1, <2>2 DEF Find, Atomic!Next
<1>2. ASSUME NEW c \in Callers, Insert(c) PROVE UNCHANGED Atomic!vars
    BY <1>2, SameWallets DEF Insert, GoTo, Atomic!vars, AbstractWallet
<1>3. ASSUME NEW c \in Callers, Commit(c) PROVE Atomic!Next
    BY <1>3, CommitMaps DEF Atomic!Next
<1>4. ASSUME NEW c \in Callers, Refind(c) PROVE Atomic!Next
    BY <1>4, RefindMaps DEF Atomic!Next
<1>5. ASSUME NEW c \in Callers, SaveFails(c) PROVE [Atomic!Next]_(Atomic!vars)
    BY <1>5, SaveFailsMaps DEF Atomic!Next
<1>6. ASSUME NEW c \in Callers, FindFails(c) PROVE Atomic!Next
    BY <1>6, FindFailsMaps DEF Atomic!Next
<1>7. ASSUME Crash PROVE Atomic!Next
    BY <1>7, CrashMaps DEF Atomic!Next
<1>8. ASSUME UNCHANGED vars PROVE UNCHANGED Atomic!vars
    BY <1>8, SameWallets DEF vars, Atomic!vars, AbstractWallet
<1> QED BY <1>1, <1>2, <1>3, <1>4, <1>5, <1>6, <1>7, <1>8 DEF Next, Progress

LEMMA InitMaps == Init => Atomic!Init
    BY DEF Init, Atomic!Init, WalletAt, WalletOf

\* ensureWallet, in its find, its save and its second find, gives callers what
\* one atomic get-or-create would, whatever races and whatever fails.
THEOREM Implementation == Spec => ImplementsAtomicEnsure
    BY InitMaps, StepMaps, Invariant, PTL DEF Spec, ImplementsAtomicEnsure, Atomic!Spec
=============================================================================
