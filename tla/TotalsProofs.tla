---------------------------- MODULE TotalsProofs ----------------------------
(***************************************************************************)
(* What the theorems about sums of money need to know of Total.  A         *)
(* recursive function is defined by CHOOSE, so that there is one that      *)
(* satisfies its equation is a lemma; it and the others are proved by      *)
(* taking a smallest counterexample, a number or a set.                    *)
(***************************************************************************)
EXTENDS Totals, FiniteSetTheorems, WellFoundedInduction, TLAPS

First(T) == CHOOSE y \in T : TRUE

\* g satisfies the equation of Total's function on the sets of D.
Adds(g, f, D) ==
    g = [T \in D |-> IF T = {} THEN 0 ELSE f[First(T)] + g[T \ {First(T)}]]

LEMMA FirstIsMember == ASSUME NEW T, T # {} PROVE First(T) \in T
    BY DEF First

LEMMA SmallestNumber ==
    ASSUME NEW B, B \subseteq Nat, B # {}
    PROVE  \E n \in B : \A m \in B : ~(m < n)
<1> DEFINE LessThan == {p \in Nat \X Nat : p[1] < p[2]}
<1>1. IsWellFoundedOn(LessThan, Nat)
    BY NatLessThanWellFounded DEF OpToRel
<1>2. PICK n \in B : \A m \in B : ~(<<m, n>> \in LessThan)
    <2> HIDE DEF LessThan
    <2> QED BY <1>1, WFMin
<1> QED BY <1>2

LEMMA SmallestSet ==
    ASSUME NEW S, IsFiniteSet(S), NEW B, B \subseteq SUBSET S, B # {}
    PROVE  \E T \in B : \A U \in B : U \subseteq T => U = T
<1>1. IsWellFoundedOn(StrictSubsetOrdering(S), SUBSET S)
    BY FS_StrictSubsetOrderingWellFounded, FS_FiniteSubsetsOfFinite
<1>2. PICK T \in B : \A U \in B : ~(<<U, T>> \in StrictSubsetOrdering(S))
    BY <1>1, WFMin
<1> QED BY <1>2 DEF StrictSubsetOrdering

LEMMA AdderUpTo ==
    ASSUME NEW S, IsFiniteSet(S), NEW f, NEW n \in Nat
    PROVE  \E g : Adds(g, f, {T \in SUBSET S : Cardinality(T) <= n})
<1> DEFINE D(m) == {T \in SUBSET S : Cardinality(T) <= m}
           B == {m \in Nat : ~\E g : Adds(g, f, D(m))}
<1>1. \A T \in SUBSET S : IsFiniteSet(T) /\ Cardinality(T) \in Nat
    BY FS_Subset, FS_CardinalityType
<1>2. ASSUME B # {} PROVE FALSE
    <2>1. PICK m \in B : \A k \in B : ~(k < m)
        <3> HIDE DEF B
        <3>1. B \subseteq Nat
            BY DEF B
        <3> QED BY <1>2, <3>1, SmallestNumber
    <2>2. CASE m = 0
        <3> DEFINE g == [T \in {{}} |-> 0]
        <3>1. D(m) = {{}}
            BY <1>1, <2>2, FS_EmptySet
        <3>2. Adds(g, f, {{}})
            BY DEF Adds
        <3> QED BY <3>1, <3>2
    <2>3. CASE m # 0
        <3>1. m - 1 \in Nat /\ m - 1 \notin B
            <4>1. m \in Nat /\ m - 1 \in Nat /\ m - 1 < m
                BY <2>3
            <4> HIDE DEF B
            <4> QED BY <2>1, <4>1
        <3>2. PICK g : Adds(g, f, D(m - 1))
            BY <3>1
        <3> DEFINE h == [T \in D(m) |->
                           IF T = {} THEN 0 ELSE f[First(T)] + g[T \ {First(T)}]]
        <3>3. D(m - 1) \subseteq D(m)
            BY <1>1, <2>1
        <3>4. \A T \in D(m) : T # {} => T \ {First(T)} \in D(m - 1)
            <4> SUFFICES ASSUME NEW T \in D(m), T # {}
                         PROVE  T \ {First(T)} \in D(m - 1)
                OBVIOUS
            <4>1. Cardinality(T \ {First(T)}) = Cardinality(T) - 1
                BY <1>1, FirstIsMember, FS_RemoveElement
            <4> QED BY <1>1, <4>1, <2>1
        <3> HIDE DEF D
        <3>5. \A T \in D(m - 1) : h[T] = g[T]
            BY <3>2, <3>3 DEF Adds
        <3>6. Adds(h, f, D(m))
            BY <3>4, <3>5 DEF Adds
        <3> QED BY <3>6 DEF D
    <2> QED BY <2>2, <2>3
<1> QED BY <1>2

LEMMA Adder ==
    ASSUME NEW S, IsFiniteSet(S), NEW f
    PROVE  \E g : Adds(g, f, SUBSET S) /\ Total(f, S) = g[S]
<1> DEFINE D == {T \in SUBSET S : Cardinality(T) <= Cardinality(S)}
<1>1. D = SUBSET S
    BY FS_Subset
<1>2. \E g : Adds(g, f, D)
    BY FS_CardinalityType, AdderUpTo
<1> HIDE DEF D
<1>3. \E g : Adds(g, f, SUBSET S)
    BY <1>1, <1>2
<1>4. Total(f, S) = (CHOOSE g : Adds(g, f, SUBSET S))[S]
    BY DEF Total, Adds, First
<1> QED BY <1>3, <1>4

\* Totals over the members of two sets agree where the functions do.
LEMMA AddersAgree ==
    ASSUME NEW S, IsFiniteSet(S), NEW R, R \subseteq S, NEW f, NEW e, NEW g, NEW h,
           \A x \in R : e[x] = f[x],
           Adds(g, f, SUBSET S), Adds(h, e, SUBSET R)
    PROVE  \A T \in SUBSET R : g[T] = h[T]
<1> DEFINE B == {T \in SUBSET R : g[T] # h[T]}
<1>1. ASSUME B # {} PROVE FALSE
    <2>1. PICK T \in B : \A U \in B : U \subseteq T => U = T
        <3>1. B \subseteq SUBSET R /\ IsFiniteSet(R)
            BY FS_Subset
        <3> HIDE DEF B
        <3> QED BY <1>1, <3>1, SmallestSet
    <2>2. CASE T = {}
        BY <2>1, <2>2 DEF Adds
    <2>3. CASE T # {}
        <3> DEFINE U == T \ {First(T)}
        <3>1. First(T) \in T /\ U \in SUBSET R /\ U \subseteq T /\ U # T
            BY <2>1, <2>3, FirstIsMember
        <3>2. g[U] = h[U]
            BY <2>1, <3>1
        <3>3. g[T] = f[First(T)] + g[U] /\ h[T] = e[First(T)] + h[U]
            BY <2>1, <2>3 DEF Adds
        <3> QED BY <2>1, <3>1, <3>2, <3>3
    <2> QED BY <2>2, <2>3
<1> QED BY <1>1

\* A total depends on the values at the members only.
LEMMA TotalOfValues ==
    ASSUME NEW S, IsFiniteSet(S), NEW f, NEW e, \A x \in S : e[x] = f[x]
    PROVE  Total(e, S) = Total(f, S)
<1>1. PICK g : Adds(g, f, SUBSET S) /\ Total(f, S) = g[S]
    BY Adder
<1>2. PICK h : Adds(h, e, SUBSET S) /\ Total(e, S) = h[S]
    BY Adder
<1>3. \A T \in SUBSET S : g[T] = h[T]
    BY <1>1, <1>2, AddersAgree
<1> QED BY <1>1, <1>2, <1>3

LEMMA TotalByFirst ==
    ASSUME NEW S, IsFiniteSet(S), NEW f
    PROVE  /\ S = {} => Total(f, S) = 0
           /\ S # {} => Total(f, S) = f[First(S)] + Total(f, S \ {First(S)})
<1>1. PICK g : Adds(g, f, SUBSET S) /\ Total(f, S) = g[S]
    BY Adder
<1>2. CASE S = {}
    BY <1>1, <1>2 DEF Adds
<1>3. CASE S # {}
    <2> DEFINE R == S \ {First(S)}
    <2>1. IsFiniteSet(R) /\ R \subseteq S
        BY FS_Subset
    <2>2. PICK h : Adds(h, f, SUBSET R) /\ Total(f, R) = h[R]
        BY <2>1, Adder
    <2>3. \A T \in SUBSET R : g[T] = h[T]
        <3> HIDE DEF R
        <3>1. \A x \in R : f[x] = f[x]
            OBVIOUS
        <3> QED BY <1>1, <2>1, <2>2, <3>1, AddersAgree
    <2>4. g[S] = f[First(S)] + g[R]
        BY <1>1, <1>3 DEF Adds
    <2> QED BY <1>1, <1>3, <2>2, <2>3, <2>4
<1> QED BY <1>2, <1>3

LEMMA TotalType ==
    ASSUME NEW S, IsFiniteSet(S), NEW f, \A x \in S : f[x] \in Int
    PROVE  Total(f, S) \in Int
<1> DEFINE B == {T \in SUBSET S : Total(f, T) \notin Int}
<1>1. ASSUME B # {} PROVE FALSE
    <2>1. PICK T \in B : \A U \in B : U \subseteq T => U = T
        <3>1. B \subseteq SUBSET S
            OBVIOUS
        <3> HIDE DEF B
        <3> QED BY <1>1, <3>1, SmallestSet
    <2>2. IsFiniteSet(T)
        BY FS_Subset
    <2>3. T # {}
        BY <2>2, TotalByFirst
    <2>4. Total(f, T) = f[First(T)] + Total(f, T \ {First(T)}) /\ First(T) \in T
        BY <2>2, <2>3, TotalByFirst, FirstIsMember
    <2>5. Total(f, T \ {First(T)}) \in Int
        BY <2>1, <2>4
    <2> QED BY <2>4, <2>5
<1> QED BY <1>1

\* The order does not matter: any member may be the one that is added last.
LEMMA TotalByMember ==
    ASSUME NEW S, IsFiniteSet(S), NEW f, \A x \in S : f[x] \in Int, NEW x \in S
    PROVE  Total(f, S) = f[x] + Total(f, S \ {x})
<1> DEFINE B == {T \in SUBSET S : \E y \in T : Total(f, T) # f[y] + Total(f, T \ {y})}
<1>1. ASSUME B # {} PROVE FALSE
    <2>1. PICK T \in B : \A U \in B : U \subseteq T => U = T
        <3>1. B \subseteq SUBSET S
            OBVIOUS
        <3> HIDE DEF B
        <3> QED BY <1>1, <3>1, SmallestSet
    <2>2. PICK y \in T : Total(f, T) # f[y] + Total(f, T \ {y})
        OBVIOUS
    <2> DEFINE z == First(T)
    <2>3. z \in T
        BY FirstIsMember
    <2>4. \A U \in SUBSET S : IsFiniteSet(U) /\ Total(f, U) \in Int
        BY FS_Subset, TotalType
    <2>5. Total(f, T) = f[z] + Total(f, T \ {z})
        BY <2>3, <2>4, TotalByFirst
    <2> HIDE DEF z
    <2>6. z # y
        BY <2>2, <2>5
    <2>7. \A u \in T : T \ {u} \in SUBSET S /\ T \ {u} \notin B
        BY <2>1
    <2> DEFINE U == (T \ {z}) \ {y}
    <2>8. U = (T \ {y}) \ {z} /\ U \in SUBSET S
        OBVIOUS
    <2>9. Total(f, T \ {z}) = f[y] + Total(f, U)
        BY <2>6, <2>7, <2>3
    <2>10. Total(f, T \ {y}) = f[z] + Total(f, U)
        BY <2>3, <2>6, <2>7, <2>8
    <2> HIDE DEF U, B
    <2>11. f[y] \in Int /\ f[z] \in Int /\ Total(f, U) \in Int
        <3>1. T \in SUBSET S
            BY DEF B
        <3> QED BY <2>3, <2>4, <2>8, <3>1
    <2> QED BY <2>2, <2>5, <2>9, <2>10, <2>11
<1> QED BY <1>1

\* One value changes: the total changes by as much.
LEMMA TotalAfterChange ==
    ASSUME NEW S, IsFiniteSet(S), NEW f, NEW e, NEW x \in S,
           \A y \in S : f[y] \in Int /\ e[y] \in Int,
           \A y \in S \ {x} : e[y] = f[y]
    PROVE  Total(e, S) = Total(f, S) + (e[x] - f[x])
<1>1. Total(e, S) = e[x] + Total(e, S \ {x}) /\ Total(f, S) = f[x] + Total(f, S \ {x})
    BY TotalByMember
<1>2. IsFiniteSet(S \ {x})
    BY FS_Subset
<1>3. Total(e, S \ {x}) = Total(f, S \ {x}) /\ Total(f, S \ {x}) \in Int
    BY <1>2, TotalOfValues, TotalType
<1> QED BY <1>1, <1>3
=============================================================================
