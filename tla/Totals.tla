------------------------------- MODULE Totals -------------------------------
(***************************************************************************)
(* The total of the values of a function, in which the properties about    *)
(* sums of money are stated.                                               *)
(***************************************************************************)
EXTENDS Integers

\* The sum of f[x] for x in the finite set S, one member after the other.
Total(f, S) ==
    LET sum[T \in SUBSET S] ==
            IF T = {} THEN 0
            ELSE LET x == CHOOSE y \in T : TRUE IN f[x] + sum[T \ {x}]
    IN  sum[S]
=============================================================================
