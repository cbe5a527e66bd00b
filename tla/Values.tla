------------------------------- MODULE Values -------------------------------
(***************************************************************************)
(* What the pure modules share: the absent value (null and undefined in    *)
(* the code, which the analytics never tell apart), functions that may     *)
(* lack a key (a Map), and the arithmetic of the statistics.               *)
(***************************************************************************)
EXTENDS Integers, Sequences, FiniteSets, FiniteSetsExt, SequencesExt, Functions

CONSTANT Null       \* the absent value

\* x ?? d
OrElse(x, d) == IF x = Null THEN d ELSE x

\* map.get(k) ?? d
Lookup(map, k, d) == IF k \in DOMAIN map THEN map[k] ELSE d

\* A value of S, or none of them.
Maybe(S) == S \cup {Null}

\* The sum of F(x) over the elements x of S.
SumOf(S, F(_)) == MapThenSumSet(F, S)

\* The elements of S on which F is greatest.
BestBy(S, F(_)) == {x \in S : \A y \in S : F(y) <= F(x)}

\* Math.round(a / b) for a positive b: halves are rounded up.
Rounded(a, b) == (2 * a + b) \div (2 * b)

\* The competition rank of x among S: one more than the number that beat it.
RankIn(S, x, F(_)) == 1 + Cardinality({y \in S : F(y) > F(x)})
=============================================================================
