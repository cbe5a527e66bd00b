----------------------------- MODULE MCDecision -----------------------------
(***************************************************************************)
(* Decision on small instances: two members, one of whom is in the other   *)
(* group, too.                                                             *)
(***************************************************************************)
EXTENDS Decision, TLC

CONSTANTS f1, f2, o, c, x, m1, m2

\* Races of two finalizes: the first finds m1 ahead; the second, the two level;
\* the sync of the other group, m2 ahead, too.
RaceAnswers ==
  [r \in Run |-> [m \in Member |->
    CASE r = f1 -> IF m = m1 THEN {"high"} ELSE {"low"}
      [] r = x  -> {"high"}
      [] OTHER  -> {"low"}]]
RaceChecked == [r \in Run |-> {TRUE}]

\* The life of one result: m2 may have no team, or a result that does not
\* reconcile, and the other group's sync may have asked before the data was
\* checked.
LifeAnswers ==
  [r \in Run |-> [m \in Member |->
    CASE m = m1            -> {"low"}
      [] m = m2 /\ r = f1 -> {"none", "low"}
      [] OTHER             -> {"unreconciled"}]]
LifeChecked == [r \in Run |-> IF r = x THEN BOOLEAN ELSE {TRUE}]

Overridden == [j \in Overrider |-> {m1}]

Stored == {<<f1, m1>>, <<x, m2>>} \cap (Run \X Member)
=============================================================================
