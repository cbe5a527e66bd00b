------------------------------ MODULE MCSyncRun ------------------------------
(***************************************************************************)
(* SyncRun on small instances: two runs, and what they are for.            *)
(***************************************************************************)
EXTENDS SyncRun, TLC

CONSTANTS r1, r2

\* Jobs of one group: at most one with the long body (a group sync, or the
\* finalize that goes on to T4), and any other, with or without a run document.
GroupWork ==
  {w \in [Run -> {"group", "finalize", "members", "decision"}] :
     \E r \in Run : w[r] \in {"members", "decision"}}

\* A finalize that needs the bootstrap lock another run lives on.
SharedWork == {(r1 :> "finalize") @@ (r2 :> "bootstrap")}

\* Runs and processes are interchangeable (safety run only).
Symmetry == Permutations(Run) \cup Permutations(Process)
=============================================================================
