----------------------------- MODULE MCLeaseLock -----------------------------
(* LeaseLock with two runs, either of which may crash, for TLC.  No symmetry: *)
(* DeadHolderYields is a liveness property, and reducing by symmetry is not   *)
(* sound for those.                                                           *)
EXTENDS LeaseLock
=============================================================================
