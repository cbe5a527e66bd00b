---------------------------- MODULE MCFplRequests ----------------------------
(***************************************************************************)
(* FplRequests with three calls under way at once, so that an attempt can  *)
(* outlive the two that open the circuit; no bound on time or on the       *)
(* number of calls made one after the other.                               *)
(***************************************************************************)
EXTENDS FplRequests
=============================================================================
