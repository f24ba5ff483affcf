------------------------- MODULE MCReviewWorkflow -------------------------
(***************************************************************************)
(* Small instances of ReviewWorkflow for TLC: up to three calls, the       *)
(* requester and one manager, two payloads.                                *)
(***************************************************************************)
EXTENDS ReviewWorkflow, TLC

\* Calls differ in nothing but what they are asked to do.
CallSymmetry == Permutations(Calls)
=============================================================================
