-------------------------- MODULE MCSessionMemory --------------------------
(***************************************************************************)
(* A small instance of SessionMemory: two requests in flight.  Every       *)
(* operation treats each review request by itself, so one of them is       *)
(* enough; the theorems of SessionMemoryProofs are about any number.       *)
(***************************************************************************)
EXTENDS SessionMemory, TLC

Symmetry == Permutations(Ids) \cup Permutations(Slots)
=============================================================================
