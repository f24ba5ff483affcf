------------------------- MODULE MCKeycloakSession -------------------------
(***************************************************************************)
(* Small instances of KeycloakSession: two requests in flight.             *)
(***************************************************************************)
EXTENDS KeycloakSession, TLC

Symmetry == Permutations(Slots)
=============================================================================
