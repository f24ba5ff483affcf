------------------------- MODULE MCPaginationCache -------------------------
(***************************************************************************)
(* A small instance of PaginationCache: two tabs and two replicas.         *)
(***************************************************************************)
EXTENDS PaginationCache, TLC

Symmetry == Permutations(Tabs) \cup Permutations(Replicas) \cup Permutations(QueryIds)
            \cup Permutations(Operators)
=============================================================================
