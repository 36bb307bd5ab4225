--------------------------- MODULE MCPropagation ---------------------------
(***************************************************************************)
(* Finite instances of Propagation.                                        *)
(***************************************************************************)
EXTENDS Propagation, TLC

ServicesAlike == Permutations(Services)
=============================================================================
