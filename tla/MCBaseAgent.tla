---------------------------- MODULE MCBaseAgent ----------------------------
(***************************************************************************)
(* Finite instances of BaseAgent: drivers and monitors are model values    *)
(* and, for safety, interchangeable.                                       *)
(***************************************************************************)
EXTENDS BaseAgent, TLC

CallersAlike == Permutations(Drivers) \cup Permutations(Monitors)
=============================================================================
