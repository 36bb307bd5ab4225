---------------------------- MODULE MCTokenCache ----------------------------
(***************************************************************************)
(* Finite instances of TokenCache: four tokens, two of which expire at the *)
(* same time.                                                              *)
(***************************************************************************)
EXTENDS TokenCache, TLC

CONSTANTS t1, t2, t3, t4

MCExp == (t1 :> 2) @@ (t2 :> 3) @@ (t3 :> 3) @@ (t4 :> 6)
=============================================================================
