---------------------------- MODULE MCCoreProcess ----------------------------
(***************************************************************************)
(* A step of time is 50 s, a sixth of the margin of 300 s; a request may   *)
(* last longer than the time between two looks at the token.               *)
(***************************************************************************)
EXTENDS CoreProcess

MCLifetimes == {6, 9, 72}
=============================================================================
