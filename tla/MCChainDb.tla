----------------------------- MODULE MCChainDb -----------------------------
(***************************************************************************)
(* TLC instances of ChainDb.  Every way an operator may work is an initial  *)
(* state.                                                                   *)
(***************************************************************************)
EXTENDS ChainDb
=============================================================================
