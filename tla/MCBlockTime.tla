---------------------------- MODULE MCBlockTime ----------------------------
(***************************************************************************)
(* TLC instances of BlockTime.                                              *)
(***************************************************************************)
EXTENDS BlockTime
=============================================================================
