---------------------------- MODULE MCValidators ----------------------------
(***************************************************************************)
(* TLC instance of Validators.                                              *)
(***************************************************************************)
EXTENDS Validators
=============================================================================
