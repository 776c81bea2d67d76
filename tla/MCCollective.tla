---------------------------- MODULE MCCollective ----------------------------
(***************************************************************************)
(* TLC instances of Collective, for both bodies, with and without a Root    *)
(* that sets members.                                                       *)
(***************************************************************************)
EXTENDS Collective
=============================================================================
