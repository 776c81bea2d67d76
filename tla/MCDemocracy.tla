---------------------------- MODULE MCDemocracy ----------------------------
(***************************************************************************)
(* TLC instance of Democracy.                                               *)
(***************************************************************************)
EXTENDS Democracy
=============================================================================
