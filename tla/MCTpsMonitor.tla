---------------------------- MODULE MCTpsMonitor ----------------------------
(***************************************************************************)
(* TLC instances of TpsMonitor.                                             *)
(***************************************************************************)
EXTENDS TpsMonitor
=============================================================================
