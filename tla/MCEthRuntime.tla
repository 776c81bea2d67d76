---------------------------- MODULE MCEthRuntime ----------------------------
(***************************************************************************)
(* TLC instance of EthRuntime.                                              *)
(***************************************************************************)
EXTENDS EthRuntime
=============================================================================
