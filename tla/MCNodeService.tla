--------------------------- MODULE MCNodeService ---------------------------
(***************************************************************************)
(* TLC instances of NodeService.  Every configuration of the command line   *)
(* is an initial state.                                                     *)
(***************************************************************************)
EXTENDS NodeService
=============================================================================
