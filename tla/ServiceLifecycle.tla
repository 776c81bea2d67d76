-------------------------- MODULE ServiceLifecycle --------------------------
(***************************************************************************)
(* What the node service promises to the process that runs it and to the   *)
(* clients that talk to it: the contract between `run_node_until_exit`      *)
(* (command.rs:219-224) and `new_full` (service.rs:275-650).                *)
(*                                                                          *)
(*   - RPC is opened once, while the service is still being built;          *)
(*   - the node goes online exactly when the build completes, and never     *)
(*     before RPC is served;                                                *)
(*   - it goes down either because the build failed, or, once up, because   *)
(*     of a fault (an essential task ended) or a termination signal;        *)
(*   - a node that is down is neither serving nor online, and stays down.   *)
(***************************************************************************)

VARIABLES
  phase,    \* "booting", "up" or "down"
  serving,  \* the RPC server accepts calls
  online,   \* the network worker was started
  fault     \* an essential task ended, or a termination signal arrived

vars == <<phase, serving, online, fault>>

Init ==
  /\ phase = "booting"
  /\ serving = FALSE
  /\ online = FALSE
  /\ fault = FALSE

\* The RPC server opens while later build steps are still to come.
Serve ==
  /\ phase = "booting"
  /\ ~serving
  /\ serving' = TRUE
  /\ UNCHANGED <<phase, online, fault>>

\* The build completes: the network starts and the service is handed over.
GoUp ==
  /\ phase = "booting"
  /\ serving
  /\ phase' = "up"
  /\ online' = TRUE
  /\ UNCHANGED <<serving, fault>>

\* Something that must end the service happens, at any time.
Fault ==
  /\ phase # "down"
  /\ fault' = TRUE
  /\ UNCHANGED <<phase, serving, online>>

GoDown ==
  /\ phase' = "down"
  /\ serving' = FALSE
  /\ online' = FALSE
  /\ UNCHANGED fault

\* A build step returned an error.
FailBoot == phase = "booting" /\ GoDown

\* An up service goes down for a fault, and for nothing else.
Stop == phase = "up" /\ fault /\ GoDown

Next == Serve \/ GoUp \/ Fault \/ FailBoot \/ Stop

\* The build always comes to an end, and a fault is always acted upon.
Fairness ==
  /\ WF_vars(Serve \/ GoUp \/ FailBoot)
  /\ WF_vars(Stop)

Spec == Init /\ [][Next]_vars /\ Fairness

\* The safety part alone, which the proofs refine.
SafeSpec == Init /\ [][Next]_vars
=============================================================================
