---------------------------- MODULE NodeService ----------------------------
(***************************************************************************)
(* The node service: `new_full` (node/src/service.rs) building the node     *)
(* step by step while the tasks it has already spawned run, the process    *)
(* around it (`run_node_until_exit`), and the RPC calls and blocks that     *)
(* reach the node meanwhile.                                                *)
(*                                                                          *)
(* `new_full` is straight-line code, so its position is one variable, `pc`. *)
(* A step that ends in `?` has an error exit.  What makes it hard is that   *)
(* nothing waits for the build: the RPC server answers from the moment      *)
(* spawn_tasks returns, the block author from the moment it is spawned, and *)
(* an essential task that ends during the build is noticed only after it.   *)
(*                                                                          *)
(* Left out: telemetry (a non-essential task with no state of its own) and  *)
(* the choice of Frontier backend, which changes neither the order of the   *)
(* steps nor the tasks spawned (ChainDb models it).                         *)
(***************************************************************************)
EXTENDS Naturals, FiniteSets

CONSTANTS
  Commands,     \* engine_createBlock / engine_finalizeBlock calls of clients
  MaxBlocks,    \* bound: blocks imported in one run of the process
  MaxFailures   \* bound: tasks that end by themselves in one run

ASSUME MaxBlocksAssumption == MaxBlocks \in Nat
ASSUME MaxFailuresAssumption == MaxFailures \in Nat

VARIABLES
  \* The command line: role, --sealing, --disable-grandpa, offchain worker.
  config,
  \* The build and the process.
  pc,          \* the step of new_full to run next, or how it ended
  alive,       \* names of the tasks now running
  failures,    \* number of tasks that ended by themselves
  essentialFailed, \* the TaskManager's essential-failure channel has a message
  signal,      \* SIGINT or SIGTERM was received
  \* What the node offers.
  grandpaProtocol, \* GRANDPA's notification protocol is in the network config
  network,     \* "none", "built", "started"
  rpc,         \* the RPC server accepts calls
  voterState,  \* per SharedVoterState instance: "absent", "empty" or "live"
  \* Manual seal commands.
  stream,      \* who holds commands_stream: "absent", "new_full", "author", "dropped"
  command,     \* per command: "idle", "queued", "answered" or "error"
  \* Blocks.
  imported,    \* blocks imported by the client in this run
  notified,    \* of those, the ones delivered to the mapping-sync worker's stream
  mapped       \* of those, the ones written to the Frontier mapping

procVars == <<pc, alive, failures, essentialFailed, signal>>
offerVars == <<grandpaProtocol, network, rpc, voterState>>
sealVars == <<stream, command>>
blockVars == <<imported, notified, mapped>>
vars == <<config, procVars, offerVars, sealVars, blockVars>>

-----------------------------------------------------------------------------
(* Configuration and tasks *)

\* cli.rs: Option<Sealing>, and the fields of Configuration that new_full reads.
Configs == [role : {"authority", "full"},
            sealing : {"none", "manual", "instant"},
            disableGrandpa : BOOLEAN,
            offchainWorker : BOOLEAN]

\* Faulty variants of EnableGrandpa: the sealing test dropped; authorities only.
EnableGrandpaIgnoringSealing(c) == ~c.disableGrandpa
EnableGrandpaForAuthorities(c) ==
  c.role = "authority" /\ ~c.disableGrandpa /\ c.sealing = "none"

EnableGrandpa(c) == ~c.disableGrandpa /\ c.sealing = "none"

IsAuthority(c) == c.role = "authority"

\* Task groups by the name new_full spawns them under; "import-queue" and
\* "transaction-pool" are the ones new_partial hands to library code.
FrontierTasks ==
  {"frontier-mapping-sync-worker", "frontier-filter-pool", "frontier-fee-history"}
PartialTasks == {"import-queue", "transaction-pool"}
AuthorTasks == {"babe-proposer", "manual-seal"}
\* Faulty variant of EssentialTasks: the mapping worker spawned on spawn_handle().
EssentialTasksButMapping ==
  PartialTasks \cup AuthorTasks \cup {"frontier-filter-pool", "frontier-fee-history",
                                     "grandpa-voter"}

EssentialTasks == PartialTasks \cup FrontierTasks \cup AuthorTasks \cup {"grandpa-voter"}
Tasks == PartialTasks \cup FrontierTasks \cup AuthorTasks
           \cup {"grandpa-voter", "offchain-workers-runner"}

BootSteps == {"partial", "network", "offchain", "rpc", "frontier", "author",
              "grandpa", "start"}
Down == {"failed", "stopped"}

Init ==
  /\ config \in Configs
  /\ pc = "partial"
  /\ alive = {}
  /\ failures = 0
  /\ essentialFailed = FALSE
  /\ signal = FALSE
  /\ grandpaProtocol = FALSE
  /\ network = "none"
  /\ rpc = FALSE
  /\ voterState = [i \in {"rpc", "voter"} |-> "absent"]
  /\ stream = "absent"
  /\ command = [c \in Commands |-> "idle"]
  /\ imported = 0
  /\ notified = 0
  /\ mapped = 0

-----------------------------------------------------------------------------
(* Building the node: the steps of new_full *)

\* Dropping the receiver: the reply channels of the queued commands are dropped
\* with it and every waiting RPC call gets an error.
DropQueued == [c \in Commands |-> IF command[c] = "queued" THEN "error" ELSE command[c]]

\* Everything a terminating process or a dropped TaskManager takes with it.
TakeDown(how) ==
  /\ pc' = how
  /\ alive' = {}
  /\ network' = "none"
  /\ rpc' = FALSE
  /\ stream' = "dropped"
  /\ command' = DropQueued
  /\ UNCHANGED <<config, failures, essentialFailed, signal, grandpaProtocol,
                 voterState, blockVars>>

\* The `?` exits: new_partial (a SQL backend that cannot be opened panics
\* instead, with the same end), build_network, spawn_tasks, start_babe and
\* run_grandpa_voter.  run_manual_seal_authorship returns Ok on every path.
MayFail ==
  \/ pc \in {"partial", "network", "rpc"}
  \/ pc = "author" /\ IsAuthority(config) /\ config.sealing = "none"
  \/ pc = "grandpa" /\ EnableGrandpa(config)

BootFails == MayFail /\ TakeDown("failed")

\* new_partial and build_babe_grandpa_import_queue: client, pool and import
\* queue.  The queue is BABE's whatever `sealing` says.
NewPartial ==
  /\ pc = "partial"
  /\ pc' = "network"
  /\ alive' = alive \cup PartialTasks
  /\ UNCHANGED <<config, failures, essentialFailed, signal, offerVars, sealVars, blockVars>>

\* Faulty variant of BuildNetwork: the network starts as soon as it is built.
BuildNetworkStarted ==
  /\ pc = "network"
  /\ pc' = "offchain"
  /\ grandpaProtocol' = (config.sealing = "none")
  /\ network' = "started"
  /\ UNCHANGED <<config, alive, failures, essentialFailed, signal, rpc, voterState,
                 sealVars, blockVars>>

\* GRANDPA's protocol and warp sync only without manual sealing; build_network
\* makes a network worker that waits for network_starter.
BuildNetwork ==
  /\ pc = "network"
  /\ pc' = "offchain"
  /\ grandpaProtocol' = (config.sealing = "none")
  /\ network' = "built"
  /\ UNCHANGED <<config, alive, failures, essentialFailed, signal, rpc, voterState,
                 sealVars, blockVars>>

SpawnOffchainWorkers ==
  /\ pc = "offchain"
  /\ pc' = "rpc"
  /\ alive' = IF config.offchainWorker
                THEN alive \cup {"offchain-workers-runner"} ELSE alive
  /\ UNCHANGED <<config, failures, essentialFailed, signal, offerVars, sealVars, blockVars>>

\* The command channel, rpc_builder with an empty SharedVoterState of its own,
\* and spawn_tasks, which starts the RPC server.
ServeRpc ==
  /\ pc = "rpc"
  /\ pc' = "frontier"
  /\ stream' = "new_full"
  /\ rpc' = TRUE
  /\ voterState' = [voterState EXCEPT !["rpc"] = "empty"]
  /\ UNCHANGED <<config, alive, failures, essentialFailed, signal, grandpaProtocol,
                 network, command, blockVars>>

\* spawn_frontier_tasks: the mapping-sync worker takes its import notification
\* stream here, before any block of this run can be imported.
SpawnFrontierTasks ==
  /\ pc = "frontier"
  /\ pc' = "author"
  /\ alive' = alive \cup FrontierTasks
  /\ UNCHANGED <<config, failures, essentialFailed, signal, offerVars, sealVars, blockVars>>

\* Faulty variant of RunManualSealAuthorship: the arms of the match swapped.
RunManualSealSwapped ==
  /\ pc = "author"
  /\ IsAuthority(config)
  /\ config.sealing # "none"
  /\ pc' = "running"
  /\ alive' = alive \cup {"manual-seal"}
  /\ network' = "started"
  /\ IF config.sealing = "instant"
       THEN stream' = "author" /\ command' = command
       ELSE stream' = "dropped" /\ command' = DropQueued
  /\ UNCHANGED <<config, failures, essentialFailed, signal, grandpaProtocol, rpc,
                 voterState, blockVars>>

\* A manual-seal authority: the author task takes commands_stream (Manual) or
\* the stream is dropped with run_manual_seal_authorship's arguments (Instant);
\* the network starts and new_full returns early.
RunManualSealAuthorship ==
  /\ pc = "author"
  /\ IsAuthority(config)
  /\ config.sealing # "none"
  /\ pc' = "running"
  /\ alive' = alive \cup {"manual-seal"}
  /\ network' = "started"
  /\ IF config.sealing = "manual"
       THEN stream' = "author" /\ command' = command
       ELSE stream' = "dropped" /\ command' = DropQueued
  /\ UNCHANGED <<config, failures, essentialFailed, signal, grandpaProtocol, rpc,
                 voterState, blockVars>>

StartBabe ==
  /\ pc = "author"
  /\ IsAuthority(config)
  /\ config.sealing = "none"
  /\ pc' = "grandpa"
  /\ alive' = alive \cup {"babe-proposer"}
  /\ UNCHANGED <<config, failures, essentialFailed, signal, offerVars, sealVars, blockVars>>

SkipAuthorship ==
  /\ pc = "author"
  /\ ~IsAuthority(config)
  /\ pc' = "grandpa"
  /\ UNCHANGED <<config, alive, failures, essentialFailed, signal, offerVars, sealVars,
                 blockVars>>

\* run_grandpa_voter fills the SharedVoterState it is given, another fresh one.
RunGrandpaVoter ==
  /\ pc = "grandpa"
  /\ pc' = "start"
  /\ IF EnableGrandpa(config)
       THEN /\ alive' = alive \cup {"grandpa-voter"}
            /\ voterState' = [voterState EXCEPT !["voter"] = "live"]
       ELSE UNCHANGED <<alive, voterState>>
  /\ UNCHANGED <<config, failures, essentialFailed, signal, grandpaProtocol, network, rpc,
                 sealVars, blockVars>>

\* Faulty variant of StartNetwork: the stream is kept and read by nobody.
StartNetworkKeepingStream ==
  /\ pc = "start"
  /\ pc' = "running"
  /\ network' = "started"
  /\ UNCHANGED <<config, alive, failures, essentialFailed, signal, grandpaProtocol, rpc,
                 voterState, sealVars, blockVars>>

\* start_network and the end of new_full, where commands_stream, which no task
\* took on this path, goes out of scope.
StartNetwork ==
  /\ pc = "start"
  /\ pc' = "running"
  /\ network' = "started"
  /\ stream' = "dropped"
  /\ command' = DropQueued
  /\ UNCHANGED <<config, alive, failures, essentialFailed, signal, grandpaProtocol, rpc,
                 voterState, blockVars>>

BootStep ==
  \/ NewPartial \/ BuildNetwork \/ SpawnOffchainWorkers \/ ServeRpc
  \/ SpawnFrontierTasks \/ RunManualSealAuthorship \/ StartBabe \/ SkipAuthorship
  \/ RunGrandpaVoter \/ StartNetwork

-----------------------------------------------------------------------------
(* The process around the build *)

\* A task ends by itself (an error, a panic, a closed stream).  Only the end
\* of an essential one is reported to the TaskManager.
TaskEnds(t) ==
  /\ t \in alive
  /\ failures < MaxFailures
  /\ failures' = failures + 1
  /\ alive' = alive \ {t}
  /\ essentialFailed' = (essentialFailed \/ t \in EssentialTasks)
  /\ IF t = "manual-seal"
       THEN stream' = "dropped" /\ command' = DropQueued
       ELSE UNCHANGED sealVars
  /\ UNCHANGED <<config, pc, signal, offerVars, blockVars>>

Signal ==
  /\ pc \notin Down
  /\ ~signal
  /\ signal' = TRUE
  /\ UNCHANGED <<config, pc, alive, failures, essentialFailed, offerVars, sealVars,
                 blockVars>>

\* Faulty variant of Shutdown: the TaskManager is not polled.
ShutdownOnSignalOnly ==
  /\ pc = "running"
  /\ signal
  /\ TakeDown("stopped")

\* run_node_until_exit polls the TaskManager and the signals only once
\* build_full has returned.
Shutdown ==
  /\ pc = "running"
  /\ essentialFailed \/ signal
  /\ TakeDown("stopped")

-----------------------------------------------------------------------------
(* Manual seal RPC *)

\* create_full registers the ManualSeal methods when there is a command_sink,
\* that is, whenever --sealing was given.  Every call clones the sink, and a
\* fresh clone owns a slot of its own beyond the 1000 of the buffer: the send is
\* refused only when the receiver is gone.
CallManualSeal(c) ==
  /\ rpc
  /\ config.sealing # "none"
  /\ command[c] = "idle"
  /\ command' = [command EXCEPT ![c] = IF stream = "dropped" THEN "error" ELSE "queued"]
  /\ UNCHANGED <<config, procVars, offerVars, stream, blockVars>>

\* run_manual_seal takes a command and replies, with a block or with an error.
AnswerCommand(c) ==
  /\ "manual-seal" \in alive
  /\ stream = "author"
  /\ command[c] = "queued"
  /\ command' = [command EXCEPT ![c] = "answered"]
  /\ UNCHANGED <<config, procVars, offerVars, stream, blockVars>>

-----------------------------------------------------------------------------
(* Blocks *)

\* A block enters the client from the started network through the import queue,
\* or from the BABE proposer.  It reaches the mapping worker if the worker holds
\* a notification stream.  A manual-seal author adds none: with
\* consensus_data_provider None (service.rs:722, 733) its blocks carry no BABE
\* pre-digest and the runtime's slot assertion rejects every one of them.
ImportBlock ==
  /\ imported < MaxBlocks
  /\ \/ network = "started" /\ "import-queue" \in alive
     \/ "babe-proposer" \in alive
  /\ imported' = imported + 1
  /\ notified' = IF "frontier-mapping-sync-worker" \in alive THEN notified + 1 ELSE notified
  /\ UNCHANGED <<config, procVars, offerVars, sealVars, mapped>>

\* Faulty variant of MapBlock: maps blocks that are not there.
MapBlockUnchecked ==
  /\ "frontier-mapping-sync-worker" \in alive
  /\ mapped < MaxBlocks
  /\ mapped' = mapped + 1
  /\ UNCHANGED <<config, procVars, offerVars, sealVars, imported, notified>>

\* The mapping worker, woken by a notification or its interval, maps a block.
MapBlock ==
  /\ "frontier-mapping-sync-worker" \in alive
  /\ mapped < imported
  /\ mapped' = mapped + 1
  /\ UNCHANGED <<config, procVars, offerVars, sealVars, imported, notified>>

Next ==
  \/ BootStep
  \/ BootFails
  \/ \E t \in Tasks : TaskEnds(t)
  \/ Signal
  \/ Shutdown
  \/ \E c \in Commands : CallManualSeal(c) \/ AnswerCommand(c)
  \/ ImportBlock
  \/ MapBlock

\* new_full is straight-line code, the executor polls every woken task, and
\* run_node_until_exit polls the TaskManager.  Nothing makes clients call, tasks
\* fail or blocks arrive.
Fairness ==
  /\ WF_vars(BootStep \/ BootFails)
  /\ WF_vars(Shutdown)
  /\ \A c \in Commands : WF_vars(AnswerCommand(c))
  /\ WF_vars(MapBlock)

SafeSpec == Init /\ [][Next]_vars
Spec == SafeSpec /\ Fairness

-----------------------------------------------------------------------------
(* Properties *)

\* Every variable has its type; the counters keep their order.
TypeOK ==
  /\ config \in Configs
  /\ pc \in BootSteps \cup Down \cup {"running"}
  /\ alive \in SUBSET Tasks
  /\ failures \in 0..MaxFailures
  /\ essentialFailed \in BOOLEAN
  /\ signal \in BOOLEAN
  /\ grandpaProtocol \in BOOLEAN
  /\ network \in {"none", "built", "started"}
  /\ rpc \in BOOLEAN
  /\ voterState \in [{"rpc", "voter"} -> {"absent", "empty", "live"}]
  /\ stream \in {"absent", "new_full", "author", "dropped"}
  /\ command \in [Commands -> {"idle", "queued", "answered", "error"}]
  /\ imported \in 0..MaxBlocks
  /\ notified \in 0..imported
  /\ mapped \in 0..imported

\* What a node started with configuration c is for, task by task, stated from
\* the configuration alone and not from the order of the build.
RequiredTasks(c) ==
  PartialTasks \cup FrontierTasks
  \cup (IF c.role # "authority" THEN {}
        ELSE IF c.sealing = "none" THEN {"babe-proposer"} ELSE {"manual-seal"})
  \cup (IF c.sealing = "none" /\ ~c.disableGrandpa THEN {"grandpa-voter"} ELSE {})

\* When new_full has returned Ok, by its early return or at its end, exactly the
\* essential tasks its configuration calls for are running, unless one has ended
\* and the TaskManager has been told (service.rs:528-649, eth.rs:147-211).
RunningNodeIsComplete ==
  pc = "running" /\ ~essentialFailed =>
    alive \cap EssentialTasks = RequiredTasks(config)

\* The GRANDPA voter never runs over a network that was built without GRANDPA's
\* notification protocol: the tests at service.rs:344 and 398, fifty lines and
\* several tasks apart, agree, on the early-return path too.
VoterHasProtocol == "grandpa-voter" \in alive => grandpaProtocol

\* No block is imported before the mapping-sync worker listens: one that was not
\* delivered to it was imported after an essential task had ended
\* (service.rs:514-526 come before 597, 544 and 648).
NoImportMissed == notified < imported => essentialFailed

\* On a manual-seal authority (--sealing manual) a command the RPC accepted is
\* lost only when the build failed or the node is going down; commands sent
\* while the author is not yet spawned wait for it (service.rs:401, 530-547).
ManualCommandsNotLost ==
  \A c \in Commands :
    command[c] = "error" /\ IsAuthority(config) /\ config.sealing = "manual" =>
      essentialFailed \/ signal \/ pc \in Down

\* The essential tasks new_full has spawned when it stands at step p.
SpawnedBefore(p) ==
  (IF p = "partial" THEN {} ELSE PartialTasks)
  \cup (IF p \in {"author", "grandpa", "start", "running"} THEN FrontierTasks ELSE {})
  \cup (IF p \notin {"grandpa", "start", "running"} \/ config.role # "authority" THEN {}
        ELSE IF config.sealing = "none" THEN {"babe-proposer"} ELSE {"manual-seal"})
  \cup (IF p \in {"start", "running"} /\ config.sealing = "none" /\ ~config.disableGrandpa
          THEN {"grandpa-voter"} ELSE {})

\* The build, step by step: which tasks, protocol, network, RPC and command
\* stream exist at each position of new_full, whatever has ended meanwhile.
\* This is the invariant the other safety properties follow from.
BuildProgress ==
  /\ pc \in Down => alive = {} /\ ~rpc /\ network = "none"
  /\ pc \notin Down =>
       /\ alive \cap EssentialTasks \subseteq SpawnedBefore(pc)
       /\ ~essentialFailed => SpawnedBefore(pc) \subseteq alive
       /\ pc \notin {"partial", "network"} => grandpaProtocol = (config.sealing = "none")
       /\ rpc = (pc \in {"frontier", "author", "grandpa", "start", "running"})
       /\ (network = "started") = (pc = "running")
       /\ IsAuthority(config) /\ config.sealing = "manual" =>
            /\ pc \notin {"grandpa", "start"}
            /\ stream = "dropped" => essentialFailed

\* Every accepted command is settled: answered by the author or failed, also
\* when it was queued before the author existed, when the author dies, and when
\* new_full ends without handing the stream to anyone.
CommandsSettle ==
  \A c \in Commands : command[c] = "queued" ~> command[c] \in {"answered", "error"}

\* service.rs:641-642: an essential task that ends takes the service down with
\* it, also when it ends while the build is still going on.
EssentialFailureStopsService == essentialFailed ~> pc \in Down

\* An imported block is mapped for the Ethereum RPC, or the service goes down.
ImportsGetMapped ==
  \A n \in 1..MaxBlocks : imported >= n ~> (mapped >= n \/ pc \in Down)

\* The service implements its contract.
Lifecycle == INSTANCE ServiceLifecycle WITH
  phase <- IF pc = "running" THEN "up" ELSE IF pc \in Down THEN "down" ELSE "booting",
  serving <- rpc,
  online <- (network = "started"),
  fault <- (essentialFailed \/ signal)

\* new_full and the process around it implement ServiceLifecycle: online exactly
\* when the build is complete, down only for a cause, and then for good.
ImplementsLifecycle == Lifecycle!Spec

\* rpc/mod.rs:43-44: the SharedVoterState given to the RPC holds the voting round
\* of the running voter.
RpcSeesVotingRound ==
  rpc /\ "grandpa-voter" \in alive => voterState["rpc"] = "live"
=============================================================================
