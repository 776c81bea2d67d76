-------------------------- MODULE NodeServiceProofs --------------------------
(***************************************************************************)
(* TLAPS proofs about NodeService, for every set of commands and every      *)
(* bound.  BuildProgress, together with TypeOK, is the inductive invariant; *)
(* the other safety properties and the refinement of ServiceLifecycle       *)
(* follow from it.                                                          *)
(***************************************************************************)
EXTENDS NodeService, TLAPS

\* The groups of variables keep the types of TypeOK across every step of
\* new_full, of the process around it, of RPC clients and of block import.
THEOREM TypeCorrect == SafeSpec => []TypeOK
<1>1. Init => TypeOK
  <2> SUFFICES ASSUME Init PROVE TypeOK
    OBVIOUS
  <2>1. /\ failures \in 0..MaxFailures
        /\ imported \in 0..MaxBlocks
        /\ notified \in 0..imported
        /\ mapped \in 0..imported
    BY MaxBlocksAssumption, MaxFailuresAssumption DEF Init
  <2>2. /\ voterState \in [{"rpc", "voter"} -> {"absent", "empty", "live"}]
        /\ command \in [Commands -> {"idle", "queued", "answered", "error"}]
    BY DEF Init
  <2>3. /\ pc \in BootSteps
        /\ network \in {"none", "built", "started"}
        /\ stream \in {"absent", "new_full", "author", "dropped"}
    BY DEF Init, BootSteps
  <2>4. QED
    BY <2>1, <2>2, <2>3, Zenon DEF Init, TypeOK
<1>2. TypeOK /\ [Next]_vars => TypeOK'
  <2> SUFFICES ASSUME TypeOK, [Next]_vars PROVE TypeOK'
    OBVIOUS
  <2> USE DEF TypeOK, BootSteps, Down, Tasks, PartialTasks, FrontierTasks, AuthorTasks,
          procVars, offerVars, sealVars, blockVars
  <2>1. CASE NewPartial
    BY <2>1 DEF NewPartial
  <2>2. CASE BuildNetwork
    BY <2>2 DEF BuildNetwork
  <2>3. CASE SpawnOffchainWorkers
    BY <2>3 DEF SpawnOffchainWorkers
  <2>4. CASE ServeRpc
    BY <2>4 DEF ServeRpc
  <2>5. CASE SpawnFrontierTasks
    BY <2>5 DEF SpawnFrontierTasks
  <2>6. CASE RunManualSealAuthorship
    BY <2>6 DEF RunManualSealAuthorship, DropQueued
  <2>7. CASE StartBabe
    BY <2>7 DEF StartBabe
  <2>8. CASE SkipAuthorship
    BY <2>8 DEF SkipAuthorship
  <2>9. CASE RunGrandpaVoter
    BY <2>9 DEF RunGrandpaVoter
  <2>10. CASE StartNetwork
    BY <2>10 DEF StartNetwork, DropQueued
  <2>11. CASE BootFails
    BY <2>11 DEF BootFails, TakeDown, DropQueued
  <2>12. ASSUME NEW t \in Tasks, TaskEnds(t) PROVE TypeOK'
    BY <2>12, MaxFailuresAssumption DEF TaskEnds, DropQueued
  <2>13. CASE Signal
    BY <2>13 DEF Signal
  <2>14. CASE Shutdown
    BY <2>14 DEF Shutdown, TakeDown, DropQueued
  <2>15. ASSUME NEW c \in Commands, CallManualSeal(c) PROVE TypeOK'
    BY <2>15 DEF CallManualSeal
  <2>16. ASSUME NEW c \in Commands, AnswerCommand(c) PROVE TypeOK'
    BY <2>16 DEF AnswerCommand
  <2>17. CASE ImportBlock
    BY <2>17, MaxBlocksAssumption DEF ImportBlock
  <2>18. CASE MapBlock
    BY <2>18, MaxBlocksAssumption DEF MapBlock
  <2>19. CASE UNCHANGED vars
    BY <2>19 DEF vars
  <2>20. QED
    BY <2>1, <2>2, <2>3, <2>4, <2>5, <2>6, <2>7, <2>8, <2>9, <2>10, <2>11, <2>12,
       <2>13, <2>14, <2>15, <2>16, <2>17, <2>18, <2>19
       DEF Next, BootStep
<1>3. QED
  BY <1>1, <1>2, PTL DEF SafeSpec

-----------------------------------------------------------------------------
\* At every position of new_full the tasks, protocol, network, RPC and command
\* stream are the ones its steps so far have made (service.rs:275-650).
THEOREM BuildProgressCorrect == SafeSpec => []BuildProgress
<1>1. Init => BuildProgress
  <2> SUFFICES ASSUME Init PROVE BuildProgress
    OBVIOUS
  <2>1. SpawnedBefore(pc) = {}
    BY DEF Init, SpawnedBefore
  <2>2. pc = "partial" /\ alive = {} /\ rpc = FALSE /\ network = "none" /\ stream = "absent"
    BY DEF Init
  <2>3. /\ pc \notin Down
        /\ alive \cap EssentialTasks \subseteq SpawnedBefore(pc)
        /\ SpawnedBefore(pc) \subseteq alive
        /\ pc \in {"partial", "network"}
        /\ pc \notin {"grandpa", "start"}
        /\ (pc \in {"frontier", "author", "grandpa", "start", "running"}) = FALSE
        /\ (network = "started") = FALSE
        /\ (pc = "running") = FALSE
        /\ stream # "dropped"
    BY <2>1, <2>2 DEF Down
  <2>4. QED
    BY <2>2, <2>3, Zenon DEF BuildProgress
<1>2. TypeOK /\ TypeOK' /\ BuildProgress /\ [Next]_vars => BuildProgress'
  <2> SUFFICES ASSUME TypeOK, TypeOK', BuildProgress, [Next]_vars PROVE BuildProgress'
    OBVIOUS
  <2> USE DEF BuildProgress, SpawnedBefore, Down, procVars, offerVars, sealVars, blockVars
  <2>t. /\ pc \in BootSteps \cup Down \cup {"running"}
        /\ config \in Configs
        /\ rpc \in BOOLEAN /\ essentialFailed \in BOOLEAN /\ grandpaProtocol \in BOOLEAN
    BY DEF TypeOK
  <2> USE DEF BootSteps, EssentialTasks, PartialTasks, FrontierTasks, AuthorTasks
  <2>1. CASE NewPartial
    BY <2>1, <2>t DEF NewPartial
  <2>2. CASE BuildNetwork
    BY <2>2, <2>t DEF BuildNetwork
  <2>3. CASE SpawnOffchainWorkers
    BY <2>3, <2>t DEF SpawnOffchainWorkers
  <2>4. CASE ServeRpc
    BY <2>4, <2>t DEF ServeRpc
  <2>5. CASE SpawnFrontierTasks
    BY <2>5, <2>t DEF SpawnFrontierTasks
  <2>6. CASE RunManualSealAuthorship
    BY <2>6, <2>t DEF RunManualSealAuthorship, IsAuthority, Configs
  <2>7. CASE StartBabe
    BY <2>7, <2>t DEF StartBabe, IsAuthority, Configs
  <2>8. CASE SkipAuthorship
    BY <2>8, <2>t DEF SkipAuthorship, IsAuthority, Configs
  <2>9. CASE RunGrandpaVoter
    BY <2>9, <2>t DEF RunGrandpaVoter, EnableGrandpa, IsAuthority, Configs
  <2>10. CASE StartNetwork
    BY <2>10, <2>t DEF StartNetwork, IsAuthority, Configs
  <2>11. CASE BootFails
    BY <2>11 DEF BootFails, TakeDown
  <2>12. ASSUME NEW t \in Tasks, TaskEnds(t) PROVE BuildProgress'
    BY <2>12, <2>t DEF TaskEnds, Tasks
  <2>13. CASE Signal
    BY <2>13 DEF Signal
  <2>14. CASE Shutdown
    BY <2>14 DEF Shutdown, TakeDown
  <2>15. ASSUME NEW c \in Commands, CallManualSeal(c) PROVE BuildProgress'
    BY <2>15 DEF CallManualSeal
  <2>16. ASSUME NEW c \in Commands, AnswerCommand(c) PROVE BuildProgress'
    BY <2>16 DEF AnswerCommand
  <2>17. CASE ImportBlock
    BY <2>17 DEF ImportBlock
  <2>18. CASE MapBlock
    BY <2>18 DEF MapBlock
  <2>19. CASE UNCHANGED vars
    BY <2>19 DEF vars
  <2>20. QED
    BY <2>1, <2>2, <2>3, <2>4, <2>5, <2>6, <2>7, <2>8, <2>9, <2>10, <2>11, <2>12,
       <2>13, <2>14, <2>15, <2>16, <2>17, <2>18, <2>19
       DEF Next, BootStep
<1>3. QED
  BY <1>1, <1>2, TypeCorrect, PTL DEF SafeSpec

-----------------------------------------------------------------------------
\* A service whose build has returned Ok runs exactly the essential tasks its
\* configuration calls for, or has a reported essential failure.
THEOREM RunningNodeIsCompleteCorrect == SafeSpec => []RunningNodeIsComplete
<1>1. TypeOK /\ BuildProgress => RunningNodeIsComplete
  BY DEF TypeOK, BuildProgress, RunningNodeIsComplete, SpawnedBefore, RequiredTasks, Down,
         EssentialTasks, PartialTasks, FrontierTasks, AuthorTasks
<1>2. QED
  BY <1>1, TypeCorrect, BuildProgressCorrect, PTL

\* The GRANDPA voter runs only over a network that has GRANDPA's protocol.
THEOREM VoterHasProtocolCorrect == SafeSpec => []VoterHasProtocol
<1>1. TypeOK /\ BuildProgress => VoterHasProtocol
  BY DEF TypeOK, BuildProgress, VoterHasProtocol, SpawnedBefore, Down,
         EssentialTasks, PartialTasks, FrontierTasks, AuthorTasks
<1>2. QED
  BY <1>1, TypeCorrect, BuildProgressCorrect, PTL

\* No block is imported behind the mapping-sync worker's back.
THEOREM NoImportMissedCorrect == SafeSpec => []NoImportMissed
<1>1. Init => NoImportMissed
  BY DEF Init, NoImportMissed
<1>2. TypeOK /\ BuildProgress /\ NoImportMissed /\ [Next]_vars => NoImportMissed'
  <2> SUFFICES ASSUME TypeOK, BuildProgress, NoImportMissed, [Next]_vars
               PROVE NoImportMissed'
    OBVIOUS
  <2>1. CASE ImportBlock
    <3>1. pc \in {"grandpa", "start", "running"}
      BY <2>1 DEF ImportBlock, BuildProgress, SpawnedBefore, Down, EssentialTasks,
                  PartialTasks, FrontierTasks, AuthorTasks
    <3>2. ~essentialFailed => "frontier-mapping-sync-worker" \in alive
      BY <3>1 DEF BuildProgress, SpawnedBefore, Down, FrontierTasks
    <3>3. QED
      BY <2>1, <3>2 DEF ImportBlock, NoImportMissed, TypeOK, procVars
  <2>2. ASSUME NEW t \in Tasks, TaskEnds(t) PROVE NoImportMissed'
    BY <2>2 DEF TaskEnds, NoImportMissed, blockVars
  <2>3. CASE MapBlock
    BY <2>3 DEF MapBlock, NoImportMissed, procVars
  <2>4. CASE BootStep
    BY <2>4 DEF BootStep, NewPartial, BuildNetwork, SpawnOffchainWorkers, ServeRpc,
                SpawnFrontierTasks, RunManualSealAuthorship, StartBabe, SkipAuthorship,
                RunGrandpaVoter, StartNetwork, NoImportMissed, blockVars
  <2>5. CASE BootFails \/ Signal \/ Shutdown
    BY <2>5 DEF BootFails, Signal, Shutdown, TakeDown, NoImportMissed, blockVars
  <2>6. ASSUME NEW c \in Commands, CallManualSeal(c) \/ AnswerCommand(c)
        PROVE NoImportMissed'
    BY <2>6 DEF CallManualSeal, AnswerCommand, NoImportMissed, blockVars, procVars
  <2>7. CASE UNCHANGED vars
    BY <2>7 DEF vars, NoImportMissed, procVars, blockVars
  <2>8. QED
    BY <2>1, <2>2, <2>3, <2>4, <2>5, <2>6, <2>7 DEF Next
<1>3. QED
  BY <1>1, <1>2, TypeCorrect, BuildProgressCorrect, PTL DEF SafeSpec

\* A manual-seal authority loses no accepted command while it stays up.
THEOREM ManualCommandsNotLostCorrect == SafeSpec => []ManualCommandsNotLost
<1>1. Init => ManualCommandsNotLost
  <2> SUFFICES ASSUME Init, NEW c \in Commands PROVE command[c] # "error"
    BY Zenon DEF ManualCommandsNotLost
  <2> QED
    BY DEF Init
<1>2. TypeOK /\ BuildProgress /\ ManualCommandsNotLost /\ [Next]_vars
        => ManualCommandsNotLost'
  <2> SUFFICES ASSUME TypeOK, BuildProgress, ManualCommandsNotLost, [Next]_vars
               PROVE ManualCommandsNotLost'
    OBVIOUS
  <2> USE DEF ManualCommandsNotLost, procVars, offerVars, sealVars, blockVars
  <2>1. CASE RunManualSealAuthorship
    BY <2>1 DEF RunManualSealAuthorship, Down
  <2>2. CASE StartNetwork
    BY <2>2 DEF StartNetwork, BuildProgress, Down
  <2>3. CASE BootStep /\ ~RunManualSealAuthorship /\ ~StartNetwork
    BY <2>3 DEF BootStep, NewPartial, BuildNetwork, SpawnOffchainWorkers, ServeRpc,
                SpawnFrontierTasks, StartBabe, SkipAuthorship, RunGrandpaVoter, Down
  <2>4. CASE BootFails \/ Shutdown
    BY <2>4 DEF BootFails, Shutdown, TakeDown, Down
  <2>5. ASSUME NEW t \in Tasks, TaskEnds(t) PROVE ManualCommandsNotLost'
    BY <2>5 DEF TaskEnds, EssentialTasks, AuthorTasks
  <2>6. ASSUME NEW c \in Commands, CallManualSeal(c) PROVE ManualCommandsNotLost'
    BY <2>6 DEF CallManualSeal, BuildProgress, TypeOK
  <2>7. ASSUME NEW c \in Commands, AnswerCommand(c) PROVE ManualCommandsNotLost'
    BY <2>7 DEF AnswerCommand, TypeOK
  <2>8. CASE Signal \/ ImportBlock \/ MapBlock \/ UNCHANGED vars
    BY <2>8 DEF Signal, ImportBlock, MapBlock, vars
  <2>9. QED
    BY <2>1, <2>2, <2>3, <2>4, <2>5, <2>6, <2>7, <2>8 DEF Next
<1>3. QED
  BY <1>1, <1>2, TypeCorrect, BuildProgressCorrect, PTL DEF SafeSpec

-----------------------------------------------------------------------------
\* Every step of the service is a step of its contract or a stutter: it goes
\* online with the end of the build, and down only for a cause.
THEOREM ImplementsSafeLifecycle == SafeSpec => Lifecycle!SafeSpec
<1>1. Init => Lifecycle!Init
  BY DEF Init, Lifecycle!Init, Down
<1>2. TypeOK /\ BuildProgress /\ BuildProgress' /\ [Next]_vars
        => [Lifecycle!Next]_Lifecycle!vars
  <2> SUFFICES ASSUME TypeOK, BuildProgress, BuildProgress', [Next]_vars
               PROVE [Lifecycle!Next]_Lifecycle!vars
    OBVIOUS
  <2> USE DEF Lifecycle!vars, Down, procVars, offerVars
  <2>t. essentialFailed \in BOOLEAN /\ signal \in BOOLEAN /\ rpc \in BOOLEAN
    BY DEF TypeOK
  <2>1. CASE NewPartial \/ BuildNetwork \/ SpawnOffchainWorkers \/ SpawnFrontierTasks
             \/ StartBabe \/ SkipAuthorship \/ RunGrandpaVoter
    BY <2>1, <2>t DEF NewPartial, BuildNetwork, SpawnOffchainWorkers, SpawnFrontierTasks,
                StartBabe, SkipAuthorship, RunGrandpaVoter, BuildProgress
  <2>2. CASE ServeRpc
    BY <2>2, <2>t DEF ServeRpc, BuildProgress, Lifecycle!Next, Lifecycle!Serve
  <2>3. CASE RunManualSealAuthorship \/ StartNetwork
    BY <2>3, <2>t DEF RunManualSealAuthorship, StartNetwork, BuildProgress,
                      Lifecycle!Next, Lifecycle!GoUp
  <2>4. CASE BootFails
    BY <2>4, <2>t DEF BootFails, MayFail, TakeDown, BuildProgress,
                      Lifecycle!Next, Lifecycle!FailBoot, Lifecycle!GoDown
  <2>5. CASE Shutdown
    BY <2>5, <2>t DEF Shutdown, TakeDown, BuildProgress,
                      Lifecycle!Next, Lifecycle!Stop, Lifecycle!GoDown
  <2>6. ASSUME NEW t \in Tasks, TaskEnds(t) PROVE [Lifecycle!Next]_Lifecycle!vars
    BY <2>6, <2>t DEF TaskEnds, BuildProgress, Lifecycle!Next, Lifecycle!Fault
  <2>7. CASE Signal
    BY <2>7, <2>t DEF Signal, Lifecycle!Next, Lifecycle!Fault
  <2>8. CASE ImportBlock \/ MapBlock \/ UNCHANGED vars
    BY <2>8 DEF ImportBlock, MapBlock, vars
  <2>9. ASSUME NEW c \in Commands, CallManualSeal(c) \/ AnswerCommand(c)
        PROVE [Lifecycle!Next]_Lifecycle!vars
    BY <2>9 DEF CallManualSeal, AnswerCommand
  <2>10. QED
    BY <2>1, <2>2, <2>3, <2>4, <2>5, <2>6, <2>7, <2>8, <2>9 DEF Next, BootStep
<1>3. QED
  BY <1>1, <1>2, TypeCorrect, BuildProgressCorrect, PTL DEF SafeSpec, Lifecycle!SafeSpec
=============================================================================
