------------------------------ MODULE ChainDb ------------------------------
(***************************************************************************)
(* What the commands of node/src/command.rs do to the databases on disk:    *)
(* the chain database (blocks, BABE and GRANDPA auxiliary data) and the     *)
(* Frontier database that maps Ethereum blocks to them, which lives beside  *)
(* it in one of two formats chosen by --frontier-backend-type.              *)
(*                                                                          *)
(* One process holds the chain database's lock at a time.  It may be killed *)
(* between any two writes; what it keeps in memory is lost, the databases   *)
(* stay as they are.  PurgeChain and Revert write in two steps.             *)
(*                                                                          *)
(* A block is <<generation, height>>: what is imported after a purge or a   *)
(* revert are other blocks than the ones that went.                         *)
(*                                                                          *)
(* The FrontierDb command, with which an operator edits single entries of a *)
(* key-value Frontier database by hand, is left out.                        *)
(***************************************************************************)
EXTENDS Integers, FiniteSets

CONSTANTS
  MaxHeight,  \* bound: height of a chain
  MaxGen      \* bound: number of times blocks are removed from the chain database

ASSUME MaxHeightAssumption == MaxHeight \in Nat
ASSUME MaxGenAssumption == MaxGen \in Nat

\* eth.rs: BackendType.
Backends == {"kv", "sql"}

\* How the operator works: the backend types given on command lines, whether
\* PurgeChain's two questions always get the same answer, whether Revert is used.
Operators == [backends : (SUBSET Backends) \ {{}}, sameAnswers : BOOLEAN, reverts : BOOLEAN]

VARIABLES
  operator, \* how the operator works, fixed
  proc,     \* what is running: "idle", "node", "import", "purge", "revert"
  flag,     \* its backend type
  answer,   \* PurgeChain: the answer given to the first question
  target,   \* Revert: the height to go back to
  \* on disk
  gen,      \* the generation of the blocks that are imported from now on
  ids,      \* the generation of the block at each height of the chain database
  best,     \* its best block's height; 0 is genesis, or no database
  fin,      \* its finalized height
  babeAux,  \* heights whose BABE epoch data and block weight are stored
  grandpaAux, \* heights whose GRANDPA authority changes are stored
  mapping   \* per backend type, the blocks its Frontier database maps

procVars == <<proc, flag, answer, target>>
chainVars == <<gen, ids, best, fin, babeAux, grandpaAux>>
vars == <<operator, procVars, chainVars, mapping>>

Blocks == (0..MaxGen) \X (1..MaxHeight)
BlockAt(h) == <<ids[h], h>>
Chain == {BlockAt(h) : h \in 1..best}

Init ==
  /\ operator \in Operators
  /\ proc = "idle"
  /\ flag = "kv"
  /\ answer = TRUE
  /\ target = 0
  /\ gen = 0
  /\ ids = [h \in 1..MaxHeight |-> 0]
  /\ best = 0
  /\ fin = 0
  /\ babeAux = {}
  /\ grandpaAux = {}
  /\ mapping = [b \in Backends |-> {}]

-----------------------------------------------------------------------------
(* Running the node, importing blocks *)

\* The operator starts a command with backend type f; the database is free.
CommandLine(f) == proc = "idle" /\ f \in operator.backends

\* `None`: build_full.  The node and ImportBlocks open both databases.
StartNode(f) ==
  /\ CommandLine(f)
  /\ proc' = "node"
  /\ flag' = f
  /\ UNCHANGED <<operator, answer, target, chainVars, mapping>>

StartImportBlocks(f) ==
  /\ CommandLine(f)
  /\ proc' = "import"
  /\ flag' = f
  /\ UNCHANGED <<operator, answer, target, chainVars, mapping>>

\* A block passes the BABE and GRANDPA block imports, whose auxiliary data are
\* written with the block.
ImportBlock ==
  /\ proc \in {"node", "import"}
  /\ best < MaxHeight
  /\ best' = best + 1
  /\ ids' = [ids EXCEPT ![best + 1] = gen]
  /\ babeAux' = babeAux \cup {best + 1}
  /\ grandpaAux' = grandpaAux \cup {best + 1}
  /\ UNCHANGED <<operator, procVars, gen, fin, mapping>>

FinalizeBlock ==
  /\ proc = "node"
  /\ fin < best
  /\ fin' = fin + 1
  /\ UNCHANGED <<operator, procVars, gen, ids, best, babeAux, grandpaAux, mapping>>

\* Faulty variant of MapBlock: only the block just notified is mapped.
MapBestBlock ==
  /\ proc = "node"
  /\ best > 0 /\ BlockAt(best) \notin mapping[flag]
  /\ mapping' = [mapping EXCEPT ![flag] = @ \cup {BlockAt(best)}]
  /\ UNCHANGED <<operator, procVars, chainVars>>

\* The mapping-sync worker, which only the full node spawns, walks the chain
\* back from its tips and writes what is missing.
MapBlock ==
  /\ proc = "node"
  /\ \E b \in Chain \ mapping[flag] :
       mapping' = [mapping EXCEPT ![flag] = @ \cup {b}]
  /\ UNCHANGED <<operator, procVars, chainVars>>

\* The process ends or is killed, in the middle of a command too.
Exit ==
  /\ proc # "idle"
  /\ proc' = "idle"
  /\ UNCHANGED <<operator, flag, answer, target, chainVars, mapping>>

-----------------------------------------------------------------------------
(* PurgeChain *)

RemoveMapping(f) == mapping' = [mapping EXCEPT ![f] = {}]

\* Blocks are removed: the next ones are of another generation.
NextGeneration == gen < MaxGen /\ gen' = gen + 1

RemoveChain ==
  /\ NextGeneration
  /\ best' = 0
  /\ fin' = 0
  /\ babeAux' = {}
  /\ grandpaAux' = {}
  /\ UNCHANGED ids

\* Faulty variant of PurgeFrontierDb: the Frontier database is left for later.
PurgeFrontierDbLater(f) ==
  /\ CommandLine(f)
  /\ flag' = f
  /\ proc' = "purge"
  /\ answer' \in BOOLEAN
  /\ UNCHANGED <<operator, target, chainVars, mapping>>

\* First the Frontier database of the backend type given on this command line.
\* For key-value, PurgeChainCmd asks, and a refusal is no error: the command goes
\* on to the chain database.  For SQL the directory goes without a question.
\* A database that does not exist counts as removed; any other error returns.
PurgeFrontierDb(f) ==
  /\ CommandLine(f)
  /\ flag' = f
  /\ \/ /\ proc' = "purge"
        /\ answer' = TRUE
        /\ RemoveMapping(f)
     \/ /\ f = "kv"
        /\ proc' = "purge"
        /\ answer' = FALSE
        /\ UNCHANGED mapping
     \/ /\ UNCHANGED <<proc, answer, mapping>>
  /\ UNCHANGED <<operator, target, chainVars>>

\* Then the chain database, with its own question.
PurgeChainDb ==
  /\ proc = "purge"
  /\ proc' = "idle"
  /\ \/ (operator.sameAnswers => answer) /\ RemoveChain
     \/ (operator.sameAnswers => ~answer) /\ UNCHANGED chainVars
  /\ UNCHANGED <<operator, flag, answer, target, mapping>>

-----------------------------------------------------------------------------
(* Revert *)

Lesser(a, b) == IF a < b THEN a ELSE b

\* Faulty variant of RevertTarget: the finalized height is not looked at.
RevertTargetUnbounded(n) == IF n < best THEN best - n ELSE 0

\* How far back n blocks go: never behind the finalized block.
RevertTarget(n) == best - Lesser(n, best - fin)

\* Faulty variant of RevertAux: the blocks go first.
RevertBlocksOnly(f, n) ==
  /\ operator.reverts
  /\ CommandLine(f)
  /\ proc' = "revert"
  /\ flag' = f
  /\ target' = RevertTarget(n)
  /\ best' = RevertTarget(n)
  /\ UNCHANGED <<operator, answer, gen, ids, fin, babeAux, grandpaAux, mapping>>

\* aux_revert, which the command runs first: GRANDPA's data alone.
RevertAux(f, n) ==
  /\ operator.reverts
  /\ CommandLine(f)
  /\ proc' = "revert"
  /\ flag' = f
  /\ target' = RevertTarget(n)
  /\ grandpaAux' = grandpaAux \cap (1..RevertTarget(n))
  /\ UNCHANGED <<operator, answer, gen, ids, best, fin, babeAux, mapping>>

\* Faulty variant of RevertChain: the finalized height is rewound too.
RevertChainAndFinality ==
  /\ proc = "revert"
  /\ proc' = "idle"
  /\ best' = target
  /\ fin' = 0
  /\ UNCHANGED <<operator, flag, answer, target, gen, ids, babeAux, grandpaAux, mapping>>

\* Then the blocks, if there are any to go.
RevertChain ==
  /\ proc = "revert"
  /\ proc' = "idle"
  /\ best' = target
  /\ IF target < best THEN NextGeneration ELSE UNCHANGED gen
  /\ UNCHANGED <<operator, flag, answer, target, ids, fin, babeAux, grandpaAux, mapping>>

-----------------------------------------------------------------------------
Next ==
  \/ \E f \in Backends :
       \/ StartNode(f) \/ StartImportBlocks(f) \/ PurgeFrontierDb(f)
       \/ \E n \in 1..MaxHeight : RevertAux(f, n)
  \/ ImportBlock \/ FinalizeBlock \/ MapBlock \/ Exit
  \/ PurgeChainDb \/ RevertChain

SafeSpec == Init /\ [][Next]_vars

\* The worker of a node that keeps running is polled at least every six seconds.
Spec == SafeSpec /\ WF_vars(MapBlock)

-----------------------------------------------------------------------------
(* Properties *)

\* Every variable has its type.
TypeOK ==
  /\ operator \in Operators
  /\ proc \in {"idle", "node", "import", "purge", "revert"}
  /\ flag \in Backends
  /\ answer \in BOOLEAN
  /\ target \in 0..MaxHeight
  /\ gen \in 0..MaxGen
  /\ ids \in [1..MaxHeight -> 0..MaxGen]
  /\ best \in 0..MaxHeight
  /\ fin \in 0..MaxHeight
  /\ babeAux \in SUBSET (1..MaxHeight)
  /\ grandpaAux \in SUBSET (1..MaxHeight)
  /\ mapping \in [Backends -> SUBSET Blocks]

\* Revert never takes back a finalized block, however many blocks the operator
\* names, and whatever was finalized between two commands (command.rs:143-154).
FinalizedBlocksKept ==
  /\ fin <= best
  /\ proc = "revert" => fin <= target /\ target <= best

\* A chain database holds no GRANDPA data of blocks it does not have, also when
\* Revert is killed between its two steps: the auxiliary data go first
\* (command.rs:148-152).
GrandpaAuxWithinChain == grandpaAux \subseteq 1..best

\* What the chain loses, it loses to Revert or PurgeChain: a running node only
\* appends and finalizes.  A finalized block goes only with the whole chain, and no
\* other block takes its place, also among those that grow again after a Revert.
FinalityIsForever ==
  [][\/ proc = "purge" /\ best' = 0
     \/ /\ fin' >= fin
        /\ best' < best => proc = "revert" /\ best' >= fin
        /\ \A h \in 1..fin : BlockAt(h)' = BlockAt(h)]_vars

\* One backend type, equal answers to both questions, no Revert.
Careful ==
  /\ \A a, b \in operator.backends : a = b
  /\ operator.sameAnswers
  /\ ~operator.reverts

\* For a careful operator the Frontier database never maps a block that the chain
\* database does not have, also when PurgeChain is killed half way: it removes
\* the mapping first (command.rs:99-140).
NoStaleMapping == Careful => \A b \in Backends : mapping[b] \subseteq Chain

\* Under a node that stays up every block becomes known to the Ethereum RPC,
\* whatever was imported without a worker, lost its mapping in a purge that was killed
\* half way, or took the place of a reverted block that is still mapped.
MappingCatchesUp ==
  \A h \in 1..MaxHeight :
    (h <= best /\ proc = "node") ~> (proc # "node" \/ BlockAt(h) \in mapping[flag])
=============================================================================
