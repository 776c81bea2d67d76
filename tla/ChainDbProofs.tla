---------------------------- MODULE ChainDbProofs ----------------------------
(***************************************************************************)
(* TLAPS proofs about ChainDb, for chains and histories of any length.      *)
(* TypeOK and FinalizedBlocksKept are proved together: the target of a      *)
(* Revert is a height only because the finalized block is on the chain.     *)
(***************************************************************************)
EXTENDS ChainDb, TLAPS

\* The height a Revert goes back to lies between the finalized and the best block.
LEMMA RevertTargetBounds ==
  ASSUME TypeOK, fin <= best, NEW n \in 1..MaxHeight
  PROVE  RevertTarget(n) \in Nat /\ fin <= RevertTarget(n) /\ RevertTarget(n) <= best
  BY MaxHeightAssumption DEF TypeOK, RevertTarget, Lesser

\* Every step keeps the types and never takes back a finalized block.
LEMMA StepKeepsHeights ==
  ASSUME TypeOK, FinalizedBlocksKept, [Next]_vars
  PROVE  TypeOK' /\ FinalizedBlocksKept'
<1> USE MaxHeightAssumption, MaxGenAssumption DEF procVars, chainVars, FinalizedBlocksKept
<1>1. ASSUME NEW f \in Backends, StartNode(f) \/ StartImportBlocks(f)
      PROVE TypeOK' /\ FinalizedBlocksKept'
  BY <1>1 DEF StartNode, StartImportBlocks, CommandLine, TypeOK, Blocks
<1>2. ASSUME NEW f \in Backends, PurgeFrontierDb(f)
      PROVE TypeOK' /\ FinalizedBlocksKept'
  BY <1>2 DEF PurgeFrontierDb, RemoveMapping, TypeOK, Blocks
<1>3. ASSUME NEW f \in Backends, NEW n \in 1..MaxHeight, RevertAux(f, n)
      PROVE TypeOK' /\ FinalizedBlocksKept'
  <2>1. RevertTarget(n) \in Nat /\ fin <= RevertTarget(n) /\ RevertTarget(n) <= best
    BY RevertTargetBounds
  <2>2. QED
    BY <1>3, <2>1 DEF RevertAux, TypeOK, Blocks
<1>4. CASE ImportBlock
  <2>1. ids' \in [1..MaxHeight -> 0..MaxGen]
    BY <1>4 DEF ImportBlock, TypeOK
  <2>2. QED
    BY <1>4, <2>1 DEF ImportBlock, TypeOK, Blocks
<1>5. CASE FinalizeBlock
  BY <1>5 DEF FinalizeBlock, TypeOK, Blocks
<1>6. CASE MapBlock
  <2>1. PICK b \in Chain \ mapping[flag] :
          mapping' = [mapping EXCEPT ![flag] = mapping[flag] \cup {b}]
    BY <1>6 DEF MapBlock
  <2>2. b \in Blocks
    BY <2>1 DEF Chain, BlockAt, Blocks, TypeOK
  <2>3. QED
    BY <1>6, <2>1, <2>2 DEF MapBlock, TypeOK
<1>7. CASE Exit
  BY <1>7 DEF Exit, TypeOK, Blocks
<1>8. CASE PurgeChainDb
  <2>1. UNCHANGED <<operator, flag, answer, target, mapping>> /\ proc' = "idle"
    BY <1>8 DEF PurgeChainDb
  <2>2. CASE RemoveChain
    BY <2>1, <2>2 DEF RemoveChain, NextGeneration, TypeOK, Blocks
  <2>3. CASE UNCHANGED chainVars
    BY <2>1, <2>3 DEF TypeOK, Blocks
  <2>4. QED
    BY <1>8, <2>2, <2>3 DEF PurgeChainDb
<1>9. CASE RevertChain
  BY <1>9 DEF RevertChain, NextGeneration, TypeOK, Blocks
<1>10. CASE UNCHANGED vars
  BY <1>10 DEF vars, TypeOK, Blocks
<1>11. QED
  BY <1>1, <1>2, <1>3, <1>4, <1>5, <1>6, <1>7, <1>8, <1>9, <1>10 DEF Next

\* The databases and the running command keep their types.
THEOREM TypeCorrect == SafeSpec => [](TypeOK /\ FinalizedBlocksKept)
<1>1. Init => TypeOK /\ FinalizedBlocksKept
  BY MaxHeightAssumption, MaxGenAssumption DEF Init, Backends, TypeOK, FinalizedBlocksKept
<1>2. QED
  BY <1>1, StepKeepsHeights, PTL DEF SafeSpec

\* No GRANDPA data of a block the chain does not have, whenever a Revert is killed.
THEOREM GrandpaAuxWithinChainCorrect == SafeSpec => []GrandpaAuxWithinChain
<1> DEFINE Inv == /\ GrandpaAuxWithinChain
                  /\ proc = "revert" => grandpaAux \subseteq 1..target
<1>1. Init => Inv
  BY DEF Init, GrandpaAuxWithinChain
<1>2. TypeOK /\ FinalizedBlocksKept /\ Inv /\ [Next]_vars => Inv'
  <2> SUFFICES ASSUME TypeOK, FinalizedBlocksKept, Inv, [Next]_vars PROVE Inv'
    OBVIOUS
  <2> USE MaxHeightAssumption DEF GrandpaAuxWithinChain, procVars, chainVars
  <2>1. ASSUME NEW f \in Backends, StartNode(f) \/ StartImportBlocks(f) \/ PurgeFrontierDb(f)
        PROVE Inv'
    BY <2>1 DEF StartNode, StartImportBlocks, PurgeFrontierDb
  <2>2. ASSUME NEW f \in Backends, NEW n \in 1..MaxHeight, RevertAux(f, n) PROVE Inv'
    BY <2>2 DEF RevertAux
  <2>3. CASE ImportBlock
    BY <2>3 DEF ImportBlock, TypeOK
  <2>4. CASE FinalizeBlock \/ MapBlock \/ Exit \/ UNCHANGED vars
    BY <2>4 DEF FinalizeBlock, MapBlock, Exit, vars
  <2>5. CASE PurgeChainDb
    BY <2>5 DEF PurgeChainDb, RemoveChain
  <2>6. CASE RevertChain
    BY <2>6 DEF RevertChain
  <2>7. QED
    BY <2>1, <2>2, <2>3, <2>4, <2>5, <2>6 DEF Next
<1>3. QED
  BY <1>1, <1>2, TypeCorrect, PTL DEF SafeSpec

\* A finalized block leaves the chain database only with the whole chain, and no other
\* block takes its place.
THEOREM FinalityIsForeverCorrect == SafeSpec => FinalityIsForever
<1> DEFINE Kept == /\ fin' >= fin
                   /\ best' < best => proc = "revert" /\ best' >= fin
                   /\ \A h \in 1..fin : BlockAt(h)' = BlockAt(h)
           Step == (proc = "purge" /\ best' = 0) \/ Kept
<1>1. TypeOK /\ FinalizedBlocksKept /\ [Next]_vars => [Step]_vars
  <2> SUFFICES ASSUME TypeOK, FinalizedBlocksKept, Next PROVE Step
    OBVIOUS
  <2>0. /\ fin \in Nat /\ best \in Nat /\ fin <= best /\ best <= MaxHeight
        /\ ids \in [1..MaxHeight -> 0..MaxGen]
    BY MaxHeightAssumption DEF TypeOK, FinalizedBlocksKept
  <2>1. ASSUME fin' >= fin, best' = best, ids' = ids PROVE Kept
    BY <2>0, <2>1 DEF BlockAt
  <2>2. ASSUME UNCHANGED <<fin, best, ids>> PROVE Kept
    BY <2>0, <2>1, <2>2
  <2>3. CASE ImportBlock
    <3>1. fin' = fin /\ best' = best + 1 /\ ids' = [ids EXCEPT ![best + 1] = gen]
      BY <2>3 DEF ImportBlock
    <3>2. \A h \in 1..fin : h \in 1..MaxHeight /\ h # best + 1
      BY <2>0, MaxHeightAssumption
    <3>3. \A h \in 1..fin : ids'[h] = ids[h]
      BY <2>0, <3>1, <3>2
    <3>4. fin' >= fin /\ ~(best' < best)
      BY <2>0, <3>1
    <3>5. QED
      BY <3>3, <3>4 DEF BlockAt
  <2>4. CASE FinalizeBlock
    BY <2>0, <2>1, <2>4 DEF FinalizeBlock
  <2>5. CASE PurgeChainDb
    BY <2>2, <2>5 DEF PurgeChainDb, RemoveChain, chainVars
  <2>6. CASE RevertChain
    <3>1. proc = "revert" /\ best' = target /\ fin <= target /\ UNCHANGED <<fin, ids>>
      BY <2>6 DEF RevertChain, FinalizedBlocksKept
    <3>2. target \in Nat
      BY MaxHeightAssumption DEF TypeOK
    <3>3. QED
      BY <2>0, <3>1, <3>2 DEF BlockAt
  <2>7. QED
    BY <2>2, <2>3, <2>4, <2>5, <2>6
       DEF Next, StartNode, StartImportBlocks, PurgeFrontierDb, RevertAux, MapBlock, Exit,
           chainVars
<1>2. QED
  BY <1>1, TypeCorrect, PTL DEF SafeSpec, FinalityIsForever

\* No action changes how the operator works, nor therefore whether that is careful.
LEMMA OperatorFixed ==
  ASSUME [Next]_vars
  PROVE  operator' = operator /\ Careful' = Careful
<1>1. operator' = operator
  BY DEF Next, vars, StartNode, StartImportBlocks, PurgeFrontierDb, RevertAux, ImportBlock,
         FinalizeBlock, MapBlock, Exit, PurgeChainDb, RevertChain
<1>2. QED
  BY <1>1 DEF Careful

\* For a careful operator the Frontier database never maps a block of a chain that
\* is gone, whenever a PurgeChain is killed.  The invariant adds that only the
\* backend type in use holds a mapping, and that it is empty while the question
\* about the chain database is open, after a yes to the first.
THEOREM NoStaleMappingCorrect == SafeSpec => []NoStaleMapping
<1> DEFINE FlagUsed == proc \in {"node", "import", "purge"} => flag \in operator.backends
<1> DEFINE OthersEmpty == \A b \in Backends : b \notin operator.backends => mapping[b] = {}
<1> DEFINE AllMapped == \A b \in Backends : mapping[b] \subseteq Chain
<1> DEFINE Purged == proc = "purge" /\ answer => \A b \in Backends : mapping[b] = {}
<1> DEFINE Inv == /\ FlagUsed
                  /\ OthersEmpty
                  /\ Careful => proc # "revert" /\ AllMapped /\ Purged
<1>1. Init => Inv
  BY DEF Init
<1>2. TypeOK /\ FinalizedBlocksKept /\ Inv /\ [Next]_vars => Inv'
  <2> SUFFICES ASSUME TypeOK, FinalizedBlocksKept, Inv, [Next]_vars PROVE Inv'
    OBVIOUS
  <2>1. operator' = operator /\ Careful' = Careful
    BY OperatorFixed
  <2>2. ASSUME NEW f \in Backends, StartNode(f) \/ StartImportBlocks(f) PROVE Inv'
    <3>1. /\ proc' \in {"node", "import"} /\ flag' = f /\ f \in operator.backends
          /\ UNCHANGED <<ids, best, mapping>>
      BY <2>2 DEF StartNode, StartImportBlocks, CommandLine, chainVars
    <3>2. AllMapped' = AllMapped
      BY <3>1 DEF Chain, BlockAt
    <3>3. QED
      BY <2>1, <3>1, <3>2
  <2>3. ASSUME NEW f \in Backends, PurgeFrontierDb(f) PROVE Inv'
    <3>1. /\ proc = "idle" /\ f \in operator.backends
          /\ flag' = f /\ Chain' = Chain
      BY <2>3 DEF PurgeFrontierDb, CommandLine, chainVars, Chain, BlockAt
    <3>2. CASE UNCHANGED mapping /\ ((proc' = "purge" /\ ~answer') \/ proc' = proc)
      BY <2>1, <3>1, <3>2
    <3>3. CASE RemoveMapping(f) /\ proc' = "purge"
      <4>1. /\ mapping'[f] = {}
            /\ \A b \in Backends : b # f => mapping'[b] = mapping[b]
        BY <3>3 DEF RemoveMapping, TypeOK
      <4>2. FlagUsed' /\ OthersEmpty'
        BY <2>1, <3>1, <4>1
      <4>3. ASSUME Careful PROVE \A b \in Backends : mapping'[b] = {}
        BY <3>1, <4>1, <4>3 DEF Careful
      <4>4. QED
        BY <2>1, <3>3, <4>2, <4>3
    <3>4. QED
      BY <2>3, <3>2, <3>3 DEF PurgeFrontierDb
  <2>4. ASSUME NEW f \in Backends, NEW n \in 1..MaxHeight, RevertAux(f, n) PROVE Inv'
    <3>1. ~Careful
      BY <2>4 DEF RevertAux, Careful
    <3>2. QED
      BY <2>1, <2>4, <3>1 DEF RevertAux
  <2>5. CASE ImportBlock
    <3>1. /\ proc \in {"node", "import"} /\ best' = best + 1
          /\ ids' = [ids EXCEPT ![best + 1] = gen]
          /\ UNCHANGED <<proc, flag, answer, mapping>>
      BY <2>5 DEF ImportBlock, procVars
    <3>2. Chain \subseteq Chain'
      <4>1. /\ best \in Nat /\ best <= MaxHeight /\ MaxHeight \in Nat
            /\ ids \in [1..MaxHeight -> 0..MaxGen]
        BY MaxHeightAssumption DEF TypeOK
      <4>2. \A h \in 1..best : h \in 1..(best + 1) /\ h \in 1..MaxHeight /\ h # best + 1
        BY <4>1
      <4>3. \A h \in 1..best : ids'[h] = ids[h]
        BY <3>1, <4>1, <4>2
      <4>4. QED
        BY <3>1, <4>2, <4>3 DEF Chain, BlockAt
    <3>3. QED
      BY <2>1, <3>1, <3>2
  <2>6. CASE MapBlock
    <3>1. /\ proc = "node" /\ Chain' = Chain
          /\ UNCHANGED <<proc, flag, answer>>
      BY <2>6 DEF MapBlock, procVars, chainVars, Chain, BlockAt
    <3>2. PICK b \in Chain : mapping' = [mapping EXCEPT ![flag] = mapping[flag] \cup {b}]
      BY <2>6 DEF MapBlock
    <3>3. /\ mapping'[flag] = mapping[flag] \cup {b}
          /\ \A c \in Backends : c # flag => mapping'[c] = mapping[c]
      BY <3>2 DEF TypeOK
    <3>4. FlagUsed' /\ OthersEmpty'
      BY <2>1, <3>1, <3>3
    <3>5. ASSUME Careful PROVE AllMapped'
      BY <3>1, <3>2, <3>3, <3>5
    <3>6. QED
      BY <2>1, <3>1, <3>4, <3>5
  <2>7. CASE FinalizeBlock \/ Exit \/ UNCHANGED vars
    <3>1. /\ Chain' = Chain
          /\ UNCHANGED <<flag, answer, mapping>>
          /\ proc' = proc \/ proc' = "idle"
      BY <2>7 DEF FinalizeBlock, Exit, vars, procVars, chainVars, Chain, BlockAt
    <3>2. QED
      BY <2>1, <3>1
  <2>8. CASE PurgeChainDb
    <3>1. /\ proc = "purge" /\ proc' = "idle"
          /\ UNCHANGED <<flag, answer, mapping>>
      BY <2>8 DEF PurgeChainDb
    <3>2. FlagUsed' /\ OthersEmpty'
      BY <2>1, <3>1
    <3>3. ASSUME Careful PROVE AllMapped'
      <4>1. CASE answer
        BY <3>1, <3>3, <4>1
      <4>2. CASE ~answer
        <5>1. UNCHANGED chainVars
          BY <2>8, <3>3, <4>2 DEF PurgeChainDb, Careful
        <5>2. QED
          BY <3>1, <3>3, <5>1 DEF chainVars, Chain, BlockAt
      <4>3. QED
        BY <4>1, <4>2
    <3>4. QED
      BY <2>1, <3>1, <3>2, <3>3
  <2>9. CASE RevertChain
    <3>1. ~Careful
      BY <2>9 DEF RevertChain
    <3>2. QED
      BY <2>1, <2>9, <3>1 DEF RevertChain
  <2>10. QED
    BY <2>2, <2>3, <2>4, <2>5, <2>6, <2>7, <2>8, <2>9 DEF Next
<1>3. QED
  BY <1>1, <1>2, TypeCorrect, PTL DEF SafeSpec, NoStaleMapping
=============================================================================
