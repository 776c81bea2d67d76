-------------------------- MODULE TpsMonitorProofs --------------------------
(***************************************************************************)
(* Proofs about TpsMonitor, for any number of slots, transactions, blocks,  *)
(* faults and overlapping head callbacks.                                   *)
(***************************************************************************)
EXTENDS TpsMonitor, FiniteSetTheorems, TLAPS

-----------------------------------------------------------------------------
(* Blocks and nonces *)

\* The number of transactions.
LEMMA TotalType == Slots * PerSlot \in Nat
BY SlotsAssumption

\* The size of a block that holds a run of nonces, each with one outcome.
LEMMA RunSize ==
  ASSUME NEW b \in Block, b.ok \cap b.bad = {}, NEW n \in Nat, NEW m \in Nat, n <= m,
         b.ok \cup b.bad = n .. (m - 1)
  PROVE  Size(b) = m - n
<1>1. PICK p \in Int : p = m - 1
  OBVIOUS
<1>2. IsFiniteSet(n .. p) /\ Cardinality(n .. p) = m - n /\ b.ok \cup b.bad = n .. p
  <2>1. n \in Int
    OBVIOUS
  <2>2. IsFiniteSet(n .. p) /\ Cardinality(n .. p) = IF n > p THEN 0 ELSE p - n + 1
    BY <2>1, FS_Interval
  <2> QED
    BY <1>1, <2>2
<1>3. IsFiniteSet(b.ok) /\ IsFiniteSet(b.bad)
  <2>1. b.ok \subseteq n .. p /\ b.bad \subseteq n .. p
    BY <1>2
  <2> QED
    BY <1>2, <2>1, FS_Subset
<1>4. /\ Cardinality(b.ok \cup b.bad)
           = Cardinality(b.ok) + Cardinality(b.bad) - Cardinality(b.ok \cap b.bad)
      /\ Cardinality(b.ok) \in Nat /\ Cardinality(b.bad) \in Nat
  BY <1>3, FS_Union, FS_CardinalityType
<1>5. Cardinality(b.ok \cap b.bad) = 0
  BY FS_EmptySet
<1>6. Cardinality(b.ok \cup b.bad) = m - n
  BY <1>2, Zenon
<1>7. Cardinality(b.ok) + Cardinality(b.bad) = m - n
  BY <1>4, <1>5, <1>6
<1> QED
  BY <1>7 DEF Size

\* A block that follows nonce n moves the sender's nonce to the end of its run.
LEMMA BlocksFromFacts ==
  ASSUME NEW n \in 0 .. (Slots * PerSlot), NEW b \in BlocksFrom(n)
  PROVE  /\ b \in Block
         /\ b.ok \cap b.bad = {}
         /\ n + Size(b) \in n .. (Slots * PerSlot)
         /\ b.ok \cup b.bad = n .. ((n + Size(b)) - 1)
<1>1. b \in Block /\ b.ok \cap b.bad = {}
  BY DEF BlocksFrom
<1>2. PICK m \in n .. (Slots * PerSlot) : b.ok \cup b.bad = n .. (m - 1)
  BY DEF BlocksFrom
<1>3. n \in Nat /\ m \in Nat /\ n <= m
  BY <1>2, TotalType
<1>4. Size(b) = m - n
  BY <1>1, <1>2, <1>3, RunSize
<1>5. n + Size(b) = m
  BY <1>3, <1>4
<1>6. n + Size(b) \in n .. (Slots * PerSlot)
  BY <1>2, <1>5
<1>7. (n + Size(b)) - 1 = m - 1
  BY <1>5
<1> QED
  BY <1>1, <1>2, <1>6, <1>7

-----------------------------------------------------------------------------
(* Types *)

\* The tip above the initial chain holds the run of nonces that ends at the sender's:
\* taking it away leads back to a nonce.
TipInv ==
  Len(chain) > InitHeight =>
    LET tip == chain[Len(chain)] IN
      /\ tip.ok \cap tip.bad = {}
      /\ \E n \in 0..nonce : tip.ok \cup tip.bad = n .. (nonce - 1)

\* A callback holds a block only of a height up to its head.
HoldInv ==
  \A k \in Heads : callback[k].at = "block" => callback[k].number \in 0..callback[k].head

\* No head, delivered or not, is above the chain: a replaced tip does not shorten it.
HeadInv ==
  /\ heads \in Seq(0..Len(chain))
  /\ \A k \in Heads : callback[k].head <= Len(chain)

\* What a callback is.
Callback == [at : {"off", "loop", "block", "end"}, head : 0..MaxHeight,
             number : (-Lookback) .. (MaxHeight + 1), block : Block]

\* The type invariant with what makes it inductive.
TypeInv == TypeOK /\ TipInv /\ HoldInv /\ HeadInv

\* A callback that moves to another place, number or block is still a callback.
LEMMA CallbackType ==
  ASSUME NEW f \in [Heads -> Callback], NEW k \in Heads, NEW c \in Callback,
         c.at = "block" => c.number \in 0..c.head,
         \A j \in Heads : f[j].at = "block" => f[j].number \in 0..f[j].head
  PROVE  /\ [f EXCEPT ![k] = c] \in [Heads -> Callback]
         /\ \A j \in Heads : [f EXCEPT ![k] = c][j].at = "block"
                               => [f EXCEPT ![k] = c][j].number \in 0..[f EXCEPT ![k] = c][j].head
OBVIOUS

\* Initially.
LEMMA TypeInit == Init => TypeInv
<1> SUFFICES ASSUME Init PROVE TypeInv
  OBVIOUS
<1>1. EmptyBlock \in Block /\ EmptyBlock.ok = {} /\ EmptyBlock.bad = {}
  BY DEF EmptyBlock, Block
<1>2. InitHeight \in Nat /\ MaxHeight \in Nat /\ InitHeight <= MaxHeight /\ Lookback \in Nat
  BY HeightsAssumption
<1>3. chain \in Seq(Block) /\ Len(chain) = InitHeight
  BY <1>1, <1>2 DEF Init
<1>4. Idle \in Callback /\ Idle.at = "off"
  BY <1>1, <1>2 DEF Idle, Callback
<1>5. callback \in [Heads -> Callback] /\ HoldInv
  BY <1>4 DEF Init, HoldInv
<1>6. /\ nonce \in 0 .. (Slots * PerSlot)
      /\ errors \in 0..MaxFaults /\ reorgs \in 0..MaxFaults
      /\ slot \in 0 .. (Slots - 1)
      /\ startBlockNumber \in (-Lookback) .. (MaxHeight + 1)
      /\ scanFrom \in (-Lookback) .. MaxHeight
  BY <1>2, TotalType, SlotsAssumption, FaultsAssumption DEF Init
<1>7. /\ pool \in SUBSET Txs
      /\ phase \in {"send", "monitor", "done", "crashed"}
      /\ send \in [Txs -> {"new", "sent", "error"}]
      /\ pendingTxs \in SUBSET Txs /\ successful \in SUBSET Txs /\ failed \in SUBSET Txs
      /\ visited \in SUBSET (0..MaxHeight)
      /\ subscribed \in BOOLEAN
  BY DEF Init
<1>8. heads \in Seq(0..MaxHeight) /\ heads \in Seq(0..Len(chain))
  BY DEF Init
<1>9. HeadInv
  BY <1>2, <1>3, <1>8 DEF Init, HeadInv, Idle
<1> QED
  BY <1>2, <1>3, <1>5, <1>6, <1>7, <1>8, <1>9 DEF TypeInv, TypeOK, TipInv, Callback

\* Appending keeps a sequence in its set.
LEMMA AppendType ==
  ASSUME NEW S, NEW q \in Seq(S), NEW x \in S
  PROVE  Append(q, x) \in Seq(S)
OBVIOUS

\* A sequence of small heights is one of larger ones.
LEMMA SeqMonotonic ==
  ASSUME NEW m \in Nat, NEW n \in Nat, m <= n, NEW q \in Seq(0..m)
  PROVE  q \in Seq(0..n)
<1>1. \A i \in 1..Len(q) : q[i] \in 0..n
  OBVIOUS
<1>2. q \in [1..Len(q) -> 0..n] /\ Len(q) \in Nat
  BY <1>1
<1> QED
  BY <1>2

\* One more fault stays within the bound.
LEMMA FaultBound ==
  ASSUME TypeInv, MayFault
  PROVE  errors + 1 \in 0..MaxFaults /\ reorgs + 1 \in 0..MaxFaults
BY FaultsAssumption DEF TypeInv, TypeOK, MayFault

\* The steps of the chain.
LEMMA TypeChain ==
  ASSUME TypeInv, ProduceBlock \/ ReplaceTip
  PROVE  TypeInv'
<1>0. /\ chain \in Seq(Block) /\ Len(chain) \in InitHeight..MaxHeight
      /\ nonce \in 0 .. (Slots * PerSlot) /\ reorgs \in 0..MaxFaults
      /\ heads \in Seq(0..MaxHeight) /\ subscribed \in BOOLEAN
      /\ InitHeight \in Nat /\ MaxHeight \in Nat /\ MaxFaults \in Nat
  BY HeightsAssumption, FaultsAssumption DEF TypeInv, TypeOK
<1>1. UNCHANGED <<pool, errors, phase, slot, send, pendingTxs, successful, failed,
                  startBlockNumber, scanFrom, visited, subscribed, callback>>
  BY DEF ProduceBlock, ReplaceTip, sendVars, resultVars, scanVars
<1>2. /\ chain' \in Seq(Block) /\ Len(chain') \in InitHeight..MaxHeight
      /\ nonce' \in 0 .. (Slots * PerSlot) /\ TipInv'
  <2>1. CASE ProduceBlock
    <3>1. PICK b \in BlocksFrom(nonce) : chain' = Append(chain, b) /\ nonce' = nonce + Size(b)
      BY <2>1 DEF ProduceBlock
    <3>2. /\ b \in Block /\ b.ok \cap b.bad = {} /\ nonce' \in nonce .. (Slots * PerSlot)
          /\ b.ok \cup b.bad = nonce .. (nonce' - 1)
      BY <1>0, <3>1, BlocksFromFacts
    <3>3. /\ chain' \in Seq(Block) /\ Len(chain') = Len(chain) + 1
          /\ chain'[Len(chain')] = b
      BY <1>0, <3>1, <3>2
    <3>4. nonce \in 0..nonce' /\ nonce' \in 0 .. (Slots * PerSlot)
      BY <1>0, <3>2, TotalType
    <3>5. Len(chain') \in InitHeight..MaxHeight
      BY <1>0, <2>1, <3>3 DEF ProduceBlock
    <3>6. TipInv'
      BY <3>2, <3>3, <3>4 DEF TipInv
    <3> QED
      BY <3>3, <3>4, <3>5, <3>6
  <2>2. CASE ReplaceTip
    <3> DEFINE tip == chain[Len(chain)]
               base == nonce - Size(tip)
    <3>1. PICK b \in BlocksFrom(base) :
            chain' = [chain EXCEPT ![Len(chain)] = b] /\ nonce' = base + Size(b)
      BY <2>2 DEF ReplaceTip
    <3>2. Len(chain) > InitHeight /\ Len(chain) \in 1..Len(chain)
      BY <1>0, <2>2 DEF ReplaceTip
    <3>3. tip \in Block /\ tip.ok \cap tip.bad = {}
      BY <1>0, <3>2 DEF TypeInv, TipInv
    <3>4. PICK n \in 0..nonce : tip.ok \cup tip.bad = n .. (nonce - 1)
      BY <3>2 DEF TypeInv, TipInv
    <3> HIDE DEF tip
    <3>5. Size(tip) = nonce - n
      <4>1. n \in Nat /\ nonce \in Nat /\ n <= nonce
        BY <1>0, <3>4
      <4> QED
        BY <3>3, <3>4, <4>1, RunSize
    <3>6. base = n /\ n \in 0 .. (Slots * PerSlot)
      BY <1>0, <3>4, <3>5, TotalType
    <3> HIDE DEF base
    <3>7. /\ b \in Block /\ b.ok \cap b.bad = {} /\ nonce' \in n .. (Slots * PerSlot)
          /\ b.ok \cup b.bad = n .. (nonce' - 1)
      BY <3>1, <3>6, BlocksFromFacts
    <3>8. /\ chain' \in Seq(Block) /\ Len(chain') = Len(chain) /\ chain'[Len(chain')] = b
      BY <1>0, <3>1, <3>2, <3>7
    <3>9. n \in 0..nonce' /\ nonce' \in 0 .. (Slots * PerSlot)
      BY <1>0, <3>4, <3>7, TotalType
    <3>10. TipInv'
      BY <3>7, <3>8, <3>9 DEF TipInv
    <3> QED
      BY <1>0, <3>8, <3>9, <3>10
  <2> QED
    BY <2>1, <2>2
<1>3. reorgs' \in 0..MaxFaults
  <2>1. reorgs' = reorgs \/ (MayFault /\ reorgs' = reorgs + 1)
    BY DEF ProduceBlock, ReplaceTip
  <2> QED
    BY <1>0, <2>1, FaultBound
<1>4. Len(chain') \in Nat /\ Len(chain') >= Len(chain) /\ Len(chain) \in Nat
  <2>1. CASE ProduceBlock
    <3>1. PICK b : chain' = Append(chain, b)
      BY <2>1 DEF ProduceBlock
    <3> QED
      BY <1>0, <1>2, <3>1
  <2>2. CASE ReplaceTip
    <3>1. PICK b : chain' = [chain EXCEPT ![Len(chain)] = b]
      BY <2>2 DEF ReplaceTip
    <3> QED
      BY <1>0, <1>2, <3>1
  <2> QED
    BY <2>1, <2>2
<1>5. heads' \in Seq(0..Len(chain')) /\ heads' \in Seq(0..MaxHeight)
  <2>1. heads \in Seq(0..Len(chain'))
    BY <1>4, SeqMonotonic DEF TypeInv, HeadInv
  <2>2. PICK h \in 0..Len(chain') : heads' \in {heads, Append(heads, h)}
    <3>1. CASE ProduceBlock
      <4>1. Len(chain') = Len(chain) + 1
        BY <1>0, <3>1 DEF ProduceBlock
      <4>2. heads' \in {heads, Append(heads, Len(chain) + 1)}
        BY <3>1 DEF ProduceBlock, Notify
      <4> QED
        BY <1>4, <4>1, <4>2
    <3>2. CASE ReplaceTip
      <4>1. heads' \in {heads, Append(heads, Len(chain))}
        BY <3>2 DEF ReplaceTip, Notify
      <4> QED
        BY <1>4, <4>1
    <3> QED
      BY <3>1, <3>2
  <2>3. Append(heads, h) \in Seq(0..Len(chain'))
    BY <2>1, AppendType
  <2>4. heads' \in Seq(0..Len(chain'))
    BY <2>1, <2>2, <2>3, Zenon
  <2>5. Len(chain') <= MaxHeight
    BY <1>0, <1>2
  <2> QED
    BY <1>0, <1>4, <2>4, <2>5, SeqMonotonic
<1>6. HeadInv'
  <2>1. \A k \in Heads : callback'[k].head <= Len(chain')
    <3>1. ASSUME NEW k \in Heads PROVE callback[k].head <= Len(chain')
      <4>1. callback[k].head \in 0..MaxHeight /\ callback[k].head <= Len(chain)
        BY DEF TypeInv, TypeOK, HeadInv
      <4> QED
        BY <1>4, <4>1
    <3> QED
      BY <1>1, <3>1
  <2> QED
    BY <1>5, <2>1 DEF HeadInv
<1>7. HoldInv'
  BY <1>1 DEF TypeInv, HoldInv
<1> QED
  BY <1>1, <1>2, <1>3, <1>5, <1>6, <1>7 DEF TypeInv, TypeOK

\* Sending and the start of the monitor.
LEMMA TypeClient ==
  ASSUME TypeInv, (\E t \in Txs : SendTx(t)) \/ NextSlot \/ StartMonitor
  PROVE  TypeInv'
<1>0. /\ TypeOK /\ chain \in Seq(Block) /\ Len(chain) \in InitHeight..MaxHeight
      /\ InitHeight \in Nat /\ MaxHeight \in Nat /\ MaxFaults \in Nat /\ Slots \in Nat
      /\ errors \in 0..MaxFaults /\ slot \in 0 .. (Slots - 1)
      /\ send \in [Txs -> {"new", "sent", "error"}] /\ pool \in SUBSET Txs
  BY HeightsAssumption, FaultsAssumption, SlotsAssumption DEF TypeInv, TypeOK
<1>1. UNCHANGED <<chain, nonce, reorgs, successful, failed, startBlockNumber, scanFrom,
                  visited, callback>>
  BY DEF SendTx, NextSlot, StartMonitor, chainVars, sendVars, resultVars, scanVars
<1>2. errors' \in 0..MaxFaults /\ slot' \in 0 .. (Slots - 1)
  <2>1. errors' = errors \/ (MayFault /\ errors' = errors + 1)
    BY DEF SendTx, NextSlot, StartMonitor, chainVars
  <2>2. slot' \in 0 .. (Slots - 1)
    BY <1>0 DEF SendTx, NextSlot, StartMonitor, sendVars
  <2> QED
    BY <1>0, <2>1, <2>2, FaultBound
<1>3. send' \in [Txs -> {"new", "sent", "error"}] /\ pool' \in SUBSET Txs
  BY <1>0 DEF SendTx, NextSlot, StartMonitor, chainVars, sendVars
<1>4. pendingTxs' \in SUBSET Txs
  <2>1. TxHashes \in SUBSET Txs
    BY DEF TxHashes
  <2>2. pendingTxs' \in {pendingTxs, TxHashes}
    BY DEF SendTx, NextSlot, StartMonitor, resultVars
  <2> QED
    BY <1>0, <2>1, <2>2 DEF TypeOK
<1>5. phase' \in {"send", "monitor", "done", "crashed"} /\ subscribed' \in BOOLEAN
  BY <1>0 DEF TypeOK, SendTx, NextSlot, StartMonitor
<1>6. heads' \in Seq(0..MaxHeight) /\ heads' \in Seq(0..Len(chain))
  <2>1. heads' \in {heads, <<Len(chain)>>}
    BY DEF SendTx, NextSlot, StartMonitor
  <2>2. Len(chain) \in 0..MaxHeight /\ Len(chain) \in 0..Len(chain)
    BY <1>0
  <2>3. <<Len(chain)>> \in Seq(0..MaxHeight) /\ <<Len(chain)>> \in Seq(0..Len(chain))
    BY <2>2
  <2> QED
    BY <1>0, <2>1, <2>3 DEF TypeInv, TypeOK, HeadInv
<1>7. TipInv' /\ HoldInv' /\ HeadInv'
  BY <1>1, <1>6 DEF TypeInv, TipInv, HoldInv, HeadInv
<1> QED
  BY <1>0, <1>1, <1>2, <1>3, <1>4, <1>5, <1>6, <1>7 DEF TypeInv, TypeOK

\* The timer.
LEMMA TypeTimeout ==
  ASSUME TypeInv, Timeout
  PROVE  TypeInv'
<1>0. TypeOK /\ TipInv /\ MaxHeight \in Nat /\ Lookback \in Nat
  BY HeightsAssumption DEF TypeInv
<1>1. /\ UNCHANGED <<chain, nonce, pool, errors, reorgs, slot, send, pendingTxs, successful,
                     failed, startBlockNumber, scanFrom, visited>>
      /\ phase' = "done" /\ subscribed' = FALSE /\ heads' = << >>
      /\ callback' = [k \in Heads |-> Idle]
  BY DEF Timeout, chainVars, sendVars, resultVars, scanVars
<1>2. Idle \in Callback /\ Idle.at = "off" /\ Idle.head = 0
  BY <1>0 DEF Idle, Callback, Block, EmptyBlock
<1>3. callback' \in [Heads -> Callback] /\ HoldInv'
  BY <1>1, <1>2 DEF HoldInv
<1>4. TipInv'
  BY <1>0, <1>1 DEF TipInv
<1>5. HeadInv'
  <2>1. Len(chain) \in Nat /\ chain' = chain
    BY <1>0, <1>1, HeightsAssumption DEF TypeOK
  <2>2. \A k \in Heads : callback'[k].head = 0
    BY <1>1, <1>2
  <2>3. heads' \in Seq(0..Len(chain))
    BY <1>1
  <2> QED
    BY <2>1, <2>2, <2>3 DEF HeadInv
<1>6. TypeOK'
  <2>1. heads' \in Seq(0..MaxHeight)
    BY <1>1
  <2> QED
    BY <1>0, <1>1, <1>3, <2>1 DEF TypeOK, Callback
<1> QED
  BY <1>3, <1>4, <1>5, <1>6 DEF TypeInv

\* The start of a head callback.
LEMMA TypeNewHead ==
  ASSUME TypeInv, NewHead
  PROVE  TypeInv'
<1>0. /\ TypeOK /\ HoldInv /\ callback \in [Heads -> Callback]
      /\ heads \in Seq(0..MaxHeight) /\ heads # << >>
      /\ heads \in Seq(0..Len(chain)) /\ \A j \in Heads : callback[j].head <= Len(chain)
      /\ MaxHeight \in Nat /\ Lookback \in Nat
      /\ startBlockNumber \in (-Lookback) .. (MaxHeight + 1)
      /\ scanFrom \in (-Lookback) .. MaxHeight
  BY HeightsAssumption DEF TypeInv, TypeOK, Callback, HeadInv, NewHead
<1> DEFINE current == Head(heads)
           start == IF startBlockNumber = 0 THEN current - Lookback ELSE startBlockNumber
           c == [at |-> "loop", head |-> current, number |-> start, block |-> EmptyBlock]
<1>1. PICK k \in Heads : /\ startBlockNumber' = start
                         /\ scanFrom' = IF startBlockNumber = 0 THEN start ELSE scanFrom
                         /\ callback' = [callback EXCEPT ![k] = c]
  BY DEF NewHead
<1>2. /\ current \in 0..MaxHeight /\ Tail(heads) \in Seq(0..MaxHeight)
      /\ current \in 0..Len(chain) /\ Tail(heads) \in Seq(0..Len(chain))
  BY <1>0
<1>3. heads' \in Seq(0..MaxHeight) /\ heads' \in Seq(0..Len(chain))
  BY <1>2 DEF NewHead
<1> HIDE DEF current
<1>4. /\ start \in (-Lookback) .. (MaxHeight + 1)
      /\ startBlockNumber = 0 => start \in (-Lookback) .. MaxHeight
  BY <1>0, <1>2
<1> HIDE DEF start
<1>5. EmptyBlock \in Block
  BY DEF EmptyBlock, Block
<1>6. c \in Callback /\ c.at = "loop" /\ c.head = current
  BY <1>2, <1>4, <1>5 DEF Callback
<1> HIDE DEF c
<1>7. callback' \in [Heads -> Callback] /\ HoldInv'
  BY <1>0, <1>1, <1>6, CallbackType DEF HoldInv
<1>8. startBlockNumber' \in (-Lookback) .. (MaxHeight + 1) /\ scanFrom' \in (-Lookback) .. MaxHeight
  BY <1>0, <1>1, <1>4
<1>9. UNCHANGED <<chain, nonce, pool, errors, reorgs, phase, slot, send, pendingTxs, successful,
                  failed, visited, subscribed>>
  BY DEF NewHead, chainVars, sendVars, resultVars
<1>10. TipInv'
  BY <1>9 DEF TypeInv, TipInv
<1>11. HeadInv'
  <2>1. \A j \in Heads : callback'[j].head <= Len(chain)
    BY <1>0, <1>1, <1>2, <1>6
  <2> QED
    BY <1>3, <1>9, <2>1 DEF HeadInv
<1> QED
  BY <1>0, <1>3, <1>7, <1>8, <1>9, <1>10, <1>11 DEF TypeInv, TypeOK, Callback

\* The steps of a callback's loop.
LEMMA TypeCallbackStep ==
  ASSUME TypeInv, NEW k \in Heads, CallbackStep(k)
  PROVE  TypeInv'
<1>0. /\ TypeOK /\ HoldInv /\ callback \in [Heads -> Callback]
      /\ HeadInv /\ chain \in Seq(Block) /\ Len(chain) \in InitHeight..MaxHeight
      /\ MaxHeight \in Nat /\ Lookback \in Nat /\ MaxFaults \in Nat
      /\ errors \in 0..MaxFaults /\ visited \in SUBSET (0..MaxHeight)
      /\ pendingTxs \in SUBSET Txs /\ successful \in SUBSET Txs /\ failed \in SUBSET Txs
      /\ startBlockNumber \in (-Lookback) .. (MaxHeight + 1)
  BY HeightsAssumption, FaultsAssumption DEF TypeInv, TypeOK, Callback
<1> DEFINE b == callback[k]
<1>1. /\ b \in Callback /\ b.head \in 0..MaxHeight /\ b.block \in Block
      /\ b.number \in (-Lookback) .. (MaxHeight + 1)
  BY <1>0 DEF Callback
<1>2. UNCHANGED <<chain, nonce, pool, reorgs, slot, send, scanFrom, heads>>
  BY DEF CallbackStep, GetBlockHash, ProcessBlock, EndOfLoop, chainVars, sendVars, scanVars
<1>3. errors' \in 0..MaxFaults
  <2>1. errors' = errors \/ (MayFault /\ errors' = errors + 1)
    BY DEF CallbackStep, GetBlockHash, ProcessBlock, EndOfLoop, chainVars
  <2> QED
    BY <1>0, <2>1, FaultBound
<1>4. b.at = "block" => b.number \in 0..b.head
  BY <1>0 DEF HoldInv
<1>5. startBlockNumber' \in (-Lookback) .. (MaxHeight + 1)
  BY <1>0, <1>1 DEF CallbackStep, GetBlockHash, ProcessBlock, EndOfLoop, scanVars
<1>6. visited' \in SUBSET (0..MaxHeight)
  <2>1. CASE ProcessBlock(k)
    <3>1. b.number \in 0..MaxHeight /\ visited' = visited \cup {b.number}
      BY <1>0, <1>1, <1>4, <2>1 DEF ProcessBlock
    <3> QED
      BY <1>0, <3>1
  <2>2. CASE GetBlockHash(k) \/ EndOfLoop(k)
    BY <1>0, <2>2 DEF GetBlockHash, EndOfLoop, scanVars
  <2> QED
    BY <2>1, <2>2 DEF CallbackStep
<1>7. pendingTxs' \in SUBSET Txs /\ successful' \in SUBSET Txs /\ failed' \in SUBSET Txs
  <2>1. CASE ProcessBlock(k)
    <3>1. RecordResults(b.block) \/ UNCHANGED resultVars
      BY <2>1 DEF ProcessBlock
    <3> QED
      BY <1>0, <3>1 DEF RecordResults, resultVars
  <2>2. CASE GetBlockHash(k) \/ EndOfLoop(k)
    BY <1>0, <2>2 DEF GetBlockHash, EndOfLoop, resultVars
  <2> QED
    BY <2>1, <2>2 DEF CallbackStep
<1>8. phase' \in {"send", "monitor", "done", "crashed"} /\ subscribed' \in BOOLEAN
  BY <1>0 DEF TypeOK, CallbackStep, GetBlockHash, ProcessBlock, EndOfLoop
<1>9. PICK c \in Callback : /\ callback' = [callback EXCEPT ![k] = c] /\ c.head = b.head
                            /\ c.at = "block" => c.number \in 0..c.head
  <2>1. CASE ProcessBlock(k)
    <3> DEFINE c == [b EXCEPT !.at = "loop", !.number = @ + 1]
    <3>1. callback' = [callback EXCEPT ![k] = c]
      BY <1>0, <2>1 DEF ProcessBlock, Callback
    <3>2. b.number + 1 \in (-Lookback) .. (MaxHeight + 1)
      BY <1>0, <1>1, <1>4, <2>1 DEF ProcessBlock
    <3>3. c \in Callback /\ c.at = "loop" /\ c.head = b.head
      BY <1>1, <3>2 DEF Callback
    <3> QED
      BY <3>1, <3>3
  <2>2. ASSUME callback' = [callback EXCEPT ![k].at = "end"]
        PROVE  \E c \in Callback : /\ callback' = [callback EXCEPT ![k] = c] /\ c.head = b.head
                                   /\ c.at = "block" => c.number \in 0..c.head
    <3> DEFINE c == [b EXCEPT !.at = "end"]
    <3>1. callback' = [callback EXCEPT ![k] = c] /\ c \in Callback /\ c.at = "end"
          /\ c.head = b.head
      BY <1>0, <1>1, <2>2 DEF Callback
    <3> QED
      BY <3>1
  <2>3. CASE GetBlockHash(k) /\ callback' # [callback EXCEPT ![k].at = "end"]
    <3> DEFINE d == BlockAt(b.number)
               c == [b EXCEPT !.at = "block", !.block = d]
    <3>1. /\ callback' = [callback EXCEPT ![k].at = "block", ![k].block = d]
          /\ b.number \in 0..b.head
      BY <1>1, <2>3 DEF GetBlockHash
    <3> HIDE DEF d
    <3>2. callback' = [callback EXCEPT ![k] = c]
      BY <1>0, <3>1 DEF Callback
    <3>3. d \in Block
      <4>1. b.head \in 0..Len(chain)
        BY <1>0, <1>1 DEF HeadInv
      <4>2. CASE b.number = 0
        BY <4>2 DEF d, BlockAt, EmptyBlock, Block
      <4>3. CASE b.number # 0
        <5>1. b.number \in 1..Len(chain)
          BY <1>0, <3>1, <4>1, <4>3
        <5> QED
          BY <1>0, <4>3, <5>1 DEF d, BlockAt
      <4> QED
        BY <4>2, <4>3
    <3>4. c \in Callback /\ c.number = b.number /\ c.head = b.head
      BY <1>1, <3>3 DEF Callback
    <3> QED
      BY <3>1, <3>2, <3>4
  <2> QED
    BY <2>1, <2>2, <2>3 DEF CallbackStep, EndOfLoop
<1>10. callback' \in [Heads -> Callback] /\ HoldInv'
  BY <1>0, <1>9, CallbackType DEF HoldInv
<1>11. TipInv'
  BY <1>2 DEF TypeInv, TipInv
<1>12. HeadInv'
  <2>1. \A j \in Heads : callback'[j].head = callback[j].head
    BY <1>0, <1>9
  <2> QED
    BY <1>0, <1>2, <2>1 DEF HeadInv
<1> QED
  BY <1>0, <1>2, <1>3, <1>5, <1>6, <1>7, <1>8, <1>10, <1>11, <1>12 DEF TypeInv, TypeOK, Callback

\* The inductive step.
LEMMA TypeNext == TypeInv /\ [Next]_vars => TypeInv'
<1> SUFFICES ASSUME TypeInv, [Next]_vars PROVE TypeInv'
  OBVIOUS
<1>1. CASE UNCHANGED vars
  BY <1>1 DEF TypeInv, TypeOK, TipInv, HoldInv, HeadInv, vars, chainVars, sendVars, resultVars,
              scanVars
<1> QED
  BY <1>1, TypeChain, TypeClient, TypeTimeout, TypeNewHead, TypeCallbackStep DEF Next, CallbackStep

\* The type invariant and its strengthening hold.
LEMMA TypeInvariance == SafeSpec => []TypeInv
BY TypeInit, TypeNext, PTL DEF SafeSpec

\* Every variable keeps its type: the nonce never leaves the nonces of the test, also
\* when the tip is replaced, and no callback reads above the chain
\* (transfer_tps_test.js:75-108).
THEOREM TypeCorrect == SafeSpec => []TypeOK
<1>1. TypeInv => TypeOK
  BY DEF TypeInv
<1> QED
  BY <1>1, TypeInvariance, PTL

-----------------------------------------------------------------------------
(* CountedOnce *)

\* A transaction has one outcome in a block.
OneOutcome(b) == b.ok \cap b.bad = {}

\* CountedOnce, with the results before the monitor starts and the blocks on the chain
\* and in the callbacks.
CountInv ==
  /\ phase = "send" => successful = {} /\ failed = {}
  /\ \A k \in Heads : OneOutcome(callback[k].block)
  /\ \A h \in 1..Len(chain) : OneOutcome(chain[h])
  /\ CountedOnce

\* What processBlock does with a block keeps the count: the results it takes out of
\* pendingTxs go to one of the others.
LEMMA RecordCounts ==
  ASSUME CountedOnce, phase = "monitor", NEW b, OneOutcome(b), RecordResults(b),
         UNCHANGED <<phase, send>>
  PROVE  CountedOnce'
<1>1. /\ pendingTxs \cup successful \cup failed = TxHashes
      /\ pendingTxs \cap successful = {}
      /\ pendingTxs \cap failed = {}
      /\ successful \cap failed = {}
  BY DEF CountedOnce
<1>2. TxHashes' = TxHashes
  BY DEF TxHashes
<1>3. /\ pendingTxs' \cap successful' = {} /\ pendingTxs' \cap failed' = {}
      /\ successful' \cap failed' = {}
  BY <1>1 DEF RecordResults, OneOutcome
<1>4. pendingTxs' \cup successful' \cup failed' = pendingTxs \cup successful \cup failed
  BY DEF RecordResults
<1> QED
  BY <1>1, <1>2, <1>3, <1>4 DEF CountedOnce

\* Every recorded transaction is pending, successful or failed, and only one of them,
\* for any overlap of callbacks, failed calls and replaced blocks
\* (transfer_tps_test.js:94-97, 148-165).
THEOREM CountedOnceCorrect == SafeSpec => []CountedOnce
<1>1. Init => CountInv
  <2> SUFFICES ASSUME Init PROVE CountInv
    OBVIOUS
  <2>1. OneOutcome(EmptyBlock)
    BY DEF OneOutcome, EmptyBlock
  <2>2. \A h \in 1..Len(chain) : chain[h] = EmptyBlock
    BY HeightsAssumption DEF Init
  <2>3. \A k \in Heads : callback[k].block = EmptyBlock
    BY DEF Init, Idle
  <2>4. phase = "send" /\ successful = {} /\ failed = {}
    BY DEF Init
  <2> QED
    BY <2>1, <2>2, <2>3, <2>4 DEF CountInv, CountedOnce
<1>2. TypeInv /\ CountInv /\ [Next]_vars => CountInv'
  <2> SUFFICES ASSUME TypeInv, CountInv, [Next]_vars PROVE CountInv'
    OBVIOUS
  <2>0. /\ phase = "send" => successful = {} /\ failed = {}
        /\ \A k \in Heads : OneOutcome(callback[k].block)
        /\ \A h \in 1..Len(chain) : OneOutcome(chain[h])
        /\ CountedOnce
        /\ callback \in [Heads -> Callback] /\ chain \in Seq(Block)
    BY DEF CountInv, TypeInv, TypeOK, Callback
  <2>1. ASSUME UNCHANGED <<phase, send, pendingTxs, successful, failed>>
        PROVE  CountedOnce' /\ (phase' = "send" => successful' = {} /\ failed' = {})
    BY <2>0, <2>1 DEF CountedOnce, TxHashes
  <2>2. CASE UNCHANGED vars
    BY <2>0, <2>1, <2>2 DEF CountInv, vars, chainVars, sendVars, resultVars
  <2>3. CASE ProduceBlock
    <3>1. PICK b \in BlocksFrom(nonce) : chain' = Append(chain, b)
      BY <2>3 DEF ProduceBlock
    <3>2. OneOutcome(b)
      BY <3>1 DEF BlocksFrom, OneOutcome
    <3>3. \A h \in 1..Len(chain') : OneOutcome(chain'[h])
      BY <2>0, <3>1, <3>2
    <3> QED
      BY <2>0, <2>1, <2>3, <3>3 DEF CountInv, ProduceBlock, sendVars, resultVars
  <2>4. CASE ReplaceTip
    <3> DEFINE base == nonce - Size(chain[Len(chain)])
    <3>1. PICK b \in BlocksFrom(base) : chain' = [chain EXCEPT ![Len(chain)] = b]
      BY <2>4 DEF ReplaceTip
    <3> HIDE DEF base
    <3>2. OneOutcome(b)
      BY <3>1 DEF BlocksFrom, OneOutcome
    <3>3. \A h \in 1..Len(chain') : OneOutcome(chain'[h])
      BY <2>0, <3>1, <3>2
    <3> QED
      BY <2>0, <2>1, <2>4, <3>3 DEF CountInv, ReplaceTip, sendVars, resultVars
  <2>5. ASSUME NEW t \in Txs, SendTx(t) PROVE CountInv'
    <3>1. /\ phase' = phase /\ phase = "send"
          /\ UNCHANGED <<chain, callback, pendingTxs, successful, failed>>
      BY <2>5 DEF SendTx, resultVars
    <3>2. CountedOnce'
      BY <3>1 DEF CountedOnce
    <3> QED
      BY <2>0, <3>1, <3>2 DEF CountInv
  <2>6. CASE NextSlot \/ Timeout
    <3>1. UNCHANGED <<chain, send, pendingTxs, successful, failed>>
      BY <2>6 DEF NextSlot, Timeout, chainVars, sendVars, resultVars
    <3>a. \A j \in Heads : OneOutcome(callback'[j].block)
      <4>1. callback' = callback \/ callback' = [k \in Heads |-> Idle]
        BY <2>6 DEF NextSlot, Timeout
      <4>2. OneOutcome(Idle.block)
        BY DEF OneOutcome, Idle, EmptyBlock
      <4> QED
        BY <2>0, <4>1, <4>2
    <3>2. phase' = phase \/ (phase = "monitor" /\ phase' = "done")
      BY <2>6 DEF NextSlot, Timeout
    <3>3. CountedOnce'
      BY <2>0, <3>1, <3>2 DEF CountedOnce, TxHashes
    <3> QED
      BY <2>0, <3>1, <3>2, <3>3, <3>a DEF CountInv
  <2>7. CASE StartMonitor
    <3>1. /\ phase = "send" /\ phase' # "send" /\ pendingTxs' = TxHashes
          /\ UNCHANGED <<chain, callback, send, successful, failed>>
      BY <2>7 DEF StartMonitor, sendVars
    <3>2. TxHashes' = TxHashes
      BY <3>1 DEF TxHashes
    <3>3. CountedOnce'
      BY <2>0, <3>1, <3>2 DEF CountedOnce
    <3> QED
      BY <2>0, <3>1, <3>3 DEF CountInv
  <2>8. CASE NewHead
    <3>1. \A j \in Heads : \/ callback'[j].block = callback[j].block
                           \/ callback'[j].block = EmptyBlock
      <4>1. PICK k \in Heads : \E x, y :
              callback' = [callback EXCEPT ![k] =
                 [at |-> "loop", head |-> x, number |-> y, block |-> EmptyBlock]]
        BY <2>8 DEF NewHead
      <4> QED
        BY <2>0, <4>1
    <3>2. \A j \in Heads : OneOutcome(callback'[j].block)
      BY <2>0, <3>1 DEF OneOutcome, EmptyBlock
    <3> QED
      BY <2>0, <2>1, <2>8, <3>2 DEF CountInv, NewHead, chainVars, sendVars, resultVars
  <2>9. ASSUME NEW k \in Heads, GetBlockHash(k) PROVE CountInv'
    <3>1. \A j \in Heads : OneOutcome(callback'[j].block)
      <4>1. CASE callback' = [callback EXCEPT ![k].at = "end"]
        BY <2>0, <4>1 DEF Callback
      <4>2. CASE /\ callback[k].number >= 0
                 /\ callback' = [callback EXCEPT ![k].at = "block",
                                                 ![k].block = BlockAt(callback[k].number)]
        <5>1. OneOutcome(BlockAt(callback[k].number))
          <6>1. CASE callback[k].number = 0
            BY <6>1 DEF BlockAt, EmptyBlock, OneOutcome
          <6>2. CASE callback[k].number # 0
            <7>1. callback[k].number \in 1..Len(chain)
              BY <2>0, <2>9, <4>2, <6>2 DEF GetBlockHash, Callback, TypeInv, HeadInv
            <7> QED
              BY <2>0, <6>2, <7>1 DEF BlockAt
          <6> QED
            BY <6>1, <6>2
        <5>2. \A j \in Heads : callback'[j].block = IF j = k THEN BlockAt(callback[k].number)
                                                             ELSE callback[j].block
          BY <2>0, <4>2 DEF Callback
        <5> QED
          BY <2>0, <5>1, <5>2
      <4> QED
        BY <2>9, <4>1, <4>2 DEF GetBlockHash
    <3>2. UNCHANGED <<chain, phase, send, pendingTxs, successful, failed>>
      BY <2>9 DEF GetBlockHash, sendVars, resultVars
    <3> QED
      BY <2>0, <2>1, <3>1, <3>2 DEF CountInv
  <2>10. ASSUME NEW k \in Heads, ProcessBlock(k) PROVE CountInv'
    <3>1. \A j \in Heads : OneOutcome(callback'[j].block)
      BY <2>0, <2>10 DEF ProcessBlock, Callback
    <3>2. phase = "monitor" /\ UNCHANGED <<chain, phase, send>>
      BY <2>10 DEF ProcessBlock, sendVars
    <3>3. CountedOnce'
      <4>1. CASE RecordResults(callback[k].block)
        BY <2>0, <3>2, <4>1, RecordCounts
      <4>2. CASE UNCHANGED resultVars
        BY <2>1, <3>2, <4>2 DEF resultVars
      <4> QED
        BY <2>10, <4>1, <4>2 DEF ProcessBlock
    <3> QED
      BY <2>0, <3>1, <3>2, <3>3 DEF CountInv
  <2>11. ASSUME NEW k \in Heads, EndOfLoop(k) PROVE CountInv'
    <3>1. \A j \in Heads : OneOutcome(callback'[j].block)
      BY <2>0, <2>11 DEF EndOfLoop, Callback
    <3>2. /\ phase = "monitor" /\ phase' \in {"monitor", "done"}
          /\ UNCHANGED <<chain, send, pendingTxs, successful, failed>>
      BY <2>11 DEF EndOfLoop, chainVars, sendVars, resultVars
    <3>3. CountedOnce'
      BY <2>0, <3>2 DEF CountedOnce, TxHashes
    <3> QED
      BY <2>0, <3>1, <3>2, <3>3 DEF CountInv
  <2> QED
    BY <2>2, <2>3, <2>4, <2>5, <2>6, <2>7, <2>8, <2>9, <2>10, <2>11 DEF Next
<1>3. CountInv => CountedOnce
  BY DEF CountInv
<1> QED
  BY <1>1, <1>2, <1>3, TypeInvariance, PTL DEF SafeSpec

-----------------------------------------------------------------------------
(* How the callbacks scan *)

\* A callback that has not left its loop.
Active(k) == callback[k].at \in {"loop", "block"}

\* No number that a scan goes on from is more than one above the chain; before the
\* monitor starts there is no scan; startBlockNumber 0, which a first callback takes for
\* unset, means that the scan starts at the bottom of the chain.
StartInv ==
  /\ phase = "send" => startBlockNumber = 0 /\ \A k \in Heads : callback[k].at = "off"
  /\ startBlockNumber = 0 => scanFrom = 0
  /\ startBlockNumber <= Len(chain) + 1
  /\ \A k \in Heads : Active(k) => callback[k].number <= Len(chain) + 1

\* The start of a head callback, as far as the scan is concerned.
CallbackStarts(k, start) ==
  /\ startBlockNumber # 0 => start = startBlockNumber /\ scanFrom' = scanFrom
  /\ startBlockNumber = 0 => start <= Len(chain) /\ scanFrom' = start
  /\ startBlockNumber' = start
  /\ callback'[k].at = "loop" /\ callback'[k].number = start
  /\ \A j \in Heads \ {k} : callback'[j] = callback[j]
  /\ phase = "monitor" /\ UNCHANGED <<chain, errors, reorgs, phase, pendingTxs, visited>>

\* NewHead starts one callback so.
LEMMA NewHeadFacts ==
  ASSUME TypeInv, NewHead
  PROVE  \E k \in Heads, start \in (-Lookback) .. (MaxHeight + 1) : CallbackStarts(k, start)
<1>0. /\ callback \in [Heads -> Callback]
      /\ heads \in Seq(0..MaxHeight) /\ heads # << >> /\ heads \in Seq(0..Len(chain))
      /\ MaxHeight \in Nat /\ Lookback \in Nat
      /\ startBlockNumber \in (-Lookback) .. (MaxHeight + 1)
      /\ scanFrom \in (-Lookback) .. MaxHeight
  BY HeightsAssumption DEF TypeInv, TypeOK, Callback, HeadInv, NewHead
<1> DEFINE current == Head(heads)
           start == IF startBlockNumber = 0 THEN current - Lookback ELSE startBlockNumber
           c == [at |-> "loop", head |-> current, number |-> start, block |-> EmptyBlock]
<1>1. PICK k \in Heads : /\ startBlockNumber' = start
                         /\ scanFrom' = IF startBlockNumber = 0 THEN start ELSE scanFrom
                         /\ callback' = [callback EXCEPT ![k] = c]
  BY DEF NewHead
<1>2. current \in 0..MaxHeight /\ current \in 0..Len(chain)
  BY <1>0
<1> HIDE DEF current
<1>3. /\ start \in (-Lookback) .. (MaxHeight + 1)
      /\ startBlockNumber # 0 => start = startBlockNumber
      /\ startBlockNumber = 0 => start <= Len(chain)
  BY <1>0, <1>2 DEF TypeInv, TypeOK
<1> HIDE DEF start
<1>4. /\ callback'[k].at = "loop" /\ callback'[k].number = start
      /\ \A j \in Heads \ {k} : callback'[j] = callback[j]
  BY <1>0, <1>1
<1>5. phase = "monitor" /\ UNCHANGED <<chain, errors, reorgs, phase, pendingTxs, visited>>
  BY DEF NewHead, chainVars, resultVars
<1> HIDE DEF c
<1> QED
  BY <1>1, <1>3, <1>4, <1>5 DEF CallbackStarts

\* What the other steps of a callback do to it.
LEMMA StepFacts ==
  ASSUME TypeInv, NEW k \in Heads, CallbackStep(k)
  PROVE  /\ phase = "monitor" /\ Active(k)
         /\ \A j \in Heads \ {k} : callback'[j] = callback[j]
         /\ UNCHANGED <<chain, reorgs, scanFrom>>
         /\ ~ProcessBlock(k) => /\ callback'[k].number = callback[k].number
                                /\ visited' = visited /\ pendingTxs' = pendingTxs
         /\ ~EndOfLoop(k) => startBlockNumber' = startBlockNumber /\ phase' = phase
         /\ EndOfLoop(k) => /\ callback'[k].at = "end" /\ phase' # "send"
                            /\ startBlockNumber' = callback[k].head + 1
                            /\ callback[k].number > callback[k].head
                            /\ errors' = errors
         /\ ProcessBlock(k) => /\ callback'[k].at = "loop"
                               /\ callback'[k].number = callback[k].number + 1
                               /\ visited' = visited \cup {callback[k].number}
                               /\ callback[k].at = "block"
<1>0. callback \in [Heads -> Callback]
  BY DEF TypeInv, TypeOK, Callback
<1>1. CASE GetBlockHash(k)
  BY <1>0, <1>1 DEF GetBlockHash, Active, Callback, scanVars, resultVars, ProcessBlock, EndOfLoop
<1>2. CASE ProcessBlock(k)
  BY <1>0, <1>2 DEF ProcessBlock, Active, Callback, EndOfLoop
<1>3. CASE EndOfLoop(k)
  BY <1>0, <1>3 DEF ProcessBlock, EndOfLoop, Active, Callback, chainVars, resultVars
<1> QED
  BY <1>1, <1>2, <1>3 DEF CallbackStep

\* The other steps leave the scan alone, or end it; without a replaced tip they only add to the
\* chain, and only the start of the monitor, before any scan, changes pendingTxs.
LEMMA QuietFacts ==
  ASSUME TypeInv, [Next]_vars, ~NewHead, \A k \in Heads : ~CallbackStep(k)
  PROVE  /\ UNCHANGED <<startBlockNumber, scanFrom, visited>>
         /\ \A k \in Heads : callback'[k] = callback[k] \/ callback'[k].at = "off"
         /\ Len(chain) \in Nat /\ Len(chain') \in Nat /\ Len(chain) <= Len(chain')
         /\ phase' = "send" => phase = "send"
         /\ pendingTxs' = pendingTxs \/ phase = "send"
         /\ reorgs' = reorgs => \A h \in 1..Len(chain) : chain'[h] = chain[h]
<1>0. chain \in Seq(Block) /\ Len(chain) \in Nat /\ reorgs \in Nat
  BY FaultsAssumption DEF TypeInv, TypeOK
<1>1. CASE ProduceBlock
  <2>1. PICK b \in BlocksFrom(nonce) : chain' = Append(chain, b)
    BY <1>1 DEF ProduceBlock
  <2>2. b \in Block
    BY <2>1 DEF BlocksFrom
  <2>3. /\ Len(chain') \in Nat /\ Len(chain) <= Len(chain')
        /\ \A h \in 1..Len(chain) : chain'[h] = chain[h]
    BY <1>0, <2>1, <2>2
  <2> QED
    BY <1>0, <1>1, <2>3 DEF ProduceBlock, scanVars, resultVars
<1>2. CASE ReplaceTip
  <2>1. PICK b : chain' = [chain EXCEPT ![Len(chain)] = b]
    BY <1>2 DEF ReplaceTip
  <2>2. Len(chain') = Len(chain)
    BY <1>0, <2>1
  <2>3. reorgs' # reorgs
    BY <1>0, <1>2 DEF ReplaceTip
  <2>4. Len(chain') \in Nat /\ Len(chain) <= Len(chain')
    BY <1>0, <2>2
  <2>5. UNCHANGED <<startBlockNumber, scanFrom, visited, callback, phase, pendingTxs>>
    BY <1>2 DEF ReplaceTip, scanVars, resultVars
  <2> QED
    BY <1>0, <2>3, <2>4, <2>5
<1>3. CASE (\E t \in Txs : SendTx(t)) \/ NextSlot \/ StartMonitor \/ Timeout
  <2>1. /\ UNCHANGED <<startBlockNumber, scanFrom, visited, chain>>
        /\ callback' = callback \/ callback' = [k \in Heads |-> Idle]
        /\ phase' = "send" => phase = "send"
        /\ pendingTxs' = pendingTxs \/ phase = "send"
    BY <1>3 DEF SendTx, NextSlot, StartMonitor, Timeout, chainVars, scanVars, resultVars
  <2>2. /\ Len(chain') \in Nat /\ Len(chain) <= Len(chain')
        /\ \A h \in 1..Len(chain) : chain'[h] = chain[h]
    BY <1>0, <2>1
  <2>3. \A k \in Heads : callback'[k] = callback[k] \/ callback'[k].at = "off"
    BY <2>1 DEF Idle
  <2> QED
    BY <1>0, <2>1, <2>2, <2>3
<1>4. CASE UNCHANGED vars
  <2>1. UNCHANGED <<startBlockNumber, scanFrom, visited, callback, chain, phase, pendingTxs>>
    BY <1>4 DEF vars, chainVars, scanVars, resultVars
  <2>2. /\ Len(chain') \in Nat /\ Len(chain) <= Len(chain')
        /\ \A h \in 1..Len(chain) : chain'[h] = chain[h]
    BY <1>0, <2>1
  <2> QED
    BY <1>0, <2>1, <2>2
<1> QED
  BY <1>1, <1>2, <1>3, <1>4 DEF Next, CallbackStep

\* StartInv holds.
LEMMA StartInvariance == SafeSpec => []StartInv
<1>1. Init => StartInv
  <2> SUFFICES ASSUME Init PROVE StartInv
    OBVIOUS
  <2>1. Len(chain) = InitHeight /\ InitHeight \in Nat
    BY HeightsAssumption DEF Init
  <2>2. \A k \in Heads : callback[k].at = "off"
    BY DEF Init, Idle
  <2> QED
    BY <2>1, <2>2 DEF Init, StartInv, Active
<1>2. TypeInv /\ StartInv /\ [Next]_vars => StartInv'
  <2> SUFFICES ASSUME TypeInv, StartInv, [Next]_vars PROVE StartInv'
    OBVIOUS
  <2>0. /\ startBlockNumber \in Int /\ Len(chain) \in Nat
        /\ \A k \in Heads : callback[k].number \in Int /\ callback[k].head \in Nat
        /\ \A k \in Heads : callback[k].head <= Len(chain)
        /\ \A k \in Heads : callback[k].at = "block" => callback[k].number <= callback[k].head
    BY HeightsAssumption DEF TypeInv, TypeOK, HeadInv, HoldInv
  <2>1. CASE NewHead
    <3> USE DEF CallbackStarts
    <3>1. PICK k \in Heads, start \in (-Lookback) .. (MaxHeight + 1) : CallbackStarts(k, start)
      BY <2>1, NewHeadFacts
    <3>2. start <= Len(chain) + 1 /\ (start = 0 => scanFrom' = 0)
      BY <2>0, <3>1 DEF StartInv
    <3>3. ASSUME NEW j \in Heads, Active(j)' PROVE callback'[j].number <= Len(chain) + 1
      BY <3>1, <3>2, <3>3 DEF StartInv, Active
    <3> QED
      BY <3>1, <3>2, <3>3 DEF StartInv
  <2>2. ASSUME NEW k \in Heads, CallbackStep(k) PROVE StartInv'
    <3>1. /\ phase = "monitor" /\ Active(k) /\ UNCHANGED <<chain, scanFrom>>
          /\ \A j \in Heads \ {k} : callback'[j] = callback[j]
      BY <2>2, StepFacts
    <3>2. /\ startBlockNumber' <= Len(chain) + 1
          /\ startBlockNumber' = 0 => scanFrom = 0
          /\ phase' # "send"
      <4>1. CASE EndOfLoop(k)
        BY <2>0, <2>2, <4>1, StepFacts
      <4>2. CASE ~EndOfLoop(k)
        BY <2>2, <4>2, StepFacts DEF StartInv
      <4> QED
        BY <4>1, <4>2
    <3>3. callback'[k].number <= Len(chain) + 1
      <4>1. CASE ProcessBlock(k)
        <5>1. callback'[k].number = callback[k].number + 1 /\ callback[k].at = "block"
          BY <2>2, <4>1, StepFacts
        <5> QED
          BY <2>0, <5>1
      <4>2. CASE ~ProcessBlock(k)
        BY <2>2, <3>1, <4>2, StepFacts DEF StartInv
      <4> QED
        BY <4>1, <4>2
    <3>4. ASSUME NEW j \in Heads, Active(j)' PROVE callback'[j].number <= Len(chain) + 1
      BY <3>1, <3>3, <3>4 DEF StartInv, Active
    <3> QED
      BY <3>1, <3>2, <3>4 DEF StartInv
  <2>3. CASE ~NewHead /\ \A k \in Heads : ~CallbackStep(k)
    <3>1. /\ UNCHANGED <<startBlockNumber, scanFrom>>
          /\ \A j \in Heads : callback'[j] = callback[j] \/ callback'[j].at = "off"
          /\ Len(chain') \in Nat /\ Len(chain) <= Len(chain')
          /\ phase' = "send" => phase = "send"
      BY <2>3, QuietFacts
    <3>2. \A j \in Heads : Active(j)' => callback'[j] = callback[j]
      BY <3>1 DEF Active
    <3>3. ASSUME NEW j \in Heads, Active(j)' PROVE callback'[j].number <= Len(chain') + 1
      <4>1. callback[j].number <= Len(chain) + 1
        BY <3>2, <3>3 DEF StartInv, Active
      <4> QED
        BY <2>0, <3>1, <3>2, <3>3, <4>1
    <3>4. startBlockNumber' <= Len(chain') + 1
      BY <2>0, <3>1 DEF StartInv
    <3> QED
      BY <3>1, <3>3, <3>4 DEF StartInv
  <2> QED
    BY <2>1, <2>2, <2>3
<1> QED
  BY <1>1, <1>2, TypeInvariance, PTL DEF SafeSpec

\* Every height below n that the scan covers has been handed to processBlock.
Scanned(n) == \A h \in 1 .. (n - 1) : h >= scanFrom => h \in visited

\* That holds of startBlockNumber and of the loop variable of every callback that is
\* still in its loop, and these are the values startBlockNumber can take next.
ScanInv ==
  /\ Scanned(startBlockNumber)
  /\ \A k \in Heads : Active(k) => Scanned(callback[k].number)

\* startBlockNumber, set by overlapping callbacks in any order and also back, never
\* passes a height that no callback has handed to processBlock, whatever fails
\* (transfer_tps_test.js:80-91).
THEOREM NoBlockPassedOverCorrect == SafeSpec => []NoBlockPassedOver
<1>1. Init => ScanInv
  <2> SUFFICES ASSUME Init PROVE ScanInv
    OBVIOUS
  <2>1. \A k \in Heads : callback[k].at = "off"
    BY DEF Init, Idle
  <2> QED
    BY <2>1 DEF Init, ScanInv, Scanned, Active
<1>2. TypeInv /\ StartInv /\ ScanInv /\ [Next]_vars => ScanInv'
  <2> SUFFICES ASSUME TypeInv, StartInv, ScanInv, [Next]_vars PROVE ScanInv'
    OBVIOUS
  <2>0. /\ startBlockNumber \in Int /\ scanFrom \in Int
        /\ \A k \in Heads : callback[k].number \in Int /\ callback[k].head \in Nat
        /\ startBlockNumber = 0 => scanFrom = 0
    BY HeightsAssumption DEF TypeInv, TypeOK, StartInv
  <2>1. CASE NewHead
    <3> USE DEF CallbackStarts
    <3>1. PICK k \in Heads, start \in (-Lookback) .. (MaxHeight + 1) : CallbackStarts(k, start)
      BY <2>1, NewHeadFacts
    <3>2. start \in Int
      BY <3>1, HeightsAssumption
    <3>3. \A h \in 1 .. (start - 1) : h >= scanFrom' => h \in visited
      <4>1. CASE startBlockNumber = 0
        BY <3>1, <3>2, <4>1
      <4>2. CASE startBlockNumber # 0
        BY <3>1, <4>2 DEF ScanInv, Scanned
      <4> QED
        BY <4>1, <4>2
    <3>4. ASSUME NEW j \in Heads \ {k}, Active(j)'
          PROVE  \A h \in 1 .. (callback[j].number - 1) : h >= scanFrom' => h \in visited
      <4>1. \A h \in 1 .. (callback[j].number - 1) : h >= scanFrom => h \in visited
        BY <3>1, <3>4 DEF ScanInv, Scanned, Active
      <4>2. CASE startBlockNumber = 0
        BY <2>0, <4>1, <4>2
      <4>3. CASE startBlockNumber # 0
        BY <3>1, <4>1, <4>3
      <4> QED
        BY <4>2, <4>3
    <3>5. \A j \in Heads : Active(j)' => Scanned(callback[j].number)'
      BY <3>1, <3>3, <3>4 DEF Scanned
    <3> QED
      BY <3>1, <3>3, <3>5 DEF ScanInv, Scanned
  <2>2. ASSUME NEW k \in Heads, CallbackStep(k) PROVE ScanInv'
    <3> DEFINE n == callback[k].number
    <3>1. /\ Active(k) /\ scanFrom' = scanFrom /\ visited \subseteq visited'
          /\ \A j \in Heads \ {k} : callback'[j] = callback[j]
      <4>1. visited \subseteq visited'
        BY <2>2, StepFacts
      <4> QED
        BY <2>2, <4>1, StepFacts
    <3>2. /\ n \in Int /\ callback[k].head \in Nat
          /\ \A h \in 1 .. (n - 1) : h >= scanFrom => h \in visited
      BY <2>0, <3>1 DEF ScanInv, Scanned
    <3>3. Scanned(startBlockNumber)'
      <4>1. CASE EndOfLoop(k)
        <5>1. startBlockNumber' = callback[k].head + 1 /\ n > callback[k].head
          BY <2>2, <4>1, StepFacts
        <5>2. \A h \in 1 .. (startBlockNumber' - 1) : h \in 1 .. (n - 1)
          BY <3>2, <5>1
        <5> QED
          BY <3>1, <3>2, <5>2 DEF Scanned
      <4>2. CASE ~EndOfLoop(k)
        <5>1. startBlockNumber' = startBlockNumber
          BY <2>2, <4>2, StepFacts
        <5> QED
          BY <3>1, <5>1 DEF ScanInv, Scanned
      <4> QED
        BY <4>1, <4>2
    <3>4. Scanned(callback[k].number)'
      <4>1. CASE ProcessBlock(k)
        <5>1. callback'[k].number = n + 1 /\ visited' = visited \cup {n}
          BY <2>2, <4>1, StepFacts
        <5>2. \A h \in 1 .. ((n + 1) - 1) : h \in 1 .. (n - 1) \/ h = n
          BY <3>2
        <5> QED
          BY <3>1, <3>2, <5>1, <5>2 DEF Scanned
      <4>2. CASE ~ProcessBlock(k)
        <5>1. callback'[k].number = n /\ visited' = visited
          BY <2>2, <4>2, StepFacts
        <5> QED
          BY <3>1, <3>2, <5>1 DEF Scanned
      <4> QED
        BY <4>1, <4>2
    <3>5. ASSUME NEW j \in Heads, j # k, Active(j)' PROVE Scanned(callback[j].number)'
      BY <3>1, <3>5 DEF ScanInv, Scanned, Active
    <3> QED
      BY <3>3, <3>4, <3>5 DEF ScanInv
  <2>3. CASE ~NewHead /\ \A k \in Heads : ~CallbackStep(k)
    <3>1. /\ UNCHANGED <<startBlockNumber, scanFrom, visited>>
          /\ \A j \in Heads : callback'[j] = callback[j] \/ callback'[j].at = "off"
      BY <2>3, QuietFacts
    <3> QED
      BY <3>1 DEF ScanInv, Scanned, Active
  <2> QED
    BY <2>1, <2>2, <2>3
<1>3. ScanInv => NoBlockPassedOver
  BY DEF ScanInv, Scanned, NoBlockPassedOver
<1> QED
  BY <1>1, <1>2, <1>3, TypeInvariance, StartInvariance, PTL DEF SafeSpec

-----------------------------------------------------------------------------
(* What the scan records *)

\* What the chain has at height h.
On(h) == chain[h].ok \cup chain[h].bad

\* No transaction of a covered block below n is pending.
Recorded(n) == \A h \in 1..Len(chain) : scanFrom <= h /\ h < n => On(h) \cap pendingTxs = {}

\* As long as nothing fails, that holds of startBlockNumber and of every loop variable,
\* and the block a callback holds is the one on the chain.
RecordInv ==
  NoFaults =>
    /\ Recorded(startBlockNumber)
    /\ \A k \in Heads : Active(k) => Recorded(callback[k].number)
    /\ \A k \in Heads : callback[k].at = "block" => callback[k].block = BlockAt(callback[k].number)

\* Faults are not forgotten.
LEMMA NoFaultsBefore ==
  ASSUME TypeInv, [Next]_vars, NoFaults'
  PROVE  NoFaults /\ reorgs' = reorgs
<1>0. errors \in Nat /\ reorgs \in Nat
  BY FaultsAssumption DEF TypeInv, TypeOK
<1>1. errors' \in {errors, errors + 1}
  BY DEF Next, ProduceBlock, ReplaceTip, SendTx, NextSlot, StartMonitor, NewHead, GetBlockHash,
         ProcessBlock, EndOfLoop, Timeout, chainVars, vars
<1>2. reorgs' \in {reorgs, reorgs + 1}
  BY DEF Next, ProduceBlock, ReplaceTip, SendTx, NextSlot, StartMonitor, NewHead, GetBlockHash,
         ProcessBlock, EndOfLoop, Timeout, chainVars, vars
<1>3. errors' = 0 /\ reorgs' = 0
  BY DEF NoFaults
<1> QED
  BY <1>0, <1>1, <1>2, <1>3 DEF NoFaults

\* processBlock, when it does not fail, records the block that the loop variable names.
LEMMA ProcessRecords ==
  ASSUME TypeInv, RecordInv, NoFaults, NEW k \in Heads, ProcessBlock(k), errors' = 0
  PROVE  /\ pendingTxs' \subseteq pendingTxs
         /\ \A h \in 1..Len(chain) : h = callback[k].number => On(h) \cap pendingTxs' = {}
<1>1. errors \in Nat /\ errors = 0
  BY FaultsAssumption DEF TypeInv, TypeOK, NoFaults
<1>2. pendingTxs' = pendingTxs \ (callback[k].block.ok \cup callback[k].block.bad)
  BY <1>1 DEF ProcessBlock, RecordResults
<1>3. callback[k].block = BlockAt(callback[k].number)
  BY DEF RecordInv, ProcessBlock
<1>4. ASSUME NEW h \in 1..Len(chain), h = callback[k].number PROVE callback[k].block = chain[h]
  BY <1>3, <1>4 DEF BlockAt
<1> QED
  BY <1>2, <1>4 DEF On

\* The block that a callback fetches or holds is the one on the chain, as long as no tip
\* is replaced.
LEMMA HeldBlock ==
  ASSUME TypeInv, RecordInv, NoFaults, NEW k \in Heads, CallbackStep(k), NEW j \in Heads,
         callback'[j].at = "block"
  PROVE  callback'[j].block = BlockAt(callback'[j].number)
<1>0. callback \in [Heads -> Callback]
  BY DEF TypeInv, TypeOK, Callback
<1>1. CASE j # k
  <2>1. callback'[j] = callback[j]
    BY <1>1, StepFacts
  <2> QED
    BY <2>1 DEF RecordInv
<1>2. CASE j = k
  <2>1. CASE GetBlockHash(k)
    BY <1>0, <1>2, <2>1 DEF GetBlockHash, Callback
  <2>2. CASE ProcessBlock(k) \/ EndOfLoop(k)
    BY <1>2, <2>2, StepFacts
  <2> QED
    BY <2>1, <2>2 DEF CallbackStep
<1> QED
  BY <1>1, <1>2

\* As long as nothing fails, a transaction in a covered block behind startBlockNumber is
\* no longer pending, however the callbacks overlap and in whichever order they set
\* startBlockNumber (transfer_tps_test.js:80-97, 148-165).
THEOREM ScanIsCompleteCorrect == SafeSpec => []ScanIsComplete
<1>1. Init => RecordInv
  <2> SUFFICES ASSUME Init PROVE RecordInv
    OBVIOUS
  <2>1. \A k \in Heads : callback[k].at = "off"
    BY DEF Init, Idle
  <2>2. pendingTxs = {}
    BY DEF Init
  <2> QED
    BY <2>1, <2>2 DEF RecordInv, Recorded, Active
<1>2. TypeInv /\ StartInv /\ RecordInv /\ [Next]_vars => RecordInv'
  <2> SUFFICES ASSUME TypeInv, StartInv, RecordInv, [Next]_vars, NoFaults'
               PROVE  /\ Recorded(startBlockNumber)'
                      /\ \A k \in Heads : Active(k)' => Recorded(callback[k].number)'
                      /\ \A k \in Heads : callback'[k].at = "block"
                                            => callback'[k].block = BlockAt(callback[k].number)'
    BY DEF RecordInv
  <2>0. /\ NoFaults /\ reorgs' = reorgs
        /\ Recorded(startBlockNumber)
        /\ \A k \in Heads : Active(k) => Recorded(callback[k].number)
        /\ \A k \in Heads : callback[k].at = "block"
                              => callback[k].block = BlockAt(callback[k].number)
    BY NoFaultsBefore DEF RecordInv
  <2>a. /\ startBlockNumber \in Int /\ scanFrom \in Int /\ Len(chain) \in Nat
        /\ \A k \in Heads : callback[k].number \in Int /\ callback[k].head \in Nat
        /\ \A k \in Heads : callback[k].head <= Len(chain)
        /\ \A k \in Heads : callback[k].at = "block"
                              => callback[k].number \in 0..callback[k].head
    BY HeightsAssumption DEF TypeInv, TypeOK, HeadInv, HoldInv
  <2>1. CASE NewHead
    <3> USE DEF CallbackStarts
    <3>1. PICK k \in Heads, start \in (-Lookback) .. (MaxHeight + 1) : CallbackStarts(k, start)
      BY <2>1, NewHeadFacts
    <3>2. start \in Int /\ (startBlockNumber = 0 => scanFrom = 0)
      BY <3>1, HeightsAssumption DEF StartInv
    <3>3. \A h \in 1..Len(chain) : scanFrom' <= h => scanFrom <= h \/ startBlockNumber = 0
      BY <3>1
    <3>4. \A h \in 1..Len(chain) : scanFrom' <= h => scanFrom <= h
      BY <2>a, <3>2, <3>3
    <3>5. \A h \in 1..Len(chain) : scanFrom' <= h /\ h < start => On(h) \cap pendingTxs = {}
      <4>1. CASE startBlockNumber = 0
        BY <2>a, <3>1, <3>2, <4>1
      <4>2. CASE startBlockNumber # 0
        BY <2>0, <3>1, <4>2 DEF Recorded
      <4> QED
        BY <4>1, <4>2
    <3>6. \A h : On(h)' = On(h)
      BY <3>1 DEF On
    <3>7. Recorded(startBlockNumber)' /\ Recorded(callback[k].number)'
      BY <3>1, <3>5, <3>6 DEF Recorded
    <3>8. ASSUME NEW j \in Heads, j # k, Active(j)' PROVE Recorded(callback[j].number)'
      <4>1. callback'[j] = callback[j] /\ Recorded(callback[j].number)
        BY <2>0, <3>1, <3>8 DEF Active
      <4> QED
        BY <3>1, <3>4, <3>6, <4>1 DEF Recorded
    <3>9. ASSUME NEW j \in Heads, callback'[j].at = "block"
          PROVE  callback'[j].block = BlockAt(callback[j].number)'
      <4>1. j # k /\ callback'[j] = callback[j]
        BY <3>1, <3>9
      <4> QED
        BY <2>0, <3>1, <3>9, <4>1 DEF BlockAt
    <3> QED
      BY <3>7, <3>8, <3>9
  <2>2. ASSUME NEW k \in Heads, CallbackStep(k)
        PROVE  /\ Recorded(startBlockNumber)'
               /\ \A j \in Heads : Active(j)' => Recorded(callback[j].number)'
               /\ \A j \in Heads : callback'[j].at = "block"
                                     => callback'[j].block = BlockAt(callback[j].number)'
    <3> DEFINE n == callback[k].number
    <3>1. /\ Active(k) /\ UNCHANGED <<chain, scanFrom>>
          /\ \A j \in Heads \ {k} : callback'[j] = callback[j]
      BY <2>2, StepFacts
    <3>2. pendingTxs' \subseteq pendingTxs
      <4>1. CASE ProcessBlock(k)
        BY <2>0, <4>1, ProcessRecords DEF NoFaults
      <4>2. CASE ~ProcessBlock(k)
        BY <2>2, <4>2, StepFacts
      <4> QED
        BY <4>1, <4>2
    <3>3. \A h : On(h)' = On(h)
      BY <3>1 DEF On
    <3>4. /\ n \in Int /\ callback[k].head \in Nat
          /\ \A h \in 1..Len(chain) : scanFrom <= h /\ h < n => On(h) \cap pendingTxs' = {}
      BY <2>0, <2>a, <3>1, <3>2 DEF Recorded
    <3>5. Recorded(startBlockNumber)'
      <4>1. CASE EndOfLoop(k)
        <5>1. startBlockNumber' = callback[k].head + 1 /\ n > callback[k].head
          BY <2>2, <4>1, StepFacts
        <5>2. \A h \in 1..Len(chain) : h < startBlockNumber' => h < n
          BY <2>a, <3>4, <5>1
        <5> QED
          BY <3>1, <3>3, <3>4, <5>2 DEF Recorded
      <4>2. CASE ~EndOfLoop(k)
        <5>1. startBlockNumber' = startBlockNumber
          BY <2>2, <4>2, StepFacts
        <5> QED
          BY <2>0, <3>1, <3>2, <3>3, <5>1 DEF Recorded
      <4> QED
        BY <4>1, <4>2
    <3>6. Recorded(callback[k].number)'
      <4>1. CASE ProcessBlock(k)
        <5>1. callback'[k].number = n + 1
          BY <2>2, <4>1, StepFacts
        <5>2. \A h \in 1..Len(chain) : h = n => On(h) \cap pendingTxs' = {}
          BY <2>0, <4>1, ProcessRecords DEF NoFaults
        <5>3. \A h \in 1..Len(chain) : h < n + 1 => h < n \/ h = n
          BY <2>a, <3>4
        <5> QED
          BY <3>1, <3>3, <3>4, <5>1, <5>2, <5>3 DEF Recorded
      <4>2. CASE ~ProcessBlock(k)
        <5>1. callback'[k].number = n
          BY <2>2, <4>2, StepFacts
        <5> QED
          BY <3>1, <3>3, <3>4, <5>1 DEF Recorded
      <4> QED
        BY <4>1, <4>2
    <3>7. ASSUME NEW j \in Heads, j # k, Active(j)' PROVE Recorded(callback[j].number)'
      <4>1. callback'[j] = callback[j] /\ Recorded(callback[j].number)
        BY <2>0, <3>1, <3>7 DEF Active
      <4> QED
        BY <3>1, <3>2, <3>3, <4>1 DEF Recorded
    <3>8. ASSUME NEW j \in Heads, callback'[j].at = "block"
          PROVE  callback'[j].block = BlockAt(callback[j].number)'
      <4>1. callback'[j].block = BlockAt(callback'[j].number)
        BY <2>0, <2>2, <3>8, HeldBlock
      <4> QED
        BY <3>1, <4>1 DEF BlockAt
    <3> QED
      BY <3>5, <3>6, <3>7, <3>8
  <2>3. CASE ~NewHead /\ \A k \in Heads : ~CallbackStep(k)
    <3>1. /\ UNCHANGED <<startBlockNumber, scanFrom>>
          /\ \A j \in Heads : callback'[j] = callback[j] \/ callback'[j].at = "off"
          /\ Len(chain') \in Nat /\ Len(chain) <= Len(chain')
          /\ pendingTxs' = pendingTxs \/ phase = "send"
          /\ \A h \in 1..Len(chain) : chain'[h] = chain[h]
      BY <2>0, <2>3, QuietFacts
    <3>2. /\ startBlockNumber <= Len(chain) + 1
          /\ \A k \in Heads : Active(k) => callback[k].number <= Len(chain) + 1
          /\ phase = "send" => startBlockNumber = 0 /\ \A k \in Heads : ~Active(k)
      BY DEF StartInv, Active
    <3>3. ASSUME NEW n \in Int, n <= Len(chain) + 1, Recorded(n), pendingTxs' = pendingTxs
          PROVE  \A h \in 1..Len(chain') :
                   scanFrom' <= h /\ h < n => On(h)' \cap pendingTxs' = {}
      <4>1. \A h \in 1..Len(chain') : h < n => h \in 1..Len(chain)
        BY <2>a, <3>1, <3>3
      <4>2. \A h \in 1..Len(chain) : On(h)' = On(h)
        BY <3>1 DEF On
      <4> QED
        BY <3>1, <3>3, <4>1, <4>2 DEF Recorded
    <3>4. Recorded(startBlockNumber)'
      <4>1. CASE phase = "send"
        BY <3>1, <3>2, <4>1 DEF Recorded
      <4>2. CASE phase # "send"
        BY <2>0, <2>a, <3>1, <3>2, <3>3, <4>2 DEF Recorded
      <4> QED
        BY <4>1, <4>2
    <3>5. ASSUME NEW k \in Heads, Active(k)' PROVE Recorded(callback[k].number)'
      <4>1. Active(k) /\ callback'[k] = callback[k]
        BY <3>1, <3>5 DEF Active
      <4>2. phase # "send" /\ callback[k].number <= Len(chain) + 1 /\ Recorded(callback[k].number)
        BY <2>0, <3>2, <4>1
      <4> QED
        BY <2>a, <3>1, <3>3, <4>1, <4>2 DEF Recorded
    <3>6. ASSUME NEW k \in Heads, callback'[k].at = "block"
          PROVE  callback'[k].block = BlockAt(callback[k].number)'
      <4>1. /\ callback[k].block = BlockAt(callback[k].number)
            /\ callback[k].number = 0 \/ callback[k].number \in 1..Len(chain)
            /\ callback'[k] = callback[k]
        BY <2>0, <2>a, <3>1, <3>6
      <4> QED
        BY <3>1, <4>1 DEF BlockAt
    <3> QED
      BY <3>4, <3>5, <3>6
  <2> QED
    BY <2>1, <2>2, <2>3
<1>3. RecordInv => ScanIsComplete
  BY DEF RecordInv, Recorded, On, ScanIsComplete, ScannedBlocksAreRecorded
<1> QED
  BY <1>1, <1>2, <1>3, TypeInvariance, StartInvariance, PTL DEF SafeSpec
=============================================================================
