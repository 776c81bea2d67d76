----------------------------- MODULE TpsMonitor -----------------------------
(***************************************************************************)
(* The throughput client test/transfer_tps_test.js against a chain: it sends*)
(* transfers in one-second slots with consecutive nonces, then follows new  *)
(* heads and looks its transactions up in the blocks.                       *)
(*                                                                          *)
(* The head callback is asynchronous and the subscription does not wait for *)
(* it: the callbacks of several heads run interleaved at every `await`, and *)
(* they share startBlockNumber, pendingTxs and results.  Any RPC call may   *)
(* fail, and the tip of the chain may be replaced between two of them.      *)
(*                                                                          *)
(* The chain and its pool are not this repository's code: they are modelled *)
(* from what the client relies on, inclusion in nonce order.                *)
(***************************************************************************)
EXTENDS Integers, Sequences, FiniteSets

CONSTANTS
  Slots,       \* bound: one-second slots (testDurationSeconds)
  PerSlot,     \* transactions per slot (txPerSecond)
  Lookback,    \* how far back the first head callback goes; 5 in the code
  InitHeight,  \* height of the chain when the test starts
  MaxHeight,   \* bound: height of the chain
  MaxFaults    \* bound: RPC calls that fail and times the tip is replaced, together

ASSUME SlotsAssumption == Slots \in Nat \ {0} /\ PerSlot \in Nat \ {0}
ASSUME HeightsAssumption == /\ InitHeight \in Nat /\ MaxHeight \in Nat
                            /\ InitHeight <= MaxHeight /\ Lookback \in Nat
ASSUME FaultsAssumption == MaxFaults \in Nat

Txs == 0 .. (Slots * PerSlot - 1)      \* by nonce, relative to startNonce
Heads == 1 .. (MaxHeight - InitHeight + MaxFaults + 1)  \* callbacks, in order of their heads

VARIABLES
  \* the chain
  chain,     \* per height, the transactions that succeeded and that failed
  nonce,     \* the sender's next nonce on the best chain
  pool,      \* transactions the node has accepted
  errors, reorgs,  \* faults so far
  \* the client
  phase,     \* main: "send", "monitor", "done" or "crashed"
  slot,      \* the slot being sent
  send,      \* per transaction: "new", "sent" or "error"
  pendingTxs, successful, failed, \* pendingTxs and results
  startBlockNumber,
  scanFrom,  \* history: the first value given to startBlockNumber
  visited,   \* history: heights handed to processBlock
  heads,     \* head notifications not yet delivered
  subscribed,
  callback   \* per head, its callback: where it is, its head, its loop variable
             \* and the block it holds

chainVars == <<chain, nonce, pool, errors, reorgs>>
sendVars == <<slot, send>>
resultVars == <<pendingTxs, successful, failed>>
scanVars == <<startBlockNumber, scanFrom, visited>>
vars == <<chainVars, phase, sendVars, resultVars, scanVars, heads, subscribed, callback>>

Block == [ok : SUBSET Txs, bad : SUBSET Txs]
EmptyBlock == [ok |-> {}, bad |-> {}]
Idle == [at |-> "off", head |-> 0, number |-> 0, block |-> EmptyBlock]

TxHashes == {t \in Txs : send[t] = "sent"}
BlockAt(h) == IF h = 0 THEN EmptyBlock ELSE chain[h]

Init ==
  /\ chain = [h \in 1..InitHeight |-> EmptyBlock]
  /\ nonce = 0
  /\ pool = {}
  /\ errors = 0
  /\ reorgs = 0
  /\ phase = "send"
  /\ slot = 0
  /\ send = [t \in Txs |-> "new"]
  /\ pendingTxs = {} /\ successful = {} /\ failed = {}
  /\ startBlockNumber = 0
  /\ scanFrom = 0
  /\ visited = {}
  /\ heads = << >>
  /\ subscribed = FALSE
  /\ callback = [k \in Heads |-> Idle]

-----------------------------------------------------------------------------
(* The chain: followed while the client runs, since nobody looks at it later *)

MayFault == errors + reorgs < MaxFaults

ClientRuns == phase \in {"send", "monitor"}

\* Blocks that may follow when the sender's nonce is n: a run of accepted
\* transactions from n on, some of which fail.
BlocksFrom(n) ==
  { b \in Block : /\ b.ok \cap b.bad = {}
                  /\ b.ok \cup b.bad \subseteq pool
                  /\ \E m \in n .. (Slots * PerSlot) : b.ok \cup b.bad = n .. (m - 1) }

Size(b) == Cardinality(b.ok) + Cardinality(b.bad)

Notify(h) == heads' = IF subscribed THEN Append(heads, h) ELSE heads

ProduceBlock ==
  /\ ClientRuns
  /\ Len(chain) < MaxHeight
  /\ \E b \in BlocksFrom(nonce) :
       /\ chain' = Append(chain, b)
       /\ nonce' = nonce + Size(b)
  /\ Notify(Len(chain) + 1)
  /\ UNCHANGED <<pool, errors, reorgs, phase, sendVars, resultVars, scanVars, subscribed,
                 callback>>

\* Another block of the same height becomes the best one.
ReplaceTip ==
  /\ ClientRuns
  /\ MayFault
  /\ Len(chain) > InitHeight
  /\ LET base == nonce - Size(chain[Len(chain)]) IN
       \E b \in BlocksFrom(base) :
         /\ chain' = [chain EXCEPT ![Len(chain)] = b]
         /\ nonce' = base + Size(b)
  /\ reorgs' = reorgs + 1
  /\ Notify(Len(chain))
  /\ UNCHANGED <<pool, errors, phase, sendVars, resultVars, scanVars, subscribed, callback>>

-----------------------------------------------------------------------------
(* Sending *)

InSlot(t) == t \div PerSlot = slot

\* One transaction of the slot's Promise.all: accepted; refused, or lost on the
\* way; or accepted with the answer lost.  The last two end in the same catch,
\* and the hash is not recorded.
SendTx(t) ==
  /\ phase = "send"
  /\ InSlot(t)
  /\ send[t] = "new"
  /\ \/ /\ send' = [send EXCEPT ![t] = "sent"]
        /\ pool' = pool \cup {t}
        /\ errors' = errors
     \/ /\ MayFault
        /\ errors' = errors + 1
        /\ send' = [send EXCEPT ![t] = "error"]
        /\ pool' \in {pool, pool \cup {t}}
  /\ UNCHANGED <<chain, nonce, reorgs, phase, slot, resultVars, scanVars, heads, subscribed,
                 callback>>

SlotSent == \A t \in Txs : InSlot(t) => send[t] # "new"

\* Promise.all is done; the nonces of the slot are used up, sent or not.
NextSlot ==
  /\ phase = "send"
  /\ SlotSent
  /\ slot + 1 < Slots
  /\ slot' = slot + 1
  /\ UNCHANGED <<chainVars, phase, send, resultVars, scanVars, heads, subscribed, callback>>

\* The time is over: monitorTransactions(api, allTxHashes).  A subscription that
\* is refused is an unhandled rejection and ends the client.
StartMonitor ==
  /\ phase = "send"
  /\ SlotSent
  /\ pendingTxs' = TxHashes
  /\ \/ /\ phase' = "monitor"
        /\ subscribed' = TRUE
        /\ heads' = <<Len(chain)>>
        /\ errors' = errors
     \/ /\ MayFault
        /\ errors' = errors + 1
        /\ phase' = "crashed"
        /\ UNCHANGED <<subscribed, heads>>
  /\ UNCHANGED <<chain, nonce, pool, reorgs, sendVars, successful, failed, scanVars, callback>>

-----------------------------------------------------------------------------
(* The head callback *)

\* Faulty variant of NewHead: startBlockNumber moves before the blocks are read.
NewHeadClaimingBlocks ==
  /\ phase = "monitor"
  /\ subscribed
  /\ heads # << >>
  /\ \E k \in Heads :
       /\ callback[k].at = "off"
       /\ \A j \in Heads : j < k => callback[j].at # "off"
       /\ LET current == Head(heads)
              start == IF startBlockNumber = 0 THEN current - Lookback
                                               ELSE startBlockNumber
          IN /\ startBlockNumber' = current + 1
             /\ scanFrom' = IF startBlockNumber = 0 THEN start ELSE scanFrom
             /\ callback' = [callback EXCEPT ![k] =
                  [at |-> "loop", head |-> current, number |-> start, block |-> EmptyBlock]]
  /\ heads' = Tail(heads)
  /\ UNCHANGED <<chainVars, phase, sendVars, resultVars, visited, subscribed>>

\* The callback of the next head starts and runs to its first await.
NewHead ==
  /\ phase = "monitor"
  /\ subscribed
  /\ heads # << >>
  /\ \E k \in Heads :
       /\ callback[k].at = "off"
       /\ \A j \in Heads : j < k => callback[j].at # "off"
       /\ LET current == Head(heads)
              start == IF startBlockNumber = 0 THEN current - Lookback
                                               ELSE startBlockNumber
          IN /\ startBlockNumber' = start
             /\ scanFrom' = IF startBlockNumber = 0 THEN start ELSE scanFrom
             /\ callback' = [callback EXCEPT ![k] =
                  [at |-> "loop", head |-> current, number |-> start, block |-> EmptyBlock]]
  /\ heads' = Tail(heads)
  /\ UNCHANGED <<chainVars, phase, sendVars, resultVars, visited, subscribed>>

\* Faulty variant of GetBlockHash: the lowest block asked for is refused.
GetBlockHashAboveFirst(k) ==
  /\ phase = "monitor"
  /\ callback[k].at = "loop"
  /\ callback[k].number <= callback[k].head
  /\ \/ /\ callback[k].number > scanFrom
        /\ callback' = [callback EXCEPT ![k].at = "block",
                                        ![k].block = BlockAt(callback[k].number)]
     \/ /\ callback[k].number <= scanFrom
        /\ callback' = [callback EXCEPT ![k].at = "end"]
  /\ UNCHANGED <<chainVars, phase, sendVars, resultVars, scanVars, heads, subscribed>>

\* getBlockHash of the loop's block number.  A negative number cannot be encoded
\* and is refused before it is sent; an error leaves the callback through its
\* catch, and startBlockNumber as it is.
GetBlockHash(k) ==
  /\ phase = "monitor"
  /\ callback[k].at = "loop"
  /\ callback[k].number <= callback[k].head
  /\ \/ /\ callback[k].number >= 0
        /\ callback' = [callback EXCEPT ![k].at = "block",
                                        ![k].block = BlockAt(callback[k].number)]
        /\ errors' = errors
     \/ /\ callback[k].number < 0
        /\ callback' = [callback EXCEPT ![k].at = "end"]
        /\ errors' = errors
     \/ /\ MayFault
        /\ errors' = errors + 1
        /\ callback' = [callback EXCEPT ![k].at = "end"]
  /\ UNCHANGED <<chain, nonce, pool, reorgs, phase, sendVars, resultVars, scanVars, heads,
                 subscribed>>

\* Faulty variant of RecordResults: pendingTxs is not consulted.
RecordAllResults(b) ==
  /\ successful' = successful \cup (b.ok \cap TxHashes)
  /\ failed' = failed \cup (b.bad \cap TxHashes)
  /\ pendingTxs' = pendingTxs \ (b.ok \cup b.bad)

\* What processBlock does, without an await, with the block and its events.
RecordResults(b) ==
  /\ successful' = successful \cup (b.ok \cap pendingTxs)
  /\ failed' = failed \cup (b.bad \cap pendingTxs)
  /\ pendingTxs' = pendingTxs \ (b.ok \cup b.bad)

\* Faulty variant of ProcessBlock: the loop variable skips a block.
ProcessEveryOtherBlock(k) ==
  /\ phase = "monitor"
  /\ callback[k].at = "block"
  /\ \/ RecordResults(callback[k].block) /\ errors' = errors
     \/ MayFault /\ errors' = errors + 1 /\ UNCHANGED resultVars
  /\ visited' = visited \cup {callback[k].number}
  /\ callback' = [callback EXCEPT ![k].at = "loop", ![k].number = @ + 2]
  /\ UNCHANGED <<chain, nonce, pool, reorgs, phase, sendVars, startBlockNumber, scanFrom,
                 heads, subscribed>>

\* processBlock: an error of getBlock or of the events query is caught inside,
\* and the loop goes on with the next block.
ProcessBlock(k) ==
  /\ phase = "monitor"
  /\ callback[k].at = "block"
  /\ \/ RecordResults(callback[k].block) /\ errors' = errors
     \/ MayFault /\ errors' = errors + 1 /\ UNCHANGED resultVars
  /\ visited' = visited \cup {callback[k].number}
  /\ callback' = [callback EXCEPT ![k].at = "loop", ![k].number = @ + 1]
  /\ UNCHANGED <<chain, nonce, pool, reorgs, phase, sendVars, startBlockNumber, scanFrom,
                 heads, subscribed>>

\* Faulty variant of EndOfLoop: the next scan starts one block too late.
EndOfLoopOffByOne(k) ==
  /\ phase = "monitor"
  /\ callback[k].at = "loop"
  /\ callback[k].number > callback[k].head
  /\ startBlockNumber' = callback[k].head + 2
  /\ callback' = [callback EXCEPT ![k].at = "end"]
  /\ IF pendingTxs = {}
       THEN phase' = "done" /\ subscribed' = FALSE
       ELSE UNCHANGED <<phase, subscribed>>
  /\ UNCHANGED <<chainVars, sendVars, resultVars, scanFrom, visited, heads>>

\* After the loop: startBlockNumber moves, back too if a later head's callback
\* was faster, and the promise resolves once nothing is pending.
EndOfLoop(k) ==
  /\ phase = "monitor"
  /\ callback[k].at = "loop"
  /\ callback[k].number > callback[k].head
  /\ startBlockNumber' = callback[k].head + 1
  /\ callback' = [callback EXCEPT ![k].at = "end"]
  /\ IF pendingTxs = {}
       THEN phase' = "done" /\ subscribed' = FALSE
       ELSE UNCHANGED <<phase, subscribed>>
  /\ UNCHANGED <<chainVars, sendVars, resultVars, scanFrom, visited, heads>>

\* The three-minute timer: resolve with what there is.  The heads not yet delivered
\* and the callbacks still running cannot change what is reported: they are dropped.
Timeout ==
  /\ phase = "monitor"
  /\ subscribed
  /\ phase' = "done"
  /\ subscribed' = FALSE
  /\ heads' = << >>
  /\ callback' = [k \in Heads |-> Idle]
  /\ UNCHANGED <<chainVars, sendVars, resultVars, scanVars>>

-----------------------------------------------------------------------------
CallbackStep(k) == GetBlockHash(k) \/ ProcessBlock(k) \/ EndOfLoop(k)

Next ==
  \/ ProduceBlock
  \/ ReplaceTip
  \/ \E t \in Txs : SendTx(t)
  \/ NextSlot
  \/ StartMonitor
  \/ NewHead
  \/ \E k \in Heads : GetBlockHash(k)
  \/ \E k \in Heads : ProcessBlock(k)
  \/ \E k \in Heads : EndOfLoop(k)
  \/ Timeout

SafeSpec == Init /\ [][Next]_vars

\* The event loop is not idle while a head or an answer waits; the callbacks it
\* has running are finite, so each of them is served.
EventLoop == NewHead \/ \E k \in Heads : CallbackStep(k)

\* The event loop alone: the timer may be as late as it likes.
CallbackSpec == SafeSpec /\ WF_vars(EventLoop)

-----------------------------------------------------------------------------
(* Properties *)

\* Every variable has its type.
TypeOK ==
  /\ chain \in Seq(Block) /\ Len(chain) \in InitHeight..MaxHeight
  /\ nonce \in 0 .. (Slots * PerSlot)
  /\ pool \in SUBSET Txs
  /\ errors \in 0..MaxFaults /\ reorgs \in 0..MaxFaults
  /\ phase \in {"send", "monitor", "done", "crashed"}
  /\ slot \in 0 .. (Slots - 1)
  /\ send \in [Txs -> {"new", "sent", "error"}]
  /\ pendingTxs \in SUBSET Txs /\ successful \in SUBSET Txs /\ failed \in SUBSET Txs
  /\ startBlockNumber \in (-Lookback) .. (MaxHeight + 1)
  /\ scanFrom \in (-Lookback) .. MaxHeight
  /\ visited \in SUBSET (0..MaxHeight)
  /\ heads \in Seq(0..MaxHeight)
  /\ subscribed \in BOOLEAN
  /\ callback \in [Heads -> [at : {"off", "loop", "block", "end"}, head : 0..MaxHeight,
                             number : (-Lookback) .. (MaxHeight + 1), block : Block]]

\* Every recorded transaction is counted once: it is pending, successful or
\* failed, and only one of them, though callbacks overlap, blocks are read twice
\* and a fork may give it another outcome (transfer_tps_test.js:94-97, 148-165).
CountedOnce ==
  phase \in {"monitor", "done"} =>
    /\ pendingTxs \cup successful \cup failed = TxHashes
    /\ pendingTxs \cap successful = {}
    /\ pendingTxs \cap failed = {}
    /\ successful \cap failed = {}

\* startBlockNumber, which overlapping callbacks set in any order and also set
\* back, never passes a height that no callback has handed to processBlock, also
\* when callbacks end in errors (transfer_tps_test.js:80-91).
NoBlockPassedOver ==
  startBlockNumber > 0 /\ phase = "monitor" =>
    \A h \in 1 .. (startBlockNumber - 1) : h >= scanFrom => h \in visited

\* transfer_tps_test.js:84 (in translation: "process all blocks from the start
\* block to the current block"): a transaction in a block behind
\* startBlockNumber is no longer pending.
ScannedBlocksAreRecorded ==
  startBlockNumber > 0 /\ phase = "monitor" =>
    \A h \in 1..Len(chain) :
      scanFrom <= h /\ h < startBlockNumber =>
        (chain[h].ok \cup chain[h].bad) \cap pendingTxs = {}

\* No RPC call has failed and no block was replaced.
NoFaults == errors = 0 /\ reorgs = 0

\* As long as nothing fails, that holds, however the callbacks overlap and in
\* whichever order they set startBlockNumber.
ScanIsComplete == NoFaults => ScannedBlocksAreRecorded

\* A first callback has run, and with it scanFrom is what startBlockNumber began at.
ScanStarted == \E k \in Heads : callback[k].at # "off"

\* t is pending and in a block that the first callback reached back to.
Confirmable(t) ==
  /\ phase = "monitor" /\ t \in pendingTxs
  /\ ScanStarted
  /\ \E h \in 1..Len(chain) : h >= scanFrom /\ t \in chain[h].ok \cup chain[h].bad

\* As long as nothing fails, and on a chain with a block to start from, the
\* callbacks confirm such a transaction without the help of the timer.
IncludedGetConfirmed ==
  \A t \in Txs :
    (Confirmable(t) /\ NoFaults)
      ~> (t \notin pendingTxs \/ phase # "monitor" \/ ~NoFaults \/ scanFrom < 0)

\* transfer_tps_test.js:81 (in translation: "start looking five blocks before the
\* current block"): so they do on a chain of any age.
ConfirmedOnAnyChain ==
  \A t \in Txs : (Confirmable(t) /\ NoFaults)
                   ~> (t \notin pendingTxs \/ phase # "monitor" \/ ~NoFaults)
=============================================================================
