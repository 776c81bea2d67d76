----------------------------- MODULE BlockTime -----------------------------
(***************************************************************************)
(* Clocks, slots and timestamps: the three makers of blocks that            *)
(* node/src/service.rs sets up, each with inherent data and a digest of its *)
(* own, against the two checks the runtime is configured with               *)
(* (pallet_timestamp with OnTimestampSet = Babe).                           *)
(*                                                                          *)
(*   the BABE author   reads the clock once for slot and timestamp          *)
(*   the sealing task  counts a thread-local up, and sends no BABE digest   *)
(*   the pending block of the Ethereum RPC, one slot ahead of the clock,    *)
(*                     with the digest of BabeConsensusDataProvider         *)
(*                                                                          *)
(* The chain is on disk and outlives the process; a node that ran BABE may  *)
(* be started again with --sealing and the other way round.  Blocks of other*)
(* authors arrive in every mode, up to one slot ahead of the clock here.    *)
(* The pallets and the client are not this repository's code; they are      *)
(* modelled from what it configures and passes.                             *)
(***************************************************************************)
EXTENDS Integers

CONSTANTS
  SlotDuration, \* SLOT_DURATION, in ticks of the clock
  MaxClock,     \* bound: the clock
  MaxSealed     \* bound: attempts to seal a block in one process

ASSUME SlotDurationAssumption == SlotDuration \in Nat \ {0}
ASSUME BoundsAssumption == MaxClock \in Nat /\ SlotDuration <= MaxClock /\ MaxSealed \in Nat

VARIABLES
  clock,     \* system time
  head,      \* best block: pallet_timestamp's Now and BABE's CurrentSlot
  mode,      \* what runs: "down", "babe" or "sealing"
  lastSlot,  \* the slot the BABE worker last woke up in
  candidate, \* the BABE block under construction, or NoCandidate
  timestamp, \* TIMESTAMP of the sealing task's thread
  outcome    \* what became of the block this step made

vars == <<clock, head, mode, lastSlot, candidate, timestamp, outcome>>

NoCandidate == [slot |-> -1]
NoDigest == -1
MaxTimestamp == MaxSealed * SlotDuration
SlotOf(t) == t \div SlotDuration

\* Faulty variant: two slots, for the chain to have at least one empty between blocks.
MinimumPeriodTwoSlots == 2 * SlotDuration

MinimumPeriod == SlotDuration \div 2

\* Genesis has no time and no slot yet.
Init ==
  /\ clock = SlotDuration
  /\ head = [now |-> 0, slot |-> 0]
  /\ mode = "down"
  /\ lastSlot = 0
  /\ candidate = NoCandidate
  /\ timestamp = 0
  /\ outcome = "none"

-----------------------------------------------------------------------------
(* The runtime *)

\* create_inherent of pallet_timestamp: the call `set` for the time provided.
InherentTime(parent, t) ==
  IF t >= parent.now + MinimumPeriod THEN t ELSE parent.now + MinimumPeriod

\* CurrentSlot after on_initialize: without a digest of BABE it stays.
CurrentSlot(parent, digest) == IF digest = NoDigest THEN parent.slot ELSE digest

\* `set`: the minimum period, and on_timestamp_set's assertion.  If it fails, the
\* block lacks its timestamp and on_finalize refuses it.
Accepts(parent, digest, t) ==
  LET time == InherentTime(parent, t) IN
    /\ parent.now = 0 \/ time >= parent.now + MinimumPeriod
    /\ CurrentSlot(parent, digest) = SlotOf(time)

\* The state after a block that is accepted.
After(parent, digest, t) ==
  [now |-> InherentTime(parent, t), slot |-> CurrentSlot(parent, digest)]

-----------------------------------------------------------------------------
(* The process *)

Start(m) ==
  /\ mode = "down"
  /\ mode' = m
  /\ outcome' = "none"
  /\ UNCHANGED <<clock, head, lastSlot, candidate, timestamp>>

\* What is in memory goes, the thread-local included.
TakeDown ==
  /\ mode' = "down"
  /\ lastSlot' = 0
  /\ candidate' = NoCandidate
  /\ timestamp' = 0

Stop ==
  /\ mode # "down"
  /\ TakeDown
  /\ outcome' = "none"
  /\ UNCHANGED <<clock, head>>

Tick ==
  /\ clock < MaxClock
  /\ clock' = clock + 1
  /\ outcome' = "none"
  /\ UNCHANGED <<head, mode, lastSlot, candidate, timestamp>>

\* A block of another author, on the best block; BABE's verifier allows for one slot
\* of drift, and its slot and time have passed the checks above at the author's.
ImportForeign(slot, time) ==
  /\ mode # "down"
  /\ slot \in (head.slot + 1) .. (SlotOf(clock) + 1)
  /\ Accepts(head, slot, time)
  /\ head' = After(head, slot, time)
  /\ outcome' = "none"
  /\ UNCHANGED <<clock, mode, lastSlot, candidate, timestamp>>

-----------------------------------------------------------------------------
(* BABE authorship *)

\* Faulty variant of OnSlot: the slot is the worker's, the time is read later.
OnSlotTwoReadings ==
  /\ mode = "babe"
  /\ candidate = NoCandidate
  /\ SlotOf(clock) > lastSlot
  /\ lastSlot' = SlotOf(clock)
  /\ \E later \in clock .. (clock + SlotDuration) :
       candidate' = [parent |-> head, slot |-> SlotOf(clock), time |-> later]
  /\ outcome' = "none"
  /\ UNCHANGED <<clock, head, mode, timestamp>>

\* The worker wakes up in a slot, once, and create_inherent_data_providers reads
\* the clock: slot and timestamp from the one reading.  The parent is fixed here.
OnSlot ==
  /\ mode = "babe"
  /\ candidate = NoCandidate
  /\ SlotOf(clock) > lastSlot
  /\ lastSlot' = SlotOf(clock)
  /\ candidate' = [parent |-> head, slot |-> SlotOf(clock), time |-> clock]
  /\ outcome' = "none"
  /\ UNCHANGED <<clock, head, mode, timestamp>>

\* The block is built on the parent of that time, checked by the runtime and
\* imported; next to blocks that came in between it is a fork, and fork choice
\* decides.
Propose ==
  /\ candidate # NoCandidate
  /\ LET c == candidate IN
       \/ /\ c.slot <= c.parent.slot
          /\ outcome' = "slot must increase"
          /\ UNCHANGED head
       \/ /\ c.slot > c.parent.slot
          /\ ~Accepts(c.parent, c.slot, c.time)
          /\ outcome' = "authored block refused"
          /\ UNCHANGED head
       \/ /\ c.slot > c.parent.slot
          /\ Accepts(c.parent, c.slot, c.time)
          /\ outcome' = "authored"
          /\ \/ head' = After(c.parent, c.slot, c.time)
             \/ head # c.parent /\ UNCHANGED head
  /\ candidate' = NoCandidate
  /\ UNCHANGED <<clock, mode, lastSlot, timestamp>>

-----------------------------------------------------------------------------
(* Sealing *)

\* MockTimestampInherentDataProvider: every call moves TIMESTAMP by a slot;
\* consensus_data_provider is None.  A block that the runtime lets pass goes to the
\* import of BABE, which takes a digest for granted: the task panics, and with it,
\* being essential, the node.
SealBlock ==
  /\ mode = "sealing"
  /\ timestamp + SlotDuration <= MaxTimestamp
  /\ \/ /\ ~Accepts(head, NoDigest, timestamp + SlotDuration)
        /\ timestamp' = timestamp + SlotDuration
        /\ outcome' = "sealed block refused"
        /\ UNCHANGED <<mode, lastSlot, candidate>>
     \/ /\ Accepts(head, NoDigest, timestamp + SlotDuration)
        /\ TakeDown
        /\ outcome' = "import panics"
  /\ UNCHANGED <<clock, head>>

-----------------------------------------------------------------------------
(* The pending block of the Ethereum RPC: built, and thrown away *)

\* Faulty variant of PendingTime: the clock as it is.
PendingTimeOfClock == clock

\* pending_create_inherent_data_providers: a slot from now ...
PendingTime == clock + SlotDuration

\* ... and create_digest: the slot of that time, for authority 0.
PendingDigest == SlotOf(PendingTime)

PendingBlockBuilds == Accepts(head, PendingDigest, PendingTime)

-----------------------------------------------------------------------------
Next ==
  \/ \E m \in {"babe", "sealing"} : Start(m)
  \/ Stop
  \/ Tick
  \/ \E slot, time \in 0 .. (MaxClock + 2 * SlotDuration) : ImportForeign(slot, time)
  \/ OnSlot \/ Propose
  \/ SealBlock

Spec == Init /\ [][Next]_vars

-----------------------------------------------------------------------------
(* Properties *)

Heads == [now : Nat, slot : Nat]
Candidates == [parent : Heads, slot : Nat, time : Nat]

\* A block's time lies in its slot.
InSlot(b) == b \in Heads /\ b.slot = SlotOf(b.now)
CandidateInSlot(c) == c \in Candidates /\ InSlot(c.parent) /\ c.slot = SlotOf(c.time)

\* Every variable has its type, the chain's time lies in the chain's slot, and so do
\* time and parent of the block under construction.
TypeOK ==
  /\ clock \in 0..MaxClock
  /\ InSlot(head)
  /\ mode \in {"down", "babe", "sealing"}
  /\ lastSlot \in Nat
  /\ candidate = NoCandidate \/ CandidateInSlot(candidate)
  /\ timestamp \in 0..MaxTimestamp
  /\ outcome \in {"none", "authored", "slot must increase", "authored block refused",
                  "sealed block refused", "import panics"}

\* The runtime never refuses the timestamp of a block that this node authors in a
\* slot after its parent's: the minimum period pushes a timestamp on when the
\* parent was late in its slot, but never out of the slot that the digest claims
\* (service.rs:565-584, configs/mod.rs:176-182).
AuthoredBlocksAccepted == outcome # "authored block refused"

\* As long as the chain is not ahead of the clock here, the Ethereum RPC can build
\* its pending block, at any moment within a slot and however late in its slot the
\* best block was: that is what the slot added to the clock is for
\* (service.rs:417-429, rpc/consensus_data_provider.rs:31-46).
PendingRpcAnswers == head.slot <= SlotOf(clock) => PendingBlockBuilds

\* service.rs:680-681 "Provide a mock duration starting at 0 in millisecond for
\* timestamp inherent. Each call will increment timestamp by slot_duration making
\* Babe think time has passed.": a sealed block is not refused over its time.
SealedTimePasses == outcome # "sealed block refused"
=============================================================================
