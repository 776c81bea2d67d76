-------------------------- MODULE BlockTimeProofs --------------------------
(***************************************************************************)
(* Proofs about BlockTime, for every length of a slot.  The argument is one *)
(* of arithmetic: half a slot, added to a time in an earlier slot, leads at *)
(* most to the middle of the next one.                                      *)
(***************************************************************************)
EXTENDS BlockTime, TLAPS

\* What \div means, in the form the proofs use.
LEMMA SlotBounds ==
  ASSUME NEW t \in Nat
  PROVE  /\ SlotOf(t) \in Nat
         /\ SlotDuration * SlotOf(t) <= t
         /\ t < SlotDuration * SlotOf(t) + SlotDuration
BY SlotDurationAssumption DEF SlotOf

\* A time within the bounds of a slot lies in that slot.
LEMMA SlotUnique ==
  ASSUME NEW t \in Nat, NEW s \in Nat,
         SlotDuration * s <= t, t < SlotDuration * s + SlotDuration
  PROVE  SlotOf(t) = s
BY SlotDurationAssumption DEF SlotOf

\* One slot later on the clock is the next slot.
LEMMA NextSlot ==
  ASSUME NEW t \in Nat
  PROVE  SlotOf(t + SlotDuration) = SlotOf(t) + 1
<1>1. SlotOf(t) \in Nat
  BY SlotBounds
<1>2. SlotDuration * (SlotOf(t) + 1) = SlotDuration * SlotOf(t) + SlotDuration
  BY <1>1, SlotDurationAssumption
<1>3. /\ SlotDuration * (SlotOf(t) + 1) <= t + SlotDuration
      /\ t + SlotDuration < SlotDuration * (SlotOf(t) + 1) + SlotDuration
  BY <1>1, <1>2, SlotBounds, SlotDurationAssumption
<1> QED
  BY <1>1, <1>3, SlotUnique, SlotDurationAssumption

\* The minimum period is a natural number of at most half a slot.
LEMMA PeriodBounds ==
  /\ MinimumPeriod \in Nat
  /\ MinimumPeriod < SlotDuration
BY SlotDurationAssumption DEF MinimumPeriod

\* The core: a time in a slot after the parent's is accepted with the digest of its
\* slot, though the minimum period may push it on.
LEMMA LaterSlotAccepted ==
  ASSUME NEW parent \in Heads, parent.slot = SlotOf(parent.now),
         NEW t \in Nat, SlotOf(t) > parent.slot
  PROVE  Accepts(parent, SlotOf(t), t)
<1> DEFINE pushed == parent.now + MinimumPeriod
           d == SlotDuration
<1>1. parent.now \in Nat /\ pushed \in Nat
  BY PeriodBounds DEF Heads
<1>2. SlotOf(t) \in Nat /\ SlotOf(parent.now) \in Nat
  BY <1>1, SlotBounds
<1>3. CurrentSlot(parent, SlotOf(t)) = SlotOf(t)
  BY <1>2 DEF CurrentSlot, NoDigest
<1>4. CASE t >= pushed
  <2>1. InherentTime(parent, t) = t
    BY <1>4 DEF InherentTime
  <2> QED
    BY <1>1, <1>3, <1>4, <2>1 DEF Accepts
<1>5. CASE ~(t >= pushed)
  <2>1. InherentTime(parent, t) = pushed
    BY <1>5 DEF InherentTime
  <2>2. d * SlotOf(t) <= pushed
    BY <1>1, <1>2, <1>5, SlotBounds, SlotDurationAssumption
  <2>3. d * SlotOf(parent.now) + d <= d * SlotOf(t)
    <3>1. SlotOf(parent.now) + 1 <= SlotOf(t)
      BY <1>2
    <3>2. PICK k \in Nat : SlotOf(t) = SlotOf(parent.now) + 1 + k
      <4>1. SlotOf(t) - SlotOf(parent.now) - 1 \in Nat
        BY <1>2, <3>1
      <4> QED
        BY <1>2, <4>1
    <3>3. d * SlotOf(t) = d * SlotOf(parent.now) + d + d * k
      BY <1>2, <3>2, SlotDurationAssumption
    <3>4. d * k \in Nat /\ d * SlotOf(parent.now) \in Nat
      BY <1>2, SlotDurationAssumption
    <3> QED
      BY <3>3, <3>4, SlotDurationAssumption
  <2>4. pushed < d * SlotOf(t) + d
    <3>1. parent.now < d * SlotOf(parent.now) + d
      BY <1>1, SlotBounds
    <3>2. d * SlotOf(parent.now) \in Nat /\ d * SlotOf(t) \in Nat
      BY <1>2, SlotDurationAssumption
    <3> QED
      BY <1>1, <2>3, <3>1, <3>2, PeriodBounds, SlotDurationAssumption
  <2>5. SlotOf(pushed) = SlotOf(t)
    BY <1>1, <1>2, <2>2, <2>4, SlotUnique
  <2> QED
    BY <1>1, <1>3, <2>1, <2>5 DEF Accepts
<1> QED
  BY <1>4, <1>5

\* After an accepted block the chain's time lies in the chain's slot.
LEMMA AfterInSlot ==
  ASSUME NEW parent \in Heads, NEW digest \in Nat, NEW t \in Nat, Accepts(parent, digest, t)
  PROVE  InSlot(After(parent, digest, t))
<1>1. InherentTime(parent, t) \in Nat
  BY PeriodBounds DEF InherentTime, Heads
<1>2. CurrentSlot(parent, digest) \in Nat
  BY DEF CurrentSlot, Heads
<1> QED
  BY <1>1, <1>2 DEF After, Accepts, Heads, InSlot

\* The bound on the sealing task's time is a number.
LEMMA MaxTimestampType == MaxTimestamp \in Nat
BY SlotDurationAssumption, BoundsAssumption DEF MaxTimestamp

\* The chain's time and slot, and those of the block under construction, agree in every
\* state: pallet_timestamp's and pallet_babe's checks keep two pallets' clocks together.
THEOREM TypeCorrect == Spec => []TypeOK
<1> USE SlotDurationAssumption, BoundsAssumption, MaxTimestampType
<1>1. Init => TypeOK
  <2>1. SlotOf(0) = 0
    BY SlotUnique
  <2>2. InSlot([now |-> 0, slot |-> 0])
    BY <2>1 DEF InSlot, Heads
  <2> QED
    BY <2>2 DEF Init, TypeOK
<1>2. TypeOK /\ [Next]_vars => TypeOK'
  <2> SUFFICES ASSUME TypeOK, [Next]_vars
               PROVE  TypeOK'
    OBVIOUS
  <2>0. clock \in 0..MaxClock /\ timestamp \in 0..MaxTimestamp /\ lastSlot \in Nat
    BY DEF TypeOK
  <2>1. ASSUME NEW m \in {"babe", "sealing"}, Start(m)
        PROVE  TypeOK'
    BY <2>1 DEF TypeOK, Start
  <2>2. CASE Stop
    <3>1. lastSlot' \in Nat /\ timestamp' \in 0..MaxTimestamp
      BY <2>2 DEF Stop, TakeDown
    <3> QED
      BY <2>2, <3>1 DEF TypeOK, Stop, TakeDown
  <2>3. CASE Tick
    <3>1. clock' \in 0..MaxClock
      BY <2>0, <2>3 DEF Tick
    <3> QED
      BY <2>3, <3>1 DEF TypeOK, Tick
  <2>4. ASSUME NEW slot \in 0 .. (MaxClock + 2 * SlotDuration),
               NEW time \in 0 .. (MaxClock + 2 * SlotDuration),
               ImportForeign(slot, time)
        PROVE  TypeOK'
    <3>1. head \in Heads /\ Accepts(head, slot, time)
      BY <2>4 DEF TypeOK, InSlot, ImportForeign
    <3>2. slot \in Nat /\ time \in Nat
      OBVIOUS
    <3>3. InSlot(head')
      BY <2>4, <3>1, <3>2, AfterInSlot DEF ImportForeign
    <3> QED
      BY <2>4, <3>3 DEF TypeOK, ImportForeign
  <2>5. CASE OnSlot
    <3>1. clock \in Nat
      BY <2>0
    <3>2. SlotOf(clock) \in Nat
      BY <3>1, SlotBounds
    <3>3. head \in Heads /\ head.slot = SlotOf(head.now)
      BY DEF TypeOK, InSlot
    <3>4. CandidateInSlot([parent |-> head, slot |-> SlotOf(clock), time |-> clock])
      BY <3>1, <3>2, <3>3 DEF CandidateInSlot, InSlot, Candidates
    <3>5. CandidateInSlot(candidate') /\ lastSlot' \in Nat
      BY <2>5, <3>2, <3>4 DEF OnSlot
    <3> QED
      BY <2>5, <3>5 DEF TypeOK, OnSlot
  <2>6. CASE Propose
    <3>1. candidate \in Candidates
      BY <2>6 DEF TypeOK, CandidateInSlot, Propose
    <3>2. InSlot(head')
      <4>1. CASE head' = After(candidate.parent, candidate.slot, candidate.time)
                 /\ Accepts(candidate.parent, candidate.slot, candidate.time)
        BY <3>1, <4>1, AfterInSlot DEF Candidates
      <4>2. CASE head' = head
        BY <4>2 DEF TypeOK
      <4> QED
        BY <2>6, <4>1, <4>2 DEF Propose
    <3>3. outcome' \in {"authored", "slot must increase", "authored block refused"}
      BY <2>6 DEF Propose
    <3> QED
      BY <2>6, <3>2, <3>3 DEF TypeOK, Propose
  <2>7. CASE SealBlock
    <3>1. /\ timestamp + SlotDuration <= MaxTimestamp
          /\ \/ timestamp' = timestamp + SlotDuration /\ lastSlot' = lastSlot
             \/ timestamp' = 0 /\ lastSlot' = 0
      BY <2>7 DEF SealBlock, TakeDown
    <3>2. lastSlot' \in Nat /\ timestamp' \in 0..MaxTimestamp
      BY <2>0, <3>1
    <3> QED
      BY <2>7, <3>2 DEF TypeOK, SealBlock, TakeDown
  <2>8. CASE UNCHANGED vars
    BY <2>8 DEF TypeOK, vars
  <2> QED
    BY <2>1, <2>2, <2>3, <2>4, <2>5, <2>6, <2>7, <2>8 DEF Next
<1> QED
  BY <1>1, <1>2, PTL DEF Spec

\* The runtime never refuses the time of a block that this node authors in a slot
\* after its parent's (service.rs:565-584, configs/mod.rs:176-182).
THEOREM AuthoredBlocksAcceptedCorrect == Spec => []AuthoredBlocksAccepted
<1>1. Init => AuthoredBlocksAccepted
  BY DEF Init, AuthoredBlocksAccepted
<1>2. TypeOK /\ AuthoredBlocksAccepted /\ [Next]_vars => AuthoredBlocksAccepted'
  <2> SUFFICES ASSUME TypeOK, AuthoredBlocksAccepted, [Next]_vars
               PROVE  AuthoredBlocksAccepted'
    OBVIOUS
  <2>1. CASE Propose
    <3>1. CandidateInSlot(candidate)
      BY <2>1 DEF TypeOK, Propose
    <3>2. ASSUME candidate.slot > candidate.parent.slot
          PROVE  Accepts(candidate.parent, candidate.slot, candidate.time)
      <4>1. /\ candidate.parent \in Heads /\ candidate.time \in Nat
            /\ candidate.slot = SlotOf(candidate.time)
            /\ candidate.parent.slot = SlotOf(candidate.parent.now)
        BY <3>1 DEF CandidateInSlot, InSlot, Candidates
      <4> QED
        BY <3>2, <4>1, LaterSlotAccepted
    <3> QED
      BY <2>1, <3>2 DEF Propose, AuthoredBlocksAccepted
  <2>2. CASE outcome' \in {"none", "sealed block refused", "import panics"}
    BY <2>2 DEF AuthoredBlocksAccepted
  <2>3. CASE UNCHANGED vars
    BY <2>3 DEF AuthoredBlocksAccepted, vars
  <2>4. CASE SealBlock
    BY <2>2, <2>4 DEF SealBlock
  <2> QED
    BY <2>1, <2>2, <2>3, <2>4 DEF Next, Start, Stop, Tick, ImportForeign, OnSlot
<1> QED
  BY <1>1, <1>2, TypeCorrect, PTL DEF Spec

\* The Ethereum RPC can build its pending block whenever the chain is not ahead of the
\* clock (service.rs:416-427, rpc/consensus_data_provider.rs:31-46).
THEOREM PendingRpcAnswersCorrect == Spec => []PendingRpcAnswers
<1>1. TypeOK => PendingRpcAnswers
  <2> SUFFICES ASSUME TypeOK, head.slot <= SlotOf(clock)
               PROVE  Accepts(head, SlotOf(PendingTime), PendingTime)
    BY DEF PendingRpcAnswers, PendingBlockBuilds, PendingDigest
  <2>1. clock \in Nat /\ PendingTime \in Nat /\ head \in Heads /\ head.slot \in Nat
    <3>1. clock \in 0..MaxClock /\ head \in Heads
      BY DEF TypeOK, InSlot
    <3> QED
      BY <3>1, SlotDurationAssumption, BoundsAssumption DEF PendingTime, Heads
  <2>2. SlotOf(PendingTime) = SlotOf(clock) + 1 /\ SlotOf(clock) \in Nat
    BY <2>1, NextSlot, SlotBounds DEF PendingTime
  <2>3. SlotOf(PendingTime) > head.slot
    BY <2>1, <2>2
  <2> QED
    BY <2>1, <2>3, LaterSlotAccepted DEF TypeOK, InSlot
<1> QED
  BY <1>1, TypeCorrect, PTL
=============================================================================
