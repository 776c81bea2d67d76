-------------------------- MODULE DemocracyProofs --------------------------
(***************************************************************************)
(* Proofs about Democracy, for any number of proposals and members and any  *)
(* lengths of the periods.                                                  *)
(***************************************************************************)
EXTENDS Democracy, TLAPS

\* A running cool-off ends one block nearer, one that is over or for ever stays so.
LEMMA CooloffMovesOn ==
  ASSUME NEW p \in Proposals, cooloff \in [Proposals -> 0..Forever],
         cooloff' = [q \in Proposals |->
                       IF cooloff[q] \in {0, Forever} THEN cooloff[q] ELSE cooloff[q] - 1]
  PROVE  /\ cooloff'[p] \in 0..Forever
         /\ cooloff[p] = 0 => cooloff'[p] = 0
<1>1. Forever \in Nat /\ cooloff[p] \in 0..Forever
  BY DemocracyPeriodsAssumption DEF Forever
<1> QED
  BY <1>1

\* The longest time a referendum has left.
LEMMA MaxLeftType == MaxLeft \in Nat \ {0} /\ VotingPeriod <= MaxLeft /\ MaxFastTrack <= MaxLeft
BY DemocracyPeriodsAssumption DEF MaxLeft

\* What is left of the referenda after a block has its type again, and so has what was
\* voted on.
LEMMA MatureType ==
  ASSUME NEW refs, refs \subseteq [hash : Proposals, left : 1..(MaxLeft + 1)], Mature(refs)
  PROVE  referenda' \subseteq Referendum /\ voted' \in BOOLEAN
<1>1. ASSUME NEW r \in referenda'
      PROVE  r \in Referendum
  <2>1. PICK x \in refs : x.left > 1 /\ r = [x EXCEPT !.left = @ - 1]
    BY DEF Mature
  <2> QED
    BY <2>1, MaxLeftType DEF Referendum
<1>2. voted' \in BOOLEAN
  BY DEF Mature
<1> QED
  BY <1>1, <1>2

\* A proposal that waits, and one that has just been put to the vote.
LEMMA LaunchedType ==
  ASSUME NEW p \in Proposals, referenda \subseteq Referendum
  PROVE  /\ referenda \subseteq [hash : Proposals, left : 1..(MaxLeft + 1)]
         /\ referenda \cup {New(p)} \subseteq [hash : Proposals, left : 1..(MaxLeft + 1)]
BY MaxLeftType, DemocracyPeriodsAssumption DEF Referendum, New

\* The type invariant is inductive as it stands.
THEOREM TypeCorrect == Spec => []TypeOK
<1> USE ProposalsAssumption, DemocracyPeriodsAssumption
<1>1. Init => TypeOK
  <2>1. 0 \in 0..Forever /\ 0 \in 0 .. (LaunchPeriod - 1)
    BY DEF Forever
  <2> QED
    BY <2>1 DEF Init, TypeOK
<1>2. TypeOK /\ [Next]_vars => TypeOK'
  <2> SUFFICES ASSUME TypeOK, [Next]_vars
               PROVE  TypeOK'
    OBVIOUS
  <2> DEFINE Waiting == [hash : Proposals, threshold : Thresholds]
  <2>0. nextExternal # NoProposal => nextExternal \in Waiting
    BY DEF TypeOK
  <2>1. ASSUME NEW p \in Proposals, ExternalPropose(p)
        PROVE  TypeOK'
    BY <2>1 DEF TypeOK, ExternalPropose, Thresholds
  <2>2. ASSUME NEW p \in Proposals, PublicPropose(p)
        PROVE  TypeOK'
    BY <2>2 DEF TypeOK, PublicPropose
  <2>3. ASSUME NEW p \in Proposals, CancelProposal(p)
        PROVE  TypeOK'
    BY <2>3 DEF TypeOK, CancelProposal
  <2>4. ASSUME NEW p \in Proposals, Blacklist(p)
        PROVE  TypeOK'
    <3>1. Forever \in 0..Forever
      BY DEF Forever
    <3>2. cooloff' \in [Proposals -> 0..Forever] /\ vetoers' \in [Proposals -> SUBSET Committee]
      BY <2>4, <3>1 DEF TypeOK, Blacklist
    <3>3. nextExternal' \in Waiting \cup {NoProposal} /\ referenda' \subseteq referenda
      BY <2>4 DEF TypeOK, Blacklist
    <3> QED
      BY <2>4, <3>2, <3>3 DEF TypeOK, Blacklist
  <2>5. ASSUME NEW p \in Proposals, NEW t \in Thresholds, ExternalProposeMajority(p, t)
        PROVE  TypeOK'
    BY <2>5 DEF TypeOK, ExternalProposeMajority
  <2>6. ASSUME NEW left \in 1..MaxFastTrack, FastTrack(left)
        PROVE  TypeOK'
    <3>1. left \in 1..MaxLeft
      BY MaxLeftType
    <3>2. [hash |-> nextExternal.hash, left |-> left] \in Referendum
      BY <2>0, <2>6, <3>1 DEF FastTrack, Referendum
    <3> QED
      BY <2>6, <3>2 DEF TypeOK, FastTrack
  <2>7. ASSUME NEW who \in Committee, VetoExternal(who)
        PROVE  TypeOK'
    <3>1. nextExternal.hash \in Proposals
      BY <2>0, <2>7 DEF VetoExternal
    <3>2. CooloffPeriod \in 0..Forever
      BY DEF Forever
    <3>3. cooloff' \in [Proposals -> 0..Forever]
      BY <2>7, <3>1, <3>2 DEF TypeOK, VetoExternal
    <3>4. vetoers' \in [Proposals -> SUBSET Committee]
      BY <2>7, <3>1 DEF TypeOK, VetoExternal
    <3> QED
      BY <2>7, <3>3, <3>4 DEF TypeOK, VetoExternal
  <2>8. ASSUME NEW r \in referenda, EmergencyCancel(r) \/ CancelReferendum(r)
        PROVE  TypeOK'
    <3>1. r.hash \in Proposals
      BY DEF TypeOK, Referendum
    <3> QED
      BY <2>8, <3>1 DEF TypeOK, EmergencyCancel, CancelReferendum
  <2>9. CASE BeginBlock
    <3>1. sinceLaunch' \in 0 .. (LaunchPeriod - 1)
      BY <2>9 DEF TypeOK, BeginBlock
    <3>2. cooloff' \in [Proposals -> 0..Forever]
      <4>1. \A p \in Proposals : cooloff'[p] \in 0..Forever
        BY <2>9, CooloffMovesOn DEF TypeOK, BeginBlock
      <4> QED
        BY <2>9, <4>1 DEF BeginBlock
    <3>3. referenda \subseteq Referendum /\ publicProps \subseteq Proposals
      BY DEF TypeOK
    <3>4. /\ nextExternal' \in Waiting \cup {NoProposal}
          /\ publicProps' \subseteq Proposals
          /\ lastTabledWasExternal' \in BOOLEAN
          /\ referenda' \subseteq Referendum /\ voted' \in BOOLEAN
      <4>1. CASE LaunchExternal
        <5>1. nextExternal.hash \in Proposals
          BY <2>0, <4>1 DEF LaunchExternal
        <5>2. Mature(referenda \cup {New(nextExternal.hash)})
          BY <4>1 DEF LaunchExternal
        <5>3. referenda' \subseteq Referendum /\ voted' \in BOOLEAN
          BY <3>3, <5>1, <5>2, MatureType, LaunchedType
        <5> QED
          BY <3>3, <4>1, <5>3 DEF LaunchExternal
      <4>2. CASE LaunchPublic
        <5>1. PICK p \in publicProps : Mature(referenda \cup {New(p)})
          BY <4>2 DEF LaunchPublic
        <5>2. referenda' \subseteq Referendum /\ voted' \in BOOLEAN
          BY <3>3, <5>1, MatureType, LaunchedType
        <5> QED
          BY <3>3, <4>2, <5>2 DEF LaunchPublic, TypeOK
      <4>3. CASE /\ Mature(referenda) /\ UNCHANGED <<nextExternal, publicProps>>
                 /\ lastTabledWasExternal' \in {FALSE, lastTabledWasExternal}
        <5>1. referenda' \subseteq Referendum /\ voted' \in BOOLEAN
          BY <3>3, <4>3, MatureType, LaunchedType, ProposalsAssumption
        <5> QED
          BY <4>3, <5>1 DEF TypeOK
      <4> QED
        BY <2>9, <4>1, <4>2, <4>3 DEF BeginBlock, LaunchNext
    <3> QED
      BY <2>9, <3>1, <3>2, <3>4 DEF TypeOK, BeginBlock
  <2>10. CASE UNCHANGED vars
    BY <2>10 DEF TypeOK, vars
  <2> QED
    BY <2>1, <2>2, <2>3, <2>4, <2>5, <2>6, <2>7, <2>8, <2>9, <2>10 DEF Next
<1> QED
  BY <1>1, <1>2, PTL DEF Spec

-----------------------------------------------------------------------------
(* VetoHolds *)

\* What waits in the council's place while a veto cools off was brought by a
\* super-majority, and what is blacklisted has left the public queue.
QueueInv ==
  /\ nextExternal # NoProposal /\ cooloff[nextExternal.hash] > 0
       => nextExternal.threshold # "SuperMajorityApprove"
  /\ \A p \in Proposals : cooloff[p] = Forever => p \notin publicProps

\* The council's place keeps to it.
LEMMA PlaceNext ==
  ASSUME TypeOK, QueueInv, [Next]_vars, nextExternal' # NoProposal,
         nextExternal'.threshold = "SuperMajorityApprove"
  PROVE  ~(cooloff'[nextExternal'.hash] > 0)
<1>1. ASSUME NEW p \in Proposals, ExternalPropose(p)
      PROVE  ~(cooloff'[nextExternal'.hash] > 0)
  BY <1>1 DEF ExternalPropose
<1>2. ASSUME NEW p \in Proposals, NEW t \in Thresholds, ExternalProposeMajority(p, t)
      PROVE  FALSE
  BY <1>2 DEF ExternalProposeMajority
<1>3. ASSUME NEW p \in Proposals, Blacklist(p)
      PROVE  ~(cooloff'[nextExternal'.hash] > 0)
  <2>1. nextExternal' = nextExternal /\ nextExternal.hash # p
    BY <1>3 DEF Blacklist
  <2>2. nextExternal.hash \in Proposals
    BY <2>1 DEF TypeOK
  <2>3. cooloff'[nextExternal.hash] = cooloff[nextExternal.hash]
    BY <1>3, <2>1, <2>2 DEF Blacklist, TypeOK
  <2> QED
    BY <2>1, <2>3 DEF QueueInv
<1>4. CASE BeginBlock
  <2>1. nextExternal' = nextExternal
    BY <1>4 DEF BeginBlock, LaunchNext, LaunchExternal, LaunchPublic
  <2>2. nextExternal.hash \in Proposals
    BY <2>1 DEF TypeOK
  <2>3. cooloff[nextExternal.hash] \in 0..Forever /\ ~(cooloff[nextExternal.hash] > 0)
    BY <2>1, <2>2 DEF TypeOK, QueueInv
  <2>4. cooloff[nextExternal.hash] = 0
    BY <2>3
  <2>5. cooloff'[nextExternal.hash] = 0
    BY <1>4, <2>2, <2>4, CooloffMovesOn DEF BeginBlock, TypeOK
  <2> QED
    BY <2>1, <2>5
<1>5. CASE nextExternal' = NoProposal
  BY <1>5
<1>6. CASE UNCHANGED <<nextExternal, cooloff>>
  BY <1>6 DEF QueueInv
<1> QED
  BY <1>1, <1>2, <1>3, <1>4, <1>5, <1>6
     DEF Next, vars, PublicPropose, CancelProposal, FastTrack, VetoExternal,
         EmergencyCancel, CancelReferendum

\* So does the public queue.
LEMMA PublicNext ==
  ASSUME TypeOK, QueueInv, [Next]_vars, NEW p \in Proposals, cooloff'[p] = Forever
  PROVE  p \notin publicProps'
<1>0. /\ cooloff \in [Proposals -> 0..Forever] /\ Forever \in Nat /\ Forever # 0
      /\ Forever # CooloffPeriod
  BY DemocracyPeriodsAssumption DEF TypeOK, Forever
<1>1. CASE cooloff' = cooloff /\ publicProps' \subseteq publicProps
  BY <1>1 DEF QueueInv
<1>2. ASSUME NEW q \in Proposals, PublicPropose(q)
      PROVE  p \notin publicProps'
  BY <1>0, <1>2 DEF PublicPropose, QueueInv
<1>3. ASSUME NEW q \in Proposals, Blacklist(q)
      PROVE  p \notin publicProps'
  <2>1. CASE p = q
    BY <1>3, <2>1 DEF Blacklist
  <2>2. CASE p # q
    BY <1>0, <1>3, <2>2 DEF Blacklist, QueueInv
  <2> QED
    BY <2>1, <2>2
<1>4. ASSUME NEW who \in Committee, VetoExternal(who)
      PROVE  p \notin publicProps'
  BY <1>0, <1>4 DEF VetoExternal, QueueInv
<1>5. CASE BeginBlock
  <2>1. cooloff[p] = Forever
    <3>1. cooloff[p] \in 0..Forever
      BY <1>0
    <3>2. cooloff'[p] = IF cooloff[p] \in {0, Forever} THEN cooloff[p] ELSE cooloff[p] - 1
      BY <1>5 DEF BeginBlock
    <3> QED
      BY <1>0, <3>1, <3>2
  <2>2. publicProps' \subseteq publicProps
    BY <1>5 DEF BeginBlock, LaunchNext, LaunchExternal, LaunchPublic
  <2> QED
    BY <2>1, <2>2 DEF QueueInv
<1> QED
  BY <1>1, <1>2, <1>3, <1>4, <1>5
     DEF Next, vars, ExternalPropose, ExternalProposeMajority, CancelProposal, FastTrack,
         EmergencyCancel, CancelReferendum

\* The two queues.
LEMMA QueueInvariance == Spec => []QueueInv
<1>1. Init => QueueInv
  <2>1. Forever # 0
    BY DemocracyPeriodsAssumption DEF Forever
  <2> QED
    BY <2>1 DEF Init, QueueInv
<1>2. TypeOK /\ QueueInv /\ [Next]_vars => QueueInv'
  BY PlaceNext, PublicNext DEF QueueInv
<1> QED
  BY <1>1, <1>2, TypeCorrect, PTL DEF Spec

\* Whatever is ongoing after a block was there a block older, or is the new referendum.
LEMMA CarriedOver ==
  ASSUME NEW refs, refs \subseteq [hash : Proposals, left : 1..(MaxLeft + 1)], Mature(refs),
         NEW r \in referenda'
  PROVE  [r EXCEPT !.left = @ + 1] \in refs
<1>1. PICK x \in refs : x.left > 1 /\ r = [x EXCEPT !.left = @ - 1]
  BY DEF Mature
<1>2. x.left \in Int /\ (x.left - 1) + 1 = x.left
  BY <1>1, MaxLeftType
<1>3. [r EXCEPT !.left = @ + 1] = x
  BY <1>1, <1>2
<1> QED
  BY <1>1, <1>3

\* The referendum that a block starts is the one it launches.
LEMMA StartedByLaunch ==
  ASSUME TypeOK, BeginBlock, NEW p \in Proposals, Starts(p)
  PROVE  \/ LaunchExternal /\ nextExternal.hash = p
         \/ p \in publicProps \ publicProps'
<1>0. referenda \subseteq Referendum /\ publicProps \subseteq Proposals
  BY DEF TypeOK
<1>1. PICK r \in referenda' : r.hash = p /\ [r EXCEPT !.left = @ + 1] \notin referenda
  BY DEF Starts
<1>2. r \in Referendum => [r EXCEPT !.left = @ + 1].hash = p
  BY <1>1 DEF Referendum
<1>3. CASE Mature(referenda)
  BY <1>0, <1>1, <1>3, LaunchedType, CarriedOver
<1>4. ASSUME NEW q \in Proposals, Mature(referenda \cup {New(q)})
      PROVE  p = q
  <2>1. referenda \cup {New(q)} \subseteq [hash : Proposals, left : 1..(MaxLeft + 1)]
    BY <1>0, LaunchedType
  <2>2. [r EXCEPT !.left = @ + 1] = New(q)
    BY <1>1, <1>4, <2>1, CarriedOver
  <2>3. r \in Referendum
    BY <1>1, <1>4, <2>1, MatureType
  <2> QED
    BY <1>2, <2>2, <2>3 DEF New
<1>5. CASE LaunchExternal
  <2>1. nextExternal.hash \in Proposals
    BY <1>5 DEF TypeOK, LaunchExternal
  <2> QED
    BY <1>4, <1>5, <2>1 DEF LaunchExternal
<1>6. CASE LaunchPublic
  <2>1. PICK q \in publicProps : publicProps' = publicProps \ {q} /\ Mature(referenda \cup {New(q)})
    BY <1>6 DEF LaunchPublic
  <2> QED
    BY <1>0, <1>4, <2>1
<1> QED
  BY <1>3, <1>5, <1>6 DEF BeginBlock, LaunchNext

\* Between two blocks only fast_track starts a referendum.
LEMMA StartedByFastTrack ==
  ASSUME [Next]_vars, ~BeginBlock, NEW p \in Proposals, Starts(p)
  PROVE  \E left \in 1..MaxFastTrack : FastTrack(left) /\ nextExternal.hash = p
<1>1. PICK r \in referenda' : r.hash = p /\ r \notin referenda
  BY DEF Starts
<1>2. ASSUME NEW left \in 1..MaxFastTrack, FastTrack(left)
      PROVE  nextExternal.hash = p
  BY <1>1, <1>2 DEF FastTrack
<1> QED
  BY <1>1, <1>2
     DEF Next, vars, ExternalPropose, ExternalProposeMajority, PublicPropose, CancelProposal,
         Blacklist, VetoExternal, EmergencyCancel, CancelReferendum

\* While a veto cools off, its proposal comes to a referendum only with a super-majority
\* of the council, or out of the public queue if it stood there before the veto, and the
\* public queue takes it in no more (configs/mod.rs:786-796, 815-818).
THEOREM VetoHoldsCorrect == Spec => VetoHolds
<1> DEFINE Holds(p) ==
      /\ p \in publicProps' => p \in publicProps
      /\ Starts(p) =>
           \/ /\ nextExternal.hash = p /\ nextExternal' = NoProposal
              /\ nextExternal.threshold # "SuperMajorityApprove"
           \/ /\ p \in publicProps \ publicProps'
              /\ cooloff[p] # Forever
<1>1. ASSUME TypeOK, QueueInv, [Next]_vars, NEW p \in Proposals, cooloff[p] > 0
      PROVE  Holds(p)
  <2>1. ASSUME p \in publicProps' PROVE p \in publicProps
    <3>1. CASE publicProps' \subseteq publicProps
      BY <2>1, <3>1
    <3>2. CASE \E q \in Proposals : PublicPropose(q)
      BY <1>1, <2>1, <3>2 DEF PublicPropose
    <3>3. CASE BeginBlock
      BY <2>1, <3>3 DEF BeginBlock, LaunchNext, LaunchExternal, LaunchPublic
    <3> QED
      BY <1>1, <3>1, <3>2, <3>3
         DEF Next, vars, ExternalPropose, ExternalProposeMajority, CancelProposal, Blacklist,
             FastTrack, VetoExternal, EmergencyCancel, CancelReferendum
  <2>2. p \in publicProps => cooloff[p] # Forever
    BY <1>1 DEF QueueInv
  <2>3. ASSUME Starts(p), BeginBlock PROVE Holds(p)
    <3>1. CASE LaunchExternal /\ nextExternal.hash = p
      BY <1>1, <2>1, <3>1 DEF LaunchExternal, QueueInv
    <3> QED
      BY <1>1, <2>1, <2>2, <2>3, <3>1, StartedByLaunch
  <2>4. ASSUME Starts(p), ~BeginBlock PROVE Holds(p)
    <3>1. PICK left \in 1..MaxFastTrack : FastTrack(left) /\ nextExternal.hash = p
      BY <1>1, <2>4, StartedByFastTrack
    <3> QED
      BY <2>1, <3>1 DEF FastTrack
  <2> QED
    BY <2>1, <2>3, <2>4
<1>2. TypeOK /\ QueueInv /\ [Next]_vars
        => [\A p \in Proposals : cooloff[p] > 0 => Holds(p)]_vars
  BY <1>1
<1> QED
  BY <1>2, TypeCorrect, QueueInvariance, PTL DEF Spec, VetoHolds
=============================================================================
