-------------------------- MODULE CollectiveProofs --------------------------
(***************************************************************************)
(* TLAPS proofs about Collective, for any set of accounts, any genesis and  *)
(* any number of changes.                                                   *)
(***************************************************************************)
EXTENDS Collective, FiniteSetTheorems, TLAPS

Proportions == [n : Nat, d : Nat, strict : BOOLEAN]

\* A call's origin is one of the body's, and asks for a proportion of naturals.
LEMMA OriginTypes ==
  ASSUME NEW b \in {"council", "committee"}, NEW call \in Calls(b)
  PROVE  call \in CallNames /\ Origins(b)[call] \in Proportions
<1>1. call \in CallNames
  BY DEF Calls, CallNames
<1>2. /\ AtLeast(1, 2) \in Proportions /\ AtLeast(3, 4) \in Proportions
      /\ AtLeast(1, 1) \in Proportions /\ AtLeast(2, 3) \in Proportions
      /\ MoreThan(1, 2) \in Proportions
  BY DEF AtLeast, MoreThan, Proportions
<1>3. CASE b = "council"
  <2>1. Origins(b) = CouncilOrigins
    BY <1>3 DEF Origins
  <2>2. call \in {"ExternalOrigin", "ExternalMajorityOrigin", "ExternalDefaultOrigin",
                  "CancellationOrigin", "EnsureRootOrHalfCouncil"}
    BY <2>1 DEF Calls, CouncilOrigins
  <2>3. CouncilOrigins[call] \in {AtLeast(1, 2), AtLeast(3, 4), AtLeast(1, 1), AtLeast(2, 3),
                                  MoreThan(1, 2)}
    BY <2>2 DEF CouncilOrigins
  <2>4. QED
    BY <1>1, <1>2, <2>1, <2>3
<1>4. CASE b = "committee"
  <2>1. Origins(b) = CommitteeOrigins
    BY <1>4 DEF Origins
  <2>2. call \in {"FastTrackOrigin", "InstantOrigin"}
    BY <2>1 DEF Calls, CommitteeOrigins
  <2>3. CommitteeOrigins[call] \in {AtLeast(2, 3), AtLeast(1, 1)}
    BY <2>2 DEF CommitteeOrigins
  <2>4. QED
    BY <1>1, <1>2, <2>1, <2>3
<1>5. QED
  BY <1>3, <1>4

\* Seats and votes are counted in naturals.
LEMMA Counts ==
  ASSUME NEW S \in SUBSET Accounts
  PROVE  IsFiniteSet(S) /\ Cardinality(S) \in Nat /\ Cardinality(S) <= Cardinality(Accounts)
         /\ Cardinality(Accounts) \in Nat
  BY FS_Subset, FS_CardinalityType, AccountsAssumption

\* Whatever is dispatched has the type of a carried motion.
LEMMA DispatchTypes ==
  ASSUME TypeOK, NEW m \in Motion, NEW yes, Dispatch(m, yes)
  PROVE  /\ motion' = NoMotion
         /\ carried' \in [call : CallNames, ayes : SUBSET Accounts, nays : SUBSET Accounts,
                          members : SUBSET Accounts] \cup {NoMotion}
  BY DEF Dispatch, TypeOK, Motion

\* A motion is not NoMotion: it has votes.
LEMMA MotionIsMotion ==
  ASSUME TypeOK, motion # NoMotion
  PROVE  motion \in Motion
  BY DEF TypeOK

\* Dropping votes keeps the motion's type, and what is left are the votes before
\* without those who leave.
LEMMA DropVotesTypes ==
  ASSUME TypeOK, NEW out, DropVotes(out)
  PROVE  /\ motion' \in Motion \cup {NoMotion}
         /\ motion' = NoMotion <=> motion = NoMotion
         /\ motion # NoMotion => /\ motion'.ayes = motion.ayes \ out
                                 /\ motion'.nays = motion.nays \ out
<1>1. CASE motion = NoMotion
  BY <1>1 DEF DropVotes
<1>2. CASE motion # NoMotion
  <2>1. motion \in Motion
    BY <1>2, MotionIsMotion
  <2>2. motion' = [motion EXCEPT !.ayes = motion.ayes \ out, !.nays = motion.nays \ out]
    BY <1>2 DEF DropVotes
  <2>3. motion' \in Motion /\ motion'.ayes = motion.ayes \ out /\ motion'.nays = motion.nays \ out
    BY <2>1, <2>2 DEF Motion
  <2>4. motion' # NoMotion
    <3>1. CallNames = {"ExternalOrigin", "ExternalMajorityOrigin", "ExternalDefaultOrigin",
                       "CancellationOrigin", "EnsureRootOrHalfCouncil", "FastTrackOrigin",
                       "InstantOrigin"}
      BY DEF CallNames, Calls, Origins, CouncilOrigins, CommitteeOrigins
    <3>2. motion'.call # "none"
      BY <2>3, <3>1 DEF Motion
    <3>3. QED
      BY <3>2 DEF NoMotion
  <2>5. QED
    BY <1>2, <2>3, <2>4
<1>3. QED
  BY <1>1, <1>2

\* The variables keep their types.
THEOREM TypeCorrect == Spec => []TypeOK
<1>1. Init => TypeOK
  BY AccountsAssumption, MaxChangesAssumption DEF Init, TypeOK
<1>2. TypeOK /\ [Next]_vars => TypeOK'
  <2> SUFFICES ASSUME TypeOK, [Next]_vars PROVE TypeOK'
    OBVIOUS
  <2> USE DEF memberVars
  <2>1. ASSUME NEW who \in Accounts, NEW call \in Calls(body), NEW t \in Thresholds,
               Propose(who, call, t)
        PROVE TypeOK'
    <3> DEFINE m == [call |-> call, threshold |-> t, ayes |-> {}, nays |-> {}]
    <3> DEFINE m1 == [m EXCEPT !.ayes = {who}]
    <3>1. call \in CallNames
      BY OriginTypes DEF TypeOK
    <3>2. m \in Motion /\ m1 \in Motion
      BY <3>1 DEF Motion
    <3>3. Dispatch(m1, 1) \/ (motion' = m /\ carried' = NoMotion)
      BY <2>1 DEF Propose
    <3> HIDE DEF m, m1
    <3>4. CASE Dispatch(m1, 1)
      BY <2>1, <3>2, <3>4, DispatchTypes DEF Propose, TypeOK
    <3>5. CASE motion' = m /\ carried' = NoMotion
      BY <2>1, <3>2, <3>5 DEF Propose, TypeOK
    <3>6. QED
      BY <3>3, <3>4, <3>5
  <2>2. ASSUME NEW who \in Accounts, NEW aye \in BOOLEAN, Vote(who, aye)
        PROVE TypeOK'
    <3>1. motion \in Motion
      BY <2>2, MotionIsMotion DEF Vote
    <3>2. motion' \in Motion
      BY <2>2, <3>1 DEF Vote, Motion
    <3>3. QED
      BY <2>2, <3>2 DEF Vote, TypeOK
  <2>3. ASSUME CloseDecided \/ CloseLate
        PROVE TypeOK'
    <3>1. motion \in Motion
      BY <2>3, MotionIsMotion DEF CloseDecided, CloseLate
    <3>2. /\ motion' = NoMotion
          /\ carried' \in [call : CallNames, ayes : SUBSET Accounts, nays : SUBSET Accounts,
                           members : SUBSET Accounts] \cup {NoMotion}
      BY <2>3, <3>1, DispatchTypes DEF CloseDecided, CloseLate
    <3>3. QED
      BY <2>3, <3>2 DEF CloseDecided, CloseLate, TypeOK
  <2>4. CASE Disapprove
    BY <2>4 DEF Disapprove, TypeOK
  <2>5. ASSUME NEW who \in Accounts, AddMember(who)
        PROVE TypeOK'
    <3>1. motion' \in Motion \cup {NoMotion}
      BY <2>5, DropVotesTypes DEF AddMember, ChangeMembers
    <3>2. QED
      BY <2>5, <3>1, MaxChangesAssumption DEF AddMember, ChangeMembers, CountChange, TypeOK
  <2>6. ASSUME NEW who \in Accounts, SetPrime(who)
        PROVE TypeOK'
    BY <2>6, MaxChangesAssumption DEF SetPrime, CountChange, TypeOK
  <2>7. ASSUME NEW new \in SUBSET Accounts, RejigMembers(new)
        PROVE TypeOK'
    <3>1. motion' \in Motion \cup {NoMotion}
      BY <2>7, DropVotesTypes DEF RejigMembers, ChangeMembers
    <3>2. chosen' \in Accounts \cup {NoOne} /\ prime' = chosen'
      BY <2>7 DEF RejigMembers, TypeOK
    <3>3. QED
      BY <2>7, <3>1, <3>2, MaxChangesAssumption
         DEF RejigMembers, ChangeMembers, CountChange, TypeOK
  <2>8. ASSUME NEW new \in SUBSET Accounts, NEW p \in Accounts \cup {NoOne},
               Elect(new, p)
        PROVE TypeOK'
    <3>1. motion' \in Motion \cup {NoMotion}
      BY <2>8, DropVotesTypes DEF Elect, ChangeMembers
    <3>2. QED
      BY <2>8, <3>1, MaxChangesAssumption DEF Elect, ChangeMembers, CountChange, TypeOK
  <2>9. ASSUME NEW new \in SUBSET Accounts, NEW p \in Accounts \cup {NoOne},
               SetMembers(new, p)
        PROVE TypeOK'
    <3>1. motion' \in Motion \cup {NoMotion}
      BY <2>9, DropVotesTypes DEF SetMembers
    <3>2. QED
      BY <2>9, <3>1, MaxChangesAssumption DEF SetMembers, CountChange, TypeOK
  <2>10. CASE ClearPrime
    BY <2>10, MaxChangesAssumption DEF ClearPrime, CountChange, TypeOK
  <2>11. ASSUME NEW who \in Accounts, NEW key \in Accounts, ChangeKey(who, key)
         PROVE TypeOK'
    <3>1. motion' \in Motion \cup {NoMotion}
      BY <2>11, DropVotesTypes DEF ChangeKey, ChangeMembers
    <3>2. chosen' \in Accounts \cup {NoOne} /\ prime' \in Accounts \cup {NoOne}
      BY <2>11 DEF ChangeKey, TypeOK
    <3>3. QED
      BY <2>11, <3>1, <3>2, MaxChangesAssumption
         DEF ChangeKey, ChangeMembers, CountChange, TypeOK
  <2>12. CASE UNCHANGED vars
    BY <2>12 DEF vars, TypeOK
  <2>13. QED
    BY <2>1, <2>2, <2>3, <2>4, <2>5, <2>6, <2>7, <2>8, <2>9, <2>10, <2>11, <2>12 DEF Next
<1>3. QED
  BY <1>1, <1>2, PTL DEF Spec

\* The council's members are the roster, as long as Root leaves them alone, and
\* therefore those who leave are those whose votes are dropped.
VotesInv ==
  /\ body = "council" /\ ~rootSets => members = roster
  /\ VotesAreOfMembers

\* Every vote that counts is a council member's: see VotesAreOfMembers.
THEOREM VotesAreOfMembersCorrect == Spec => []VotesAreOfMembers
<1>1. Init => VotesInv
  BY DEF Init, VotesInv, VotesAreOfMembers
<1>2. TypeOK /\ VotesInv /\ [Next]_vars => VotesInv'
  <2> SUFFICES ASSUME TypeOK, VotesInv, [Next]_vars PROVE VotesInv'
    OBVIOUS
  <2> USE DEF memberVars, VotesInv, VotesAreOfMembers
  <2>1. ASSUME NEW who \in Accounts, NEW call \in Calls(body), NEW t \in Thresholds,
               Propose(who, call, t)
        PROVE VotesInv'
    <3>1. \/ motion' = NoMotion
          \/ motion' = [call |-> call, threshold |-> t, ayes |-> {}, nays |-> {}]
      BY <2>1 DEF Propose, Dispatch
    <3>2. motion' # NoMotion => motion'.ayes = {} /\ motion'.nays = {}
      BY <3>1
    <3>3. UNCHANGED <<body, rootSets, members, roster>>
      BY <2>1 DEF Propose
    <3>4. QED
      BY <3>2, <3>3
  <2>2. ASSUME NEW who \in Accounts, NEW aye \in BOOLEAN, Vote(who, aye)
        PROVE VotesInv'
    <3>1. motion \in Motion /\ motion # NoMotion /\ who \in members
      BY <2>2, MotionIsMotion DEF Vote
    <3>2. UNCHANGED <<body, rootSets, members, roster>>
      BY <2>2 DEF Vote
    <3>3. CASE aye
      <4>1. motion' = [motion EXCEPT !.ayes = motion.ayes \cup {who}, !.nays = motion.nays \ {who}]
        BY <2>2, <3>3 DEF Vote
      <4>2. motion'.ayes = motion.ayes \cup {who} /\ motion'.nays = motion.nays \ {who}
        BY <3>1, <4>1 DEF Motion
      <4>3. QED
        BY <3>1, <3>2, <4>2
    <3>4. CASE ~aye
      <4>1. motion' = [motion EXCEPT !.ayes = motion.ayes \ {who}, !.nays = motion.nays \cup {who}]
        BY <2>2, <3>4 DEF Vote
      <4>2. motion'.ayes = motion.ayes \ {who} /\ motion'.nays = motion.nays \cup {who}
        BY <3>1, <4>1 DEF Motion
      <4>3. QED
        BY <3>1, <3>2, <4>2
    <3>5. QED
      BY <3>3, <3>4
  <2>3. CASE CloseDecided \/ CloseLate \/ Disapprove
    BY <2>3 DEF CloseDecided, CloseLate, Disapprove, Dispatch
  <2>4. ASSUME NEW who \in Accounts, AddMember(who) \/ SetPrime(who)
        PROVE VotesInv'
    BY <2>4 DEF AddMember, SetPrime, ChangeMembers, CountChange
  <2>5. ASSUME NEW new \in SUBSET Accounts, RejigMembers(new)
        PROVE VotesInv'
    BY <2>5 DEF RejigMembers, ChangeMembers, CountChange
  <2>6. ASSUME NEW new \in SUBSET Accounts, NEW p \in Accounts \cup {NoOne}, Elect(new, p)
        PROVE VotesInv'
    <3>1. /\ roster' = new /\ members' = new
          /\ DropVotes(roster \ new)
          /\ UNCHANGED <<body, rootSets>>
      BY <2>6 DEF Elect, ChangeMembers, CountChange
    <3>2. /\ motion' = NoMotion <=> motion = NoMotion
          /\ motion # NoMotion => /\ motion'.ayes = motion.ayes \ (roster \ new)
                                  /\ motion'.nays = motion.nays \ (roster \ new)
      BY <3>1, DropVotesTypes
    <3>3. QED
      BY <3>1, <3>2
  <2>7. ASSUME NEW new \in SUBSET Accounts, NEW p \in Accounts \cup {NoOne}, SetMembers(new, p)
        PROVE VotesInv'
    BY <2>7 DEF SetMembers, CountChange
  <2>8. ASSUME NEW who \in Accounts, NEW key \in Accounts, ChangeKey(who, key)
        PROVE VotesInv'
    BY <2>8 DEF ChangeKey, ChangeMembers, CountChange
  <2>9. CASE ClearPrime
    BY <2>9 DEF ClearPrime, CountChange
  <2>10. CASE UNCHANGED vars
    BY <2>10 DEF vars
  <2>11. QED
    BY <2>1, <2>2, <2>3, <2>4, <2>5, <2>6, <2>7, <2>8, <2>9, <2>10 DEF Next
<1>3. QED
  BY <1>1, <1>2, TypeCorrect, PTL DEF Spec, VotesInv

\* Where the committee's roster has anyone, it is the committee.
PrimeInv ==
  ~rootSets =>
    /\ PrimeIsMember
    /\ chosen # NoOne => body = "committee" /\ chosen \in roster
    /\ roster # {} => members = roster

\* Whoever's vote may stand for others is a member: see PrimeIsMember.
THEOREM PrimeIsMemberCorrect == Spec => []PrimeIsMember
<1>1. Init => PrimeInv
  BY DEF Init, PrimeInv, PrimeIsMember
<1>2. PrimeInv /\ [Next]_vars => PrimeInv'
  <2> SUFFICES ASSUME PrimeInv, [Next]_vars PROVE PrimeInv'
    OBVIOUS
  <2> USE DEF memberVars, PrimeInv, PrimeIsMember
  <2>1. ASSUME NEW who \in Accounts, NEW call \in Calls(body), NEW t \in Thresholds,
               Propose(who, call, t)
        PROVE PrimeInv'
    <3>1. UNCHANGED <<body, rootSets, memberVars>>
      BY <2>1 DEF Propose
    <3>2. QED
      BY <3>1
  <2>2. ASSUME NEW who \in Accounts, NEW aye \in BOOLEAN, Vote(who, aye)
        PROVE PrimeInv'
    <3>1. UNCHANGED <<body, rootSets, memberVars>>
      BY <2>2 DEF Vote
    <3>2. QED
      BY <3>1
  <2>3. CASE CloseDecided \/ CloseLate \/ Disapprove \/ UNCHANGED vars
    <3>1. UNCHANGED <<body, rootSets, memberVars>>
      BY <2>3 DEF CloseDecided, CloseLate, Disapprove, vars
    <3>2. QED
      BY <3>1
  <2>4. ASSUME NEW who \in Accounts, AddMember(who)
        PROVE PrimeInv'
    BY <2>4 DEF AddMember, ChangeMembers, CountChange
  <2>5. ASSUME NEW who \in Accounts, SetPrime(who)
        PROVE PrimeInv'
    BY <2>5 DEF SetPrime, CountChange
  <2>6. ASSUME NEW new \in SUBSET Accounts, RejigMembers(new)
        PROVE PrimeInv'
    BY <2>6 DEF RejigMembers, ChangeMembers, CountChange
  <2>7. ASSUME NEW new \in SUBSET Accounts, NEW p \in Accounts \cup {NoOne}, Elect(new, p)
        PROVE PrimeInv'
    BY <2>7 DEF Elect, ChangeMembers, CountChange
  <2>8. ASSUME NEW new \in SUBSET Accounts, NEW p \in Accounts \cup {NoOne}, SetMembers(new, p)
        PROVE PrimeInv'
    BY <2>8 DEF SetMembers, CountChange
  <2>9. CASE ClearPrime
    BY <2>9 DEF ClearPrime, CountChange
  <2>10. ASSUME NEW who \in Accounts, NEW key \in Accounts, ChangeKey(who, key)
         PROVE PrimeInv'
    BY <2>10 DEF ChangeKey, ChangeMembers, CountChange
  <2>11. QED
    BY <2>1, <2>2, <2>3, <2>4, <2>5, <2>6, <2>7, <2>8, <2>9, <2>10 DEF Next
<1>3. PrimeInv => PrimeIsMember
  BY DEF PrimeInv, PrimeIsMember
<1>4. QED
  BY <1>1, <1>2, <1>3, PTL DEF Spec

\* The open motion calls something of its own body.
CallInv == motion # NoMotion => motion.call \in Calls(body)

\* So it is from the proposal on.
LEMMA CallCorrect == Spec => []CallInv
<1>1. Init => CallInv
  BY DEF Init, CallInv
<1>2. TypeOK /\ CallInv /\ [Next]_vars => CallInv'
  <2> SUFFICES ASSUME TypeOK, CallInv, [Next]_vars PROVE CallInv'
    OBVIOUS
  <2> USE DEF CallInv
  <2>1. ASSUME NEW who \in Accounts, NEW call \in Calls(body), NEW t \in Thresholds,
               Propose(who, call, t)
        PROVE CallInv'
    <3>1. \/ motion' = NoMotion
          \/ motion' = [call |-> call, threshold |-> t, ayes |-> {}, nays |-> {}]
      BY <2>1 DEF Propose, Dispatch
    <3>2. motion' # NoMotion => motion'.call = call
      BY <3>1
    <3>3. Calls(body') = Calls(body)
      BY <2>1 DEF Propose
    <3>4. QED
      BY <3>2, <3>3
  <2>2. ASSUME NEW who \in Accounts, NEW aye \in BOOLEAN, Vote(who, aye)
        PROVE CallInv'
    <3>1. motion \in Motion /\ motion # NoMotion
      BY <2>2, MotionIsMotion DEF Vote
    <3>2. motion'.call = motion.call
      BY <2>2, <3>1 DEF Vote, Motion
    <3>3. body' = body
      BY <2>2 DEF Vote
    <3>4. QED
      BY <3>1, <3>2, <3>3
  <2>3. ASSUME NEW out, DropVotes(out), body' = body
        PROVE CallInv'
    <3>1. CASE motion = NoMotion
      BY <2>3, <3>1 DEF DropVotes
    <3>2. CASE motion # NoMotion
      <4>1. motion \in Motion
        BY <3>2, MotionIsMotion
      <4>2. motion'.call = motion.call
        BY <2>3, <3>2, <4>1 DEF DropVotes, Motion
      <4>3. QED
        BY <2>3, <3>2, <4>2
    <3>3. QED
      BY <3>1, <3>2
  <2>4. ASSUME NEW who \in Accounts, AddMember(who) PROVE CallInv'
    BY <2>3, <2>4 DEF AddMember, ChangeMembers, CountChange
  <2>5. ASSUME NEW who \in Accounts, SetPrime(who) PROVE CallInv'
    BY <2>5 DEF SetPrime, CountChange
  <2>6. CASE CloseDecided \/ CloseLate \/ Disapprove
    BY <2>6 DEF CloseDecided, CloseLate, Disapprove, Dispatch
  <2>7. ASSUME NEW new \in SUBSET Accounts, RejigMembers(new) PROVE CallInv'
    BY <2>3, <2>7 DEF RejigMembers, ChangeMembers, CountChange
  <2>8. ASSUME NEW new \in SUBSET Accounts, NEW p \in Accounts \cup {NoOne},
               Elect(new, p) \/ SetMembers(new, p)
        PROVE CallInv'
    BY <2>3, <2>8 DEF Elect, SetMembers, ChangeMembers, CountChange
  <2>9. CASE ClearPrime
    BY <2>9 DEF ClearPrime, CountChange
  <2>10. ASSUME NEW who \in Accounts, NEW key \in Accounts, ChangeKey(who, key)
         PROVE CallInv'
    BY <2>3, <2>10 DEF ChangeKey, ChangeMembers, CountChange
  <2>11. CASE UNCHANGED vars
    BY <2>11 DEF vars
  <2>12. QED
    BY <2>1, <2>2, <2>4, <2>5, <2>6, <2>7, <2>8, <2>9, <2>10, <2>11 DEF Next
<1>3. QED
  BY <1>1, <1>2, TypeCorrect, PTL DEF Spec

\* More votes pass wherever fewer do.
LEMMA PassesMore ==
  ASSUME NEW p \in Proportions, NEW a \in Nat, NEW b \in Nat, NEW s, a <= b, Passes(p, a, s),
         p.n * s \in Nat
  PROVE  Passes(p, b, s)
<1>1. p.d \in Nat
  BY DEF Proportions
<1>2. a * p.d <= b * p.d /\ a * p.d \in Nat /\ b * p.d \in Nat
  BY <1>1
<1>3. QED
  BY <1>2 DEF Passes

\* What does not count nays as yes is not carried over a blocking minority.
LEMMA DispatchRespectsNays ==
  ASSUME TypeOK, NEW m \in Motion, m.call \in Calls(body), body' = body,
         NEW yes \in Nat, yes <= Cardinality(members \ m.nays), Dispatch(m, yes)
  PROVE  MinorityCanBlock'
<1>1. SUFFICES ASSUME carried' # NoMotion
               PROVE  Passes(Origins(body)[carried'.call],
                             Cardinality(carried'.members \ carried'.nays),
                             Cardinality(carried'.members))
  BY DEF MinorityCanBlock
<1>2. /\ Passes(Origins(body)[m.call], yes, Seats)
      /\ carried' = [call |-> m.call, ayes |-> m.ayes, nays |-> m.nays, members |-> members]
  BY <1>1 DEF Dispatch
<1>3. carried'.call = m.call /\ carried'.nays = m.nays /\ carried'.members = members
  BY <1>2
<1>4. Origins(body)[m.call] \in Proportions
  BY OriginTypes DEF TypeOK
<1>5. Seats \in Nat /\ Cardinality(members \ m.nays) \in Nat
  BY Counts DEF TypeOK, Seats
<1>6. Origins(body)[m.call].n * Seats \in Nat
  <2>1. Origins(body)[m.call].n \in Nat
    BY <1>4 DEF Proportions
  <2>2. QED
    BY <2>1, <1>5
<1>7. Passes(Origins(body)[m.call], Cardinality(members \ m.nays), Seats)
  BY <1>2, <1>4, <1>5, <1>6, PassesMore
<1>8. QED
  BY <1>3, <1>7 DEF Seats

\* Members and votes of a council, counted: the ayes, with or without the
\* abstentions, are at most those who did not vote nay.
LEMMA VotesCount ==
  ASSUME TypeOK, motion \in Motion,
         motion.ayes \cup motion.nays \subseteq members, motion.ayes \cap motion.nays = {}
  PROVE  /\ Yes \in Nat /\ Yes <= Cardinality(members \ motion.nays)
         /\ YesWithDefault \in Nat /\ YesWithDefault <= Cardinality(members \ motion.nays)
<1>1. members \in SUBSET Accounts /\ motion.ayes \in SUBSET Accounts
      /\ motion.nays \in SUBSET Accounts /\ members \ motion.nays \in SUBSET Accounts
  BY DEF TypeOK, Motion
<1>2. Yes \in Nat /\ No \in Nat /\ Seats \in Nat /\ Seats <= MaxU32
  BY <1>1, Counts, WidthAssumption DEF Yes, No, Seats
<1>3. motion.ayes \in SUBSET (members \ motion.nays)
  BY <1>1
<1>4. Yes <= Cardinality(members \ motion.nays)
  BY <1>1, <1>3, Counts, FS_Subset DEF Yes
<1>5. members \cap motion.nays = motion.nays
  OBVIOUS
<1>6. Cardinality(members \ motion.nays) = Seats - No
  BY <1>1, <1>5, Counts, FS_Difference DEF Seats, No
<1>7. Cardinality(members \ motion.nays) \in Nat
  BY <1>1, Counts
<1>8. DefaultVote => YesWithDefault = Seats - No
  <2>1. Yes + (Seats - (Yes + No)) = Seats - No
    BY <1>2
  <2>2. Seats - No \in Nat /\ Seats - No <= MaxU32
    BY <1>2, <1>6, <1>7, WidthAssumption
  <2>3. (Seats - No) % (MaxU32 + 1) = Seats - No
    BY <2>2, WidthAssumption
  <2>4. QED
    BY <2>1, <2>3 DEF YesWithDefault
<1>9. ~DefaultVote => YesWithDefault = Yes
  BY DEF YesWithDefault
<1>10. QED
  BY <1>2, <1>4, <1>6, <1>7, <1>8, <1>9

\* No step turns one body into the other, or changes Root's habit.
LEMMA BodyFixed ==
  ASSUME [Next]_vars
  PROVE  body' = body /\ rootSets' = rootSets
<1>1. ASSUME NEW who, NEW call, NEW t, Propose(who, call, t)
      PROVE body' = body /\ rootSets' = rootSets
  BY <1>1 DEF Propose
<1>2. ASSUME NEW who, NEW aye, Vote(who, aye)
      PROVE body' = body /\ rootSets' = rootSets
  BY <1>2 DEF Vote
<1>3. CASE CloseDecided \/ CloseLate \/ Disapprove
  BY <1>3 DEF CloseDecided, CloseLate, Disapprove
<1>4. CASE CountChange
  BY <1>4 DEF CountChange
<1>5. CASE UNCHANGED vars
  BY <1>5 DEF vars
<1>6. QED
  BY <1>1, <1>2, <1>3, <1>4, <1>5
     DEF Next, AddMember, SetPrime, RejigMembers, ClearPrime, ChangeKey, Elect, SetMembers,
         ChangeMembers

\* A minority large enough to deny the proportion stops a motion of the council:
\* see MinorityCanBlock.
THEOREM MinorityCanBlockCorrect == Spec => []MinorityCanBlock
<1>1. Init => MinorityCanBlock
  BY DEF Init, MinorityCanBlock
<1>2. TypeOK /\ VotesAreOfMembers /\ CallInv /\ MinorityCanBlock /\ [Next]_vars => MinorityCanBlock'
  <2> SUFFICES ASSUME TypeOK, VotesAreOfMembers, CallInv, MinorityCanBlock, [Next]_vars,
                      body = "council", ~rootSets
               PROVE  MinorityCanBlock'
    BY BodyFixed DEF MinorityCanBlock
  <2>1. ASSUME carried' = NoMotion PROVE MinorityCanBlock'
    BY <2>1 DEF MinorityCanBlock
  <2>2. ASSUME NEW who \in Accounts, NEW call \in Calls(body), NEW t \in Thresholds,
               Propose(who, call, t)
        PROVE MinorityCanBlock'
    <3> DEFINE m1 == [[call |-> call, threshold |-> t, ayes |-> {}, nays |-> {}]
                        EXCEPT !.ayes = {who}]
    <3>1. Dispatch(m1, 1) \/ carried' = NoMotion
      BY <2>2 DEF Propose
    <3>2. m1 \in Motion /\ m1.call = call /\ m1.nays = {}
      BY OriginTypes DEF Motion, TypeOK
    <3> HIDE DEF m1
    <3>3. 1 <= Cardinality(members \ {})
      <4>1. who \in members /\ members \in SUBSET Accounts
        BY <2>2 DEF Propose, TypeOK
      <4>2. IsFiniteSet(members) /\ {who} \in SUBSET members /\ members \ {} = members
        BY <4>1, Counts
      <4>3. Cardinality({who}) <= Cardinality(members)
        BY <4>2, FS_Subset
      <4>4. QED
        BY <4>2, <4>3, FS_Singleton
    <3>4. body' = body
      BY <2>2 DEF Propose
    <3>5. QED
      BY <2>1, <3>1, <3>2, <3>3, <3>4, DispatchRespectsNays
  <2>3. CASE CloseDecided \/ CloseLate
    <3>1. motion # NoMotion /\ body' = body
      BY <2>3 DEF CloseDecided, CloseLate
    <3>2. motion \in Motion /\ motion.call \in Calls(body)
      BY <3>1, MotionIsMotion DEF CallInv
    <3>3. motion.ayes \cup motion.nays \subseteq members /\ motion.ayes \cap motion.nays = {}
      BY <3>1 DEF VotesAreOfMembers
    <3>4. \/ carried' = NoMotion
          \/ Dispatch(motion, Yes)
          \/ Dispatch(motion, YesWithDefault)
      BY <2>3 DEF CloseDecided, CloseLate
    <3>5. QED
      BY <2>1, <3>1, <3>2, <3>3, <3>4, VotesCount, DispatchRespectsNays
  <2>4. ASSUME NEW who \in Accounts, NEW aye \in BOOLEAN, Vote(who, aye) PROVE MinorityCanBlock'
    BY <2>1, <2>4 DEF Vote
  <2>5. ASSUME NEW who \in Accounts, AddMember(who) \/ SetPrime(who) PROVE MinorityCanBlock'
    BY <2>1, <2>5 DEF AddMember, SetPrime, ChangeMembers, CountChange
  <2>6. ASSUME NEW new \in SUBSET Accounts, RejigMembers(new) PROVE MinorityCanBlock'
    BY <2>1, <2>6 DEF RejigMembers, ChangeMembers, CountChange
  <2>7. ASSUME NEW new \in SUBSET Accounts, NEW p \in Accounts \cup {NoOne},
               Elect(new, p) \/ SetMembers(new, p)
        PROVE MinorityCanBlock'
    BY <2>1, <2>7 DEF Elect, SetMembers, ChangeMembers, CountChange
  <2>8. CASE Disapprove
    BY <2>1, <2>8 DEF Disapprove
  <2>9. CASE ClearPrime
    BY <2>1, <2>9 DEF ClearPrime, CountChange
  <2>10. ASSUME NEW who \in Accounts, NEW key \in Accounts, ChangeKey(who, key)
         PROVE MinorityCanBlock'
    BY <2>1, <2>10 DEF ChangeKey, ChangeMembers, CountChange
  <2>11. CASE UNCHANGED vars
    BY <2>11 DEF vars, MinorityCanBlock
  <2>12. QED
    BY <2>2, <2>3, <2>4, <2>5, <2>6, <2>7, <2>8, <2>9, <2>10, <2>11 DEF Next
<1>3. QED
  BY <1>1, <1>2, TypeCorrect, VotesAreOfMembersCorrect, CallCorrect, PTL DEF Spec
=============================================================================
