----------------------------- MODULE Collective -----------------------------
(***************************************************************************)
(* A governing body of the runtime, as runtime/src/configs/mod.rs and       *)
(* node/src/chain_spec.rs set it up: the council, whose seats               *)
(* pallet_elections_phragmen hands out, or the technical committee, whose   *)
(* seats pallet_membership hands out.                                       *)
(*                                                                          *)
(* The manager keeps a roster of its own and tells the body what changes:   *)
(* who leaves, and the new list of members.  The body drops the votes of    *)
(* those who leave from the open motion.  At genesis the council gets its   *)
(* members from the elections, the committee's are written next to an empty *)
(* roster.                                                                  *)
(*                                                                          *)
(* The pallets are not this repository's code; they are modelled from the   *)
(* configuration given to them.  What a carried motion does is left out; the*)
(* origin it is dispatched with, and the proportion the configuration asks  *)
(* of it, are not.                                                          *)
(***************************************************************************)
EXTENDS Integers, FiniteSets

CONSTANTS
  Accounts,   \* who may sit in the body
  Genesis,    \* the first half of the endowed accounts
  MaxU32,     \* the largest u32
  MaxChanges  \* bound: changes of the members

ASSUME AccountsAssumption == IsFiniteSet(Accounts) /\ Genesis \in SUBSET Accounts
ASSUME WidthAssumption == MaxU32 \in Nat /\ Cardinality(Accounts) < MaxU32
ASSUME MaxChangesAssumption == MaxChanges \in Nat

NoOne == "no one"

VARIABLES
  body,      \* "council" or "committee", fixed
  rootSets,  \* whether Root ever calls set_members, fixed
  members,   \* the body's members
  prime,     \* its prime member, or NoOne
  roster,    \* the manager's list
  chosen,    \* pallet_membership's own record of the prime, or NoOne
  motion,    \* the open motion (bound: one), or NoMotion
  changes,   \* changes so far
  carried    \* the motion this step dispatched with success, or NoMotion

memberVars == <<members, prime, roster, chosen>>
vars == <<body, rootSets, memberVars, motion, changes, carried>>

NoMotion == [call |-> "none"]

\* EnsureProportionAtLeast and EnsureProportionMoreThan.
AtLeast(n, d) == [n |-> n, d |-> d, strict |-> FALSE]
MoreThan(n, d) == [n |-> n, d |-> d, strict |-> TRUE]

\* What each origin asks of the votes.  Origins that ask for a proportion listed here
\* (treasury, staking, elections and pools have more of them) are not repeated.
CouncilOrigins ==
  [ ExternalOrigin |-> AtLeast(1, 2),
    ExternalMajorityOrigin |-> AtLeast(3, 4),
    ExternalDefaultOrigin |-> AtLeast(1, 1),
    CancellationOrigin |-> AtLeast(2, 3),
    EnsureRootOrHalfCouncil |-> MoreThan(1, 2) ]

CommitteeOrigins ==
  [ FastTrackOrigin |-> AtLeast(2, 3),
    InstantOrigin |-> AtLeast(1, 1) ]

Origins(b) == IF b = "council" THEN CouncilOrigins ELSE CommitteeOrigins
Calls(b) == DOMAIN Origins(b)

\* The origin Members(yes, seats) passes.
Passes(p, yes, seats) ==
  IF p.strict THEN yes * p.d > p.n * seats ELSE yes * p.d >= p.n * seats

Seats == Cardinality(members)
Thresholds == 1 .. (Cardinality(Accounts) + 1)

\* Faulty variant of Init: the council's members are written directly too.
InitSetDirectly ==
  /\ body \in {"council", "committee"}
  /\ rootSets \in BOOLEAN
  /\ members = Genesis
  /\ prime = NoOne
  /\ roster = {}
  /\ chosen = NoOne
  /\ motion = NoMotion
  /\ changes = 0
  /\ carried = NoMotion

\* testnet_genesis: "elections" gives the council its members, the committee's
\* are given to "technicalCommittee", and "technicalMembership" is left empty.
Init ==
  /\ body \in {"council", "committee"}
  /\ rootSets \in BOOLEAN
  /\ members = Genesis
  /\ prime = NoOne
  /\ roster = IF body = "council" THEN Genesis ELSE {}
  /\ chosen = NoOne
  /\ motion = NoMotion
  /\ changes = 0
  /\ carried = NoMotion

-----------------------------------------------------------------------------
(* Motions *)

\* The motion is dispatched with origin Members(yes, Seats) and is gone; carried
\* says whether the call's origin let it pass.
Dispatch(m, yes) ==
  /\ motion' = NoMotion
  /\ carried' = IF Passes(Origins(body)[m.call], yes, Seats)
                  THEN [call |-> m.call, ayes |-> m.ayes, nays |-> m.nays,
                        members |-> members]
                  ELSE NoMotion

\* Faulty variant of Propose: the stored threshold is one too high.
ProposeOffByOne(who, call, threshold) ==
  /\ motion = NoMotion
  /\ who \in members
  /\ call \in Calls(body)
  /\ motion' = [call |-> call, threshold |-> threshold + 1, ayes |-> {}, nays |-> {}]
  /\ carried' = NoMotion
  /\ UNCHANGED <<body, rootSets, memberVars, changes>>

\* propose: a threshold below two dispatches at once, with the proposer's word.
Propose(who, call, threshold) ==
  /\ motion = NoMotion
  /\ who \in members
  /\ call \in Calls(body)
  /\ LET m == [call |-> call, threshold |-> threshold, ayes |-> {}, nays |-> {}] IN
       \/ threshold < 2 /\ Dispatch([m EXCEPT !.ayes = {who}], 1)
       \/ threshold >= 2 /\ motion' = m /\ carried' = NoMotion
  /\ UNCHANGED <<body, rootSets, memberVars, changes>>

\* vote: a member may change sides, not vote the same way twice.
Vote(who, aye) ==
  /\ motion # NoMotion
  /\ who \in members
  /\ who \notin (IF aye THEN motion.ayes ELSE motion.nays)
  /\ motion' = [motion EXCEPT !.ayes = IF aye THEN @ \cup {who} ELSE @ \ {who},
                              !.nays = IF aye THEN @ \ {who} ELSE @ \cup {who}]
  /\ carried' = NoMotion
  /\ UNCHANGED <<body, rootSets, memberVars, changes>>

Yes == Cardinality(motion.ayes)
No == Cardinality(motion.nays)
Approved == Yes >= motion.threshold
Disapproved == (IF Seats > No THEN Seats - No ELSE 0) < motion.threshold

\* close, as soon as the votes decide.
CloseDecided ==
  /\ motion # NoMotion
  /\ \/ Approved /\ Dispatch(motion, Yes)
     \/ ~Approved /\ Disapproved /\ motion' = NoMotion /\ carried' = NoMotion
  /\ UNCHANGED <<body, rootSets, memberVars, changes>>

\* PrimeDefaultVote: those who did not vote count as the prime did.
DefaultVote == prime # NoOne /\ prime \in motion.ayes

\* Faulty variant of YesWithDefault: the prime's vote stands for the nays too.
YesForEverySeat == IF DefaultVote THEN Seats ELSE Yes

YesWithDefault ==
  IF DefaultVote THEN (Yes + (Seats - (Yes + No))) % (MaxU32 + 1) ELSE Yes

\* close, after MotionDuration.
CloseLate ==
  /\ motion # NoMotion
  /\ ~Approved /\ ~Disapproved
  /\ \/ YesWithDefault >= motion.threshold /\ Dispatch(motion, YesWithDefault)
     \/ YesWithDefault < motion.threshold /\ motion' = NoMotion /\ carried' = NoMotion
  /\ UNCHANGED <<body, rootSets, memberVars, changes>>

\* disapprove_proposal, by Root.
Disapprove ==
  /\ motion # NoMotion
  /\ motion' = NoMotion
  /\ carried' = NoMotion
  /\ UNCHANGED <<body, rootSets, memberVars, changes>>

-----------------------------------------------------------------------------
(* Members *)

\* The votes of those who leave go from the open motion.
DropVotes(outgoing) ==
  motion' = IF motion = NoMotion THEN NoMotion
            ELSE [motion EXCEPT !.ayes = @ \ outgoing, !.nays = @ \ outgoing]

CountChange ==
  /\ changes < MaxChanges
  /\ changes' = changes + 1
  /\ carried' = NoMotion
  /\ UNCHANGED <<body, rootSets>>

\* ChangeMembers = Council, MembershipChanged = TechnicalCommittee: the manager
\* reports who left its roster, and its roster becomes the list of members.
ChangeMembers(new) ==
  /\ roster' = new
  /\ members' = new
  /\ DropVotes(roster \ new)
  /\ CountChange

\* A new term, or a member removed or replaced: the elections set the prime too.
Elect(new, p) ==
  /\ body = "council"
  /\ p \in new \cup {NoOne}
  /\ ChangeMembers(new)
  /\ prime' = p
  /\ UNCHANGED chosen

\* add_member: the body forgets its prime.
AddMember(who) ==
  /\ body = "committee"
  /\ who \notin roster
  /\ ChangeMembers(roster \cup {who})
  /\ prime' = NoOne
  /\ UNCHANGED chosen

\* Faulty variant of RejigMembers: the prime is told anew, stay or leave.
RejigKeepingPrime(new) ==
  /\ body = "committee"
  /\ new # roster
  /\ ChangeMembers(new)
  /\ prime' = chosen
  /\ UNCHANGED chosen

\* remove_member, swap_member, reset_members: the prime is told anew if it stays.
RejigMembers(new) ==
  /\ body = "committee"
  /\ new # roster
  /\ ChangeMembers(new)
  /\ chosen' = IF chosen \in new THEN chosen ELSE NoOne
  /\ prime' = chosen'

\* set_prime of pallet_membership, for one of its members.
SetPrime(who) ==
  /\ body = "committee"
  /\ who \in roster
  /\ CountChange
  /\ chosen' = who
  /\ prime' = who
  /\ UNCHANGED <<members, roster, motion>>

\* clear_prime.
ClearPrime ==
  /\ body = "committee"
  /\ CountChange
  /\ chosen' = NoOne
  /\ prime' = NoOne
  /\ UNCHANGED <<members, roster, motion>>

\* change_key: a member hands its seat to another account of its own, the prime
\* its office too; the body forgets any other prime.
ChangeKey(who, key) ==
  /\ body = "committee"
  /\ who \in roster
  /\ key \notin roster
  /\ ChangeMembers((roster \ {who}) \cup {key})
  /\ chosen' = IF chosen = who THEN key ELSE chosen
  /\ prime' = IF chosen = who THEN key ELSE NoOne

\* set_members, by Root (SetMembersOrigin), behind the manager's back.
SetMembers(new, p) ==
  /\ rootSets
  /\ p \in new \cup {NoOne}
  /\ CountChange
  /\ members' = new
  /\ prime' = p
  /\ DropVotes(members \ new)
  /\ UNCHANGED <<roster, chosen>>

-----------------------------------------------------------------------------
Next ==
  \/ \E who \in Accounts :
       \/ \E call \in Calls(body), t \in Thresholds : Propose(who, call, t)
       \/ \E aye \in BOOLEAN : Vote(who, aye)
       \/ AddMember(who)
       \/ SetPrime(who)
       \/ \E key \in Accounts : ChangeKey(who, key)
  \/ CloseDecided \/ CloseLate \/ Disapprove \/ ClearPrime
  \/ \E new \in SUBSET Accounts :
       \/ RejigMembers(new)
       \/ \E p \in Accounts \cup {NoOne} : Elect(new, p) \/ SetMembers(new, p)

Spec == Init /\ [][Next]_vars

-----------------------------------------------------------------------------
(* Properties *)

CallNames == Calls("council") \cup Calls("committee")
Motion == [call : CallNames, threshold : Thresholds,
           ayes : SUBSET Accounts, nays : SUBSET Accounts]

\* Every variable has its type.
TypeOK ==
  /\ body \in {"council", "committee"}
  /\ rootSets \in BOOLEAN
  /\ members \in SUBSET Accounts
  /\ roster \in SUBSET Accounts
  /\ prime \in Accounts \cup {NoOne}
  /\ chosen \in Accounts \cup {NoOne}
  /\ motion \in Motion \cup {NoMotion}
  /\ changes \in 0..MaxChanges
  /\ carried \in [call : CallNames, ayes : SUBSET Accounts, nays : SUBSET Accounts,
                  members : SUBSET Accounts] \cup {NoMotion}

\* Every vote that counts is the vote of someone who still sits in the council,
\* and a vote one way only, whenever an election falls into an open motion.  It
\* takes a council whose members all come from the elections, at genesis too
\* (configs/mod.rs:897-899 says they must), and a Root that leaves them alone.
VotesAreOfMembers ==
  body = "council" /\ ~rootSets /\ motion # NoMotion =>
    /\ motion.ayes \cup motion.nays \subseteq members
    /\ motion.ayes \cap motion.nays = {}

\* Nor is a motion of the council carried over the nays of so many that the
\* others do not make up the proportion its origin asks for: what the prime's
\* vote stands for are abstentions only (configs/mod.rs:786-807, 846, 916-919).
MinorityCanBlock ==
  body = "council" /\ ~rootSets /\ carried # NoMotion =>
    Passes(Origins(body)[carried.call],
           Cardinality(carried.members \ carried.nays), Cardinality(carried.members))

\* The prime, whose vote may stand for others, is a member, also of a committee
\* whose roster and members were different at genesis, if Root leaves it alone.
PrimeIsMember == ~rootSets /\ prime # NoOne => prime \in members

\* configs/mod.rs:797 "Two thirds of the technical committee can have an
\* ExternalMajority/ExternalDefault vote be tabled immediately": those who voted
\* for it sit in the committee, if Root leaves it alone.
FastTrackedByTheCommittee ==
  carried.call = "FastTrackOrigin" /\ ~rootSets => carried.ayes \subseteq carried.members
=============================================================================
