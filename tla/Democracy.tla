----------------------------- MODULE Democracy -----------------------------
(***************************************************************************)
(* From a motion to a vote: the queue of pallet_democracy as                *)
(* runtime/src/configs/mod.rs configures it.  The council brings proposals  *)
(* in one of three ways, a member of the technical committee may veto what  *)
(* is waiting, the committee may table it at once, the council may cancel   *)
(* the referendum, Root may do all of it, and anyone may propose next to    *)
(* them.  How a body comes to a decision is Collective's; here its origins  *)
(* are who may call.  Votes, deposits and the enactment of what passed are  *)
(* left out: a referendum that ends was voted on.                           *)
(*                                                                          *)
(* The pallet is not this repository's code; it is modelled from the        *)
(* configuration given to it.  Times are counted relative to the present    *)
(* block, in units in which the periods are small numbers.                  *)
(***************************************************************************)
EXTENDS Integers

CONSTANTS
  Proposals,     \* what is proposed, by hash
  Cause,         \* the proposal that the council keeps bringing
  Committee,     \* members of the technical committee
  LaunchPeriod, VotingPeriod, CooloffPeriod,
  MaxFastTrack   \* bound: the longest voting period a call of fast_track asks for

ASSUME ProposalsAssumption == Cause \in Proposals
ASSUME DemocracyPeriodsAssumption ==
  /\ LaunchPeriod \in Nat \ {0} /\ CooloffPeriod \in Nat
  /\ VotingPeriod \in Nat \ {0} /\ MaxFastTrack \in Nat \ {0}

VARIABLES
  nextExternal,  \* NextExternal, or NoProposal
  publicProps,   \* PublicProps
  lastTabledWasExternal,
  referenda,     \* ongoing referenda: the proposal and the blocks left
  cooloff,       \* Blacklist: blocks left, 0 when it is over, or Forever
  vetoers,       \* Blacklist: who vetoed
  cancellations, \* Cancellations
  sinceLaunch,   \* blocks since the last launch
  voted          \* history: a referendum on the cause has run its time

vars == <<nextExternal, publicProps, lastTabledWasExternal, referenda, cooloff, vetoers,
          cancellations, sinceLaunch, voted>>

NoProposal == [hash |-> "none"]
Forever == CooloffPeriod + 1
Thresholds == {"SuperMajorityApprove", "SimpleMajority", "SuperMajorityAgainst"}

Init ==
  /\ nextExternal = NoProposal
  /\ publicProps = {}
  /\ lastTabledWasExternal = FALSE
  /\ referenda = {}
  /\ cooloff = [p \in Proposals |-> 0]
  /\ vetoers = [p \in Proposals |-> {}]
  /\ cancellations = {}
  /\ sinceLaunch = 0
  /\ voted = FALSE

-----------------------------------------------------------------------------
(* The council's proposals *)

\* Faulty variant of ExternalPropose: a veto is not looked up.
ExternalProposeVetoed(p) ==
  /\ nextExternal = NoProposal
  /\ nextExternal' = [hash |-> p, threshold |-> "SuperMajorityApprove"]
  /\ UNCHANGED <<publicProps, lastTabledWasExternal, referenda, cooloff, vetoers,
                 cancellations, sinceLaunch, voted>>

\* external_propose (ExternalOrigin): not twice, and not while a veto cools off.
ExternalPropose(p) ==
  /\ nextExternal = NoProposal
  /\ cooloff[p] = 0
  /\ nextExternal' = [hash |-> p, threshold |-> "SuperMajorityApprove"]
  /\ UNCHANGED <<publicProps, lastTabledWasExternal, referenda, cooloff, vetoers,
                 cancellations, sinceLaunch, voted>>

\* external_propose_majority and external_propose_default (ExternalMajorityOrigin,
\* ExternalDefaultOrigin): whatever waits or cools off.
ExternalProposeMajority(p, threshold) ==
  /\ threshold # "SuperMajorityApprove"
  /\ nextExternal' = [hash |-> p, threshold |-> threshold]
  /\ UNCHANGED <<publicProps, lastTabledWasExternal, referenda, cooloff, vetoers,
                 cancellations, sinceLaunch, voted>>

-----------------------------------------------------------------------------
(* The technical committee *)

\* fast_track: for any voting period but 0 (FastTrackOrigin from FastTrackVotingPeriod
\* on, InstantOrigin for less).
FastTrack(left) ==
  /\ nextExternal # NoProposal
  /\ nextExternal.threshold # "SuperMajorityApprove"
  /\ referenda' = referenda \cup {[hash |-> nextExternal.hash, left |-> left]}
  /\ nextExternal' = NoProposal
  /\ UNCHANGED <<publicProps, lastTabledWasExternal, cooloff, vetoers, cancellations,
                 sinceLaunch, voted>>

\* Faulty variant of VetoExternal: the vetoers are not kept.
VetoExternalUncounted(who) ==
  /\ nextExternal # NoProposal
  /\ LET p == nextExternal.hash IN
       /\ who \notin vetoers[p]
       /\ cooloff' = [cooloff EXCEPT ![p] = CooloffPeriod]
  /\ nextExternal' = NoProposal
  /\ UNCHANGED <<publicProps, lastTabledWasExternal, referenda, vetoers, cancellations,
                 sinceLaunch, voted>>

\* veto_external (VetoOrigin): once by each member, for CooloffPeriod.
VetoExternal(who) ==
  /\ nextExternal # NoProposal
  /\ LET p == nextExternal.hash IN
       /\ who \notin vetoers[p]
       /\ vetoers' = [vetoers EXCEPT ![p] = @ \cup {who}]
       /\ cooloff' = [cooloff EXCEPT ![p] = CooloffPeriod]
  /\ nextExternal' = NoProposal
  /\ UNCHANGED <<publicProps, lastTabledWasExternal, referenda, cancellations,
                 sinceLaunch, voted>>

-----------------------------------------------------------------------------
(* Cancellation *)

\* emergency_cancel (CancellationOrigin): once for a proposal.
EmergencyCancel(r) ==
  /\ r \in referenda
  /\ r.hash \notin cancellations
  /\ cancellations' = cancellations \cup {r.hash}
  /\ referenda' = referenda \ {r}
  /\ UNCHANGED <<nextExternal, publicProps, lastTabledWasExternal, cooloff, vetoers,
                 sinceLaunch, voted>>

\* cancel_referendum, by Root.
CancelReferendum(r) ==
  /\ r \in referenda
  /\ referenda' = referenda \ {r}
  /\ UNCHANGED <<nextExternal, publicProps, lastTabledWasExternal, cooloff, vetoers,
                 cancellations, sinceLaunch, voted>>

\* blacklist (BlacklistOrigin): for good, out of both queues, and with the referendum
\* that the call names, if it names one.
Blacklist(p) ==
  /\ cooloff' = [cooloff EXCEPT ![p] = Forever]
  /\ vetoers' = [vetoers EXCEPT ![p] = {}]
  /\ publicProps' = publicProps \ {p}
  /\ nextExternal' = IF nextExternal.hash = p THEN NoProposal ELSE nextExternal
  /\ \/ UNCHANGED referenda
     \/ \E r \in referenda : r.hash = p /\ referenda' = referenda \ {r}
  /\ UNCHANGED <<lastTabledWasExternal, cancellations, sinceLaunch, voted>>

-----------------------------------------------------------------------------
(* The public, and time *)

\* propose (SubmitOrigin)
PublicPropose(p) ==
  /\ cooloff[p] = 0
  /\ publicProps' = publicProps \cup {p}
  /\ UNCHANGED <<nextExternal, lastTabledWasExternal, referenda, cooloff, vetoers,
                 cancellations, sinceLaunch, voted>>

\* cancel_proposal (CancelProposalOrigin)
CancelProposal(p) ==
  /\ publicProps' = publicProps \ {p}
  /\ UNCHANGED <<nextExternal, lastTabledWasExternal, referenda, cooloff, vetoers,
                 cancellations, sinceLaunch, voted>>

\* Referenda one block on, and what ends was voted on.
Mature(refs) ==
  /\ referenda' = {[r EXCEPT !.left = @ - 1] : r \in {x \in refs : x.left > 1}}
  /\ voted' = (voted \/ \E r \in refs : r.hash = Cause /\ r.left = 1)

\* inject_referendum, before the block of the launch matures what is due.
New(p) == [hash |-> p, left |-> VotingPeriod + 1]

LaunchExternal ==
  /\ nextExternal # NoProposal
  /\ nextExternal' = NoProposal
  /\ lastTabledWasExternal' = TRUE
  /\ Mature(referenda \cup {New(nextExternal.hash)})
  /\ UNCHANGED publicProps

LaunchPublic ==
  \E p \in publicProps :
    /\ publicProps' = publicProps \ {p}
    /\ lastTabledWasExternal' = FALSE
    /\ Mature(referenda \cup {New(p)})
    /\ UNCHANGED nextExternal

\* launch_next: in turn, the other queue when one is empty.
LaunchNext ==
  \/ (~lastTabledWasExternal \/ publicProps = {}) /\ LaunchExternal
  \/ (lastTabledWasExternal \/ nextExternal = NoProposal) /\ LaunchPublic
  \/ /\ publicProps = {} /\ nextExternal = NoProposal
     /\ lastTabledWasExternal' = FALSE
     /\ Mature(referenda)
     /\ UNCHANGED <<nextExternal, publicProps>>

\* begin_block
BeginBlock ==
  /\ sinceLaunch' = (sinceLaunch + 1) % LaunchPeriod
  /\ cooloff' = [p \in Proposals |->
                   IF cooloff[p] \in {0, Forever} THEN cooloff[p] ELSE cooloff[p] - 1]
  /\ \/ sinceLaunch' = 0 /\ LaunchNext
     \/ /\ sinceLaunch' # 0
        /\ Mature(referenda)
        /\ UNCHANGED <<nextExternal, publicProps, lastTabledWasExternal>>
  /\ UNCHANGED <<vetoers, cancellations>>

-----------------------------------------------------------------------------
Next ==
  \/ \E p \in Proposals :
       \/ ExternalPropose(p) \/ PublicPropose(p) \/ CancelProposal(p) \/ Blacklist(p)
       \/ \E t \in Thresholds : ExternalProposeMajority(p, t)
  \/ \E left \in 1..MaxFastTrack : FastTrack(left)
  \/ \E who \in Committee : VetoExternal(who)
  \/ \E r \in referenda : EmergencyCancel(r) \/ CancelReferendum(r)
  \/ BeginBlock

\* Blocks keep coming, and a council that has a cause brings it whenever it can.
Spec ==
  /\ Init
  /\ [][Next]_vars
  /\ WF_vars(BeginBlock)
  /\ SF_vars(ExternalPropose(Cause))

-----------------------------------------------------------------------------
(* Properties *)

MaxLeft == IF VotingPeriod >= MaxFastTrack THEN VotingPeriod ELSE MaxFastTrack
Referendum == [hash : Proposals, left : 1..MaxLeft]

\* Every variable has its type.
TypeOK ==
  /\ nextExternal \in [hash : Proposals, threshold : Thresholds] \cup {NoProposal}
  /\ publicProps \subseteq Proposals
  /\ lastTabledWasExternal \in BOOLEAN
  /\ referenda \subseteq Referendum
  /\ cooloff \in [Proposals -> 0..Forever]
  /\ vetoers \in [Proposals -> SUBSET Committee]
  /\ cancellations \subseteq Proposals
  /\ sinceLaunch \in 0 .. (LaunchPeriod - 1)
  /\ voted \in BOOLEAN

\* A referendum on p starts: one that is not there before, a block older if the step is
\* a block.
Starts(p) ==
  \E r \in referenda' :
    /\ r.hash = p
    /\ (IF BeginBlock THEN [r EXCEPT !.left = @ + 1] ELSE r) \notin referenda

\* What a veto stops, and what not: while it cools off, a referendum on its proposal
\* starts only out of the council's place if a super-majority of the council brought it
\* back, or out of the public queue if it stood there before the veto, which leaves that
\* queue as it is; and the public queue takes it in no more.  A blacklisted proposal
\* does not stand in the public queue either (configs/mod.rs:786-796, 815-818).
VetoHolds ==
  [][\A p \in Proposals : cooloff[p] > 0 =>
       /\ p \in publicProps' => p \in publicProps
       /\ Starts(p) =>
            \/ /\ nextExternal.hash = p /\ nextExternal' = NoProposal
               /\ nextExternal.threshold # "SuperMajorityApprove"
            \/ /\ p \in publicProps \ publicProps'
               /\ cooloff[p] # Forever]_vars

\* Steps of those who can hold a proposal up as often as they like: Root, and a
\* super-majority of the council that puts another proposal in its place.
Overrule ==
  \/ \E r \in referenda : CancelReferendum(r)
  \/ \E p \in Proposals : Blacklist(p)
  \/ \E p \in Proposals \ {Cause}, t \in Thresholds : ExternalProposeMajority(p, t)

\* configs/mod.rs:815-816 "they can only do it once and it lasts only for the cool-off
\* period": a proposal that a majority of the council keeps bringing comes to its vote,
\* against any vetoes of the committee, the council's own cancellation and the
\* proposals of others, unless it is blacklisted or overruled for ever.
CauseGetsItsVote ==
  <>[](cooloff[Cause] # Forever) /\ <>[][~Overrule]_vars => <>voted
=============================================================================
