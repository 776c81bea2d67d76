----------------------------- MODULE Validators -----------------------------
(***************************************************************************)
(* Who authors, who is credited and who is elected: what the pallets do in  *)
(* the hooks of one block, in the order runtime/src/lib.rs gives them, as   *)
(* runtime/src/configs/mod.rs connects them.                                *)
(*                                                                          *)
(*   Babe         takes the slot from the digest                            *)
(*   Authorship   notes the author, by index into the session's validators  *)
(*   Election     opens and closes the phases for submissions               *)
(*   Session      at the end of an epoch: the queued validators take office,*)
(*                Staking starts the planned era, plans the next one and    *)
(*                has it elected, and Babe gets both lists                  *)
(*   Ethereum     (on_finalize, and transactions) finds the author by index *)
(*                into Babe's authorities                                   *)
(*   Babe         (on_finalize) refuses authors who are disabled            *)
(*                                                                          *)
(* The pallets are not this repository's code; they are modelled from the   *)
(* configuration that ties them together.  Stakes, rewards, slashes and     *)
(* heartbeats are left out; a validator's session keys are set.  Sessions   *)
(* and eras are counted relative to the present one, so no bound is needed  *)
(* for them.                                                                *)
(***************************************************************************)
EXTENDS Integers, FiniteSets, Sequences, SequencesExt

CONSTANTS
  Stashes,        \* who may ever be a validator; numbers, 0 is no one
  Genesis,        \* initial_authorities
  Movers,         \* bound: those who chill and validate again
  EpochDuration,  \* slots of an epoch
  SignedPhase, UnsignedPhase, \* their lengths
  SessionsPerEra, \* sessions of an era
  Gaps,           \* bound: slots from one block to the next
  Indices         \* bound: the authority indices that get to author

ASSUME StashesAssumption ==
  /\ Stashes \subseteq Nat \ {0} /\ IsFiniteSet(Stashes)
  /\ Genesis \subseteq Stashes /\ Genesis # {} /\ Movers \subseteq Stashes
ASSUME PeriodsAssumption ==
  /\ EpochDuration \in Nat \ {0} /\ SessionsPerEra \in Nat \ {0} /\ Gaps \subseteq Nat \ {0}
  /\ Indices \subseteq Nat \ {0}
  /\ SignedPhase \in Nat /\ UnsignedPhase \in Nat
  /\ SignedPhase + UnsignedPhase < EpochDuration

VARIABLES
  slot,         \* slots since the start of the epoch, at the best block
  digest,       \* authority index of its digest; 0 at genesis
  author,       \* history: who claimed its slot
  credited,     \* history: whom Authorship noted for it, or NoOne
  authorities, nextAuthorities, \* Babe's Authorities and NextAuthorities
  validators, queued, \* Session's Validators and QueuedKeys
  disabled,     \* Session's DisabledValidators: indices
  offending,    \* Staking's DisabledValidators: indices
  candidates,   \* Staking's Validators: who wants to validate
  exposed,      \* Staking's exposures of the active era
  planned,      \* ... and of the era after it, or NotPlanned
  age,          \* sessions since the start of the newest era; -1 before it starts
  forcing,      \* Staking's ForceEra
  phase, snapshot, solution \* the election's CurrentPhase, Snapshot, QueuedSolution

blockVars == <<slot, digest, author, credited>>
sessionVars == <<authorities, nextAuthorities, validators, queued, disabled>>
eraVars == <<exposed, planned, age, offending>>
electionVars == <<phase, snapshot, solution>>
vars == <<blockVars, sessionVars, candidates, eraVars, forcing, electionVars>>

NoOne == 0
NotPlanned == {0}
Nothing == {0}                     \* no snapshot, no solution

\* A set of winners as the list they are kept in; their order is fixed to one.
List == [W \in SUBSET Stashes |-> SetToSeq(W)]
Subsets(S, n) == {W \in SUBSET S : Cardinality(W) = n}
Smaller(m, n) == IF m < n THEN m ELSE n

\* testnet_genesis: as many validators as there are at genesis, never fewer, and
\* offences of those who were there have no consequences.  Root's
\* set_validator_count is left out: all lists have one length.
ValidatorCount == Cardinality(Genesis)
MinimumValidatorCount == Cardinality(Genesis)
Invulnerables == Genesis

Init ==
  /\ slot = 0 /\ digest = 0 /\ author = NoOne /\ credited = NoOne
  /\ validators = List[Genesis] /\ queued = validators
  /\ authorities = validators /\ nextAuthorities = queued
  /\ disabled = {} /\ offending = {}
  /\ candidates = Genesis
  /\ exposed = Genesis /\ planned = NotPlanned /\ age = 0
  /\ forcing = "NotForcing"
  /\ phase = "Off" /\ snapshot = Nothing /\ solution = Nothing

-----------------------------------------------------------------------------
(* Authors *)

\* The authorities the client claims a slot with: those of the epoch the slot lies
\* in, the next one as Babe announced it.
ClaimedBy(s) == IF s >= EpochDuration THEN nextAuthorities ELSE authorities

\* Faulty variant of NoteAuthor: as if Session had rotated before.
NoteAuthorQueued(i) == IF i \in DOMAIN queued THEN queued[i] ELSE NoOne

\* FindAccountFromAuthorIndex: Session's validators, before this block's rotation.
NoteAuthor(i) == IF i \in DOMAIN validators THEN validators[i] ELSE NoOne

\* Faulty variant of FindAuthorTruncated: the index is looked up in Session's queue.
FindAuthorQueued == queued[digest]

\* FindAuthorTruncated, after all on_initialize hooks.
FindAuthorTruncated == authorities[digest]

-----------------------------------------------------------------------------
(* The election of validators *)

\* Staking, in next_election_prediction and again in new_session when this session
\* has ended: the next session to be queued is the first of a new era.
ElectionDue ==
  \/ forcing = "ForceNew"
  \/ forcing = "NotForcing" /\ age + 2 >= SessionsPerEra

\* on_initialize of the election, at slot s of the epoch.
Phase(s) ==
  LET remaining == IF ElectionDue /\ s < EpochDuration THEN EpochDuration - s ELSE 0 IN
    IF remaining > UnsignedPhase /\ remaining <= SignedPhase + UnsignedPhase /\ phase = "Off"
      THEN "Signed"
    ELSE IF remaining > 0 /\ remaining <= UnsignedPhase /\ phase \in {"Off", "Signed"}
      THEN "Unsigned"
    ELSE phase

\* Faulty variant of Snapshot: every change of the phase takes one.
SnapshotAnew(s) == IF phase # Phase(s) THEN candidates ELSE snapshot

\* Leaving Off takes the snapshot.
Snapshot(s) == IF phase = "Off" /\ Phase(s) # "Off" THEN candidates ELSE snapshot

\* Faulty variant of Fallback: none, as with NoElection.
FallbackNone == {{}}

\* Fallback = OnChainExecution: the candidates of now, any of them by stakes.
Fallback == Subsets(candidates, Smaller(ValidatorCount, Cardinality(candidates)))

\* elect: the queued solution, or the fallback's.
Winners == IF solution # Nothing THEN {solution} ELSE Fallback

-----------------------------------------------------------------------------
(* Sessions and eras *)

\* The session that starts is the first of the era that is planned; and Session's
\* QueuedChanged, which is true after a new_session that returned validators.
EraStarts == planned # NotPlanned
QueuedChanged == planned # NotPlanned

\* age counts up to where ElectionDue tells it apart.
Older == Smaller(age + 1, SessionsPerEra)

\* Faulty variant of StartSession: the era starts when its successor is planned.
StartSessionLate ==
  exposed' = IF planned # NotPlanned /\ ElectionDue THEN planned ELSE exposed

\* Faulty variant of EndEra: Staking's list of the disabled is kept.
EndEraKeepingDisabled == UNCHANGED offending

\* end_session of Staking, for what matters here.
EndEra == offending' = IF EraStarts THEN {} ELSE offending

\* start_session of Staking.
StartSession == exposed' = IF EraStarts THEN planned ELSE exposed

\* rotate_session when new_session of Staking returns no validators: those who take
\* office now stay on.
KeepValidators ==
  /\ queued' = queued
  /\ planned' = IF EraStarts THEN NotPlanned ELSE planned
  /\ age' = Older
  /\ UNCHANGED forcing

\* new_session of Staking plans an era for the session after the one that starts.
PlanEra(W) ==
  /\ queued' = List[W]
  /\ planned' = W
  /\ age' = -1
  /\ forcing' = IF forcing = "ForceNew" THEN "NotForcing" ELSE forcing

\* new_session of Staking: nothing to do, or an election, which is void if it does
\* not return enough winners.  Its round ends either way.
NewSession ==
  \/ ~ElectionDue /\ KeepValidators /\ UNCHANGED electionVars
  \/ /\ ElectionDue
     /\ \E W \in Winners :
          \/ Cardinality(W) >= MinimumValidatorCount /\ PlanEra(W)
          \/ Cardinality(W) < MinimumValidatorCount /\ KeepValidators
     /\ phase' = "Off" /\ snapshot' = Nothing /\ solution' = Nothing

\* rotate_session, and on_new_session of Babe.  Session forgets who was disabled when
\* the validators change; start_session of Staking disables its own list again.
RotateSession ==
  /\ EndEra
  /\ validators' = queued
  /\ StartSession
  /\ disabled' = (IF QueuedChanged THEN {} ELSE disabled) \cup offending'
  /\ NewSession
  /\ authorities' = validators'
  /\ nextAuthorities' = queued'

\* A block of authority i, gap slots after the last one: the hooks in their order.
\* A block that opens an epoch may also have skipped whole ones.
AuthorBlock(gap, i) ==
  LET s == slot + gap IN
    /\ i \in DOMAIN ClaimedBy(s)
    /\ digest' = i
    /\ author' = ClaimedBy(s)[i]
    /\ credited' = NoteAuthor(i)
    /\ slot' = s % EpochDuration
    /\ \/ /\ s < EpochDuration
          /\ phase' = Phase(s) /\ snapshot' = Snapshot(s)
          /\ UNCHANGED <<sessionVars, eraVars, forcing, solution>>
       \/ s >= EpochDuration /\ RotateSession
    /\ i \notin disabled'
    /\ UNCHANGED candidates

-----------------------------------------------------------------------------
(* Calls *)

\* validate and chill.
Validate(who) ==
  /\ candidates' = candidates \cup {who}
  /\ UNCHANGED <<blockVars, sessionVars, eraVars, forcing, electionVars>>

Chill(who) ==
  /\ candidates' = candidates \ {who}
  /\ UNCHANGED <<blockVars, sessionVars, eraVars, forcing, electionVars>>

\* submit and submit_unsigned: a solution for the snapshot, however old it is.
Submit(W) ==
  /\ phase \in {"Signed", "Unsigned"}
  /\ W \in Subsets(snapshot, Smaller(ValidatorCount, Cardinality(snapshot)))
  /\ solution' = W
  /\ UNCHANGED <<blockVars, sessionVars, candidates, eraVars, forcing, phase, snapshot>>

\* submit_report_equivocation_unsigned_extrinsic of BABE, and on_offence of Staking:
\* an author of the era who is not invulnerable is disabled, up to a third of the
\* validators.  The block of the author itself would fail with the report.  (GRANDPA's
\* reports end at a proof of type Void, which never decodes.)
ReportEquivocation(i) ==
  /\ i \in DOMAIN validators \ offending
  /\ i # digest
  /\ validators[i] \notin Invulnerables
  /\ Cardinality(offending) < (Len(validators) - 1) \div 3
  /\ offending' = offending \cup {i}
  /\ disabled' = disabled \cup {i}
  /\ UNCHANGED <<blockVars, authorities, nextAuthorities, validators, queued, candidates,
                 exposed, planned, age, forcing, electionVars>>

\* force_new_era and force_no_eras, by Root; what force_new_era_always does, the first
\* repeated does.
ForceEra(f) ==
  /\ forcing' = f
  /\ UNCHANGED <<blockVars, sessionVars, candidates, eraVars, electionVars>>

-----------------------------------------------------------------------------
SomeBlock == \E gap \in Gaps, i \in Indices : AuthorBlock(gap, i)

Next ==
  \/ SomeBlock
  \/ \E who \in Movers : Validate(who) \/ Chill(who)
  \/ \E W \in SUBSET Stashes : Submit(W)
  \/ \E i \in Indices : ReportEquivocation(i)
  \/ \E f \in {"ForceNew", "ForceNone"} : ForceEra(f)

\* Blocks keep coming: every slot has a secondary author.  Nobody else need act.
Spec == Init /\ [][Next]_vars /\ WF_vars(SomeBlock)

-----------------------------------------------------------------------------
(* Properties *)

\* The lists of validators there can be.
Lists == {List[W] : W \in Subsets(Stashes, ValidatorCount)}

\* Every variable has its type, every list of validators has its full length, Session
\* disables what Staking wants disabled, and a solution or snapshot is there only while
\* the round it belongs to is open.
TypeOK ==
  /\ slot \in 0 .. (EpochDuration - 1)
  /\ digest \in 0 .. Cardinality(Stashes)
  /\ author \in Stashes \cup {NoOne} /\ credited \in Stashes \cup {NoOne}
  /\ authorities \in Lists /\ nextAuthorities \in Lists
  /\ validators \in Lists /\ queued \in Lists
  /\ offending \subseteq disabled /\ disabled \subseteq DOMAIN validators
  /\ candidates \subseteq Stashes /\ exposed \subseteq Stashes
  /\ planned = NotPlanned \/ planned \subseteq Stashes
  /\ age \in -1 .. SessionsPerEra
  /\ forcing \in {"NotForcing", "ForceNew", "ForceNone"}
  /\ phase \in {"Off", "Signed", "Unsigned"}
  /\ snapshot = Nothing \/ snapshot \subseteq Stashes
  /\ phase = "Off" <=> snapshot = Nothing
  /\ solution = Nothing \/ /\ phase # "Off" /\ solution \subseteq snapshot
                           /\ Cardinality(solution) <= ValidatorCount

\* The author that the EVM sees (the coinbase, and beneficiary of the Ethereum block)
\* is the one who claimed the slot, in the first block of an epoch too, with an index
\* into the new authorities; the lookup is not out of range, which would make the
\* block impossible, as long as nobody changes the validator count
\* (configs/mod.rs:239-251).
EvmAuthorIsAuthor ==
  digest # 0 => digest \in DOMAIN authorities /\ FindAuthorTruncated = author

\* Whom Authorship notes for a block has a stake exposed in the era that is active,
\* and credited, when it does: as lib.rs:266-267 says, that takes Authorship before
\* Session (lib.rs:266-291, configs/mod.rs:401-404).
CreditedIsExposed == [][credited' # credited => credited' \in exposed]_vars

\* The validators in office are those whose stake is exposed in the active era, so
\* rewards and slashes find them, and those who are queued are the ones elected for
\* the planned era; through forced eras, void elections and skipped epochs
\* (configs/mod.rs:692-765).
ValidatorsAreExposed ==
  /\ Range(validators) = exposed
  /\ IF planned = NotPlanned THEN queued = validators ELSE Range(queued) = planned
  /\ authorities = validators /\ nextAuthorities = queued

\* No invulnerable is ever kept from authoring: indices that were disabled do not
\* outlive the validators they were computed for, neither Session's nor the list that
\* Staking disables again in each session (configs/mod.rs:345-349, 725, 750-760,
\* chain_spec.rs:242).
InvulnerablesMayAuthor == \A i \in disabled : validators[i] \notin Invulnerables

\* With enough candidates, and eras not switched off, eras go on being planned, if
\* nobody ever submits a solution and whatever slots stay empty: the fallback elects
\* (configs/mod.rs:626-659).
ErasGoOn ==
  (<>[](Cardinality(candidates) >= ValidatorCount /\ forcing # "ForceNone"))
    => []<>(planned # NotPlanned)
=============================================================================
