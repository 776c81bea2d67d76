------------------------- MODULE ValidatorsProofs -------------------------
(***************************************************************************)
(* Proofs about Validators, for any number of stashes, any lengths of the   *)
(* phases, epochs and eras, and any empty slots.                            *)
(***************************************************************************)
EXTENDS Validators, FiniteSetTheorems, TLAPS

\* Subsets of the stashes are finite, and 0 is no stash.
LEMMA StashSets ==
  ASSUME NEW W \in SUBSET Stashes
  PROVE  /\ IsFiniteSet(W) /\ Cardinality(W) \in Nat
         /\ Cardinality(W) <= Cardinality(Stashes)
         /\ W # {0}
BY FS_Subset, FS_CardinalityType, StashesAssumption

\* The list of a set of validators holds them all, once each.
LEMMA ListOfSet ==
  ASSUME NEW W \in SUBSET Stashes
  PROVE  /\ List[W] \in [1..Cardinality(W) -> W]
         /\ Range(List[W]) = W
<1> DEFINE n == Cardinality(W)
<1>1. IsFiniteSet(W) /\ n \in Nat
  BY StashSets
<1>2. \E f \in [1..n -> W] : IsInjective(f)
  <2>1. ExistsBijection(1..n, W)
    BY <1>1, FS_CardinalityType
  <2> QED
    BY <2>1 DEF ExistsBijection, Bijection, Injection
<1>3. List[W] \in [1..n -> W] /\ IsInjective(List[W])
  BY <1>2 DEF List, SetToSeq
<1>4. IsFiniteSet(1..n) /\ Cardinality(1..n) = n
  BY <1>1, FS_Interval
<1>5. List[W] \in Surjection(1..n, W)
  BY <1>1, <1>3, <1>4, FS_Injection DEF Injection
<1> QED
  BY <1>3, <1>5 DEF Surjection, Range

\* Every list of validators has ValidatorCount places, with stashes in them.
LEMMA ListsFacts ==
  ASSUME NEW l \in Lists
  PROVE  /\ ValidatorCount \in Nat /\ ValidatorCount <= Cardinality(Stashes)
         /\ DOMAIN l = 1..ValidatorCount
         /\ \A i \in DOMAIN l : l[i] \in Stashes
<1>1. PICK W \in SUBSET Stashes : Cardinality(W) = ValidatorCount /\ l = List[W]
  BY DEF Lists, Subsets
<1> QED
  BY <1>1, StashSets, ListOfSet

\* Whoever is elected, by a solution or by the fallback: at most ValidatorCount stashes.
LEMMA WinnersFit ==
  ASSUME TypeOK, NEW W \in Winners
  PROVE  W \in SUBSET Stashes /\ Cardinality(W) <= ValidatorCount
<1>1. CASE solution # Nothing
  <2>1. W = solution
    BY <1>1 DEF Winners
  <2>2. snapshot \subseteq Stashes /\ solution \subseteq snapshot /\ Cardinality(solution) <= ValidatorCount
    BY <1>1 DEF TypeOK
  <2> QED
    BY <2>1, <2>2
<1>2. CASE solution = Nothing
  <2>1. W \in SUBSET candidates /\ candidates \subseteq Stashes
    BY <1>2 DEF Winners, Fallback, Subsets, TypeOK
  <2>2. Cardinality(W) = Smaller(ValidatorCount, Cardinality(candidates))
    BY <1>2 DEF Winners, Fallback, Subsets
  <2>3. Cardinality(candidates) \in Nat /\ ValidatorCount \in Nat
    BY <2>1, StashSets, StashesAssumption DEF ValidatorCount
  <2> QED
    BY <2>1, <2>2, <2>3 DEF Smaller
<1> QED
  BY <1>1, <1>2

\* The validators at genesis.
LEMMA GenesisList == List[Genesis] \in Lists /\ Range(List[Genesis]) = Genesis
<1>1. Genesis \in Subsets(Stashes, ValidatorCount)
  BY StashesAssumption DEF Subsets, ValidatorCount
<1> QED
  BY <1>1, ListOfSet, StashesAssumption DEF Lists

\* An era that is planned has a full list.
LEMMA PlannedList ==
  ASSUME TypeOK, NEW W \in Winners, Cardinality(W) >= MinimumValidatorCount
  PROVE  List[W] \in Lists /\ Range(List[W]) = W /\ W # NotPlanned /\ W \subseteq Stashes
<1>1. W \in SUBSET Stashes /\ Cardinality(W) <= ValidatorCount
  BY WinnersFit
<1>2. Cardinality(W) = ValidatorCount
  BY <1>1, StashSets, StashesAssumption DEF MinimumValidatorCount, ValidatorCount
<1>3. W \in Subsets(Stashes, ValidatorCount)
  BY <1>1, <1>2 DEF Subsets
<1> QED
  BY <1>1, <1>3, ListOfSet, StashSets DEF Lists, NotPlanned

\* What rotate_session does to the queue, in its two ways.
LEMMA QueueAfterRotation ==
  ASSUME TypeOK, NewSession
  PROVE  \/ queued' = queued /\ KeepValidators
         \/ \E W \in Winners : Cardinality(W) >= MinimumValidatorCount /\ PlanEra(W)
BY DEF NewSession, KeepValidators

-----------------------------------------------------------------------------
(* Types *)

\* What a rotation leaves behind, apart from the election's variables.
LEMMA RotationKeepsTypes ==
  ASSUME TypeOK, RotateSession
  PROVE  /\ authorities' \in Lists /\ nextAuthorities' \in Lists
         /\ validators' \in Lists /\ queued' \in Lists
         /\ offending' \subseteq disabled' /\ disabled' \subseteq DOMAIN validators'
         /\ exposed' \subseteq Stashes
         /\ planned' = NotPlanned \/ planned' \subseteq Stashes
         /\ age' \in -1..SessionsPerEra
         /\ forcing' \in {"NotForcing", "ForceNew", "ForceNone"}
<1>1. NewSession /\ EndEra /\ StartSession /\ validators' = queued
      /\ authorities' = validators' /\ nextAuthorities' = queued'
      /\ disabled' = (IF QueuedChanged THEN {} ELSE disabled) \cup offending'
  BY DEF RotateSession
<1>2. queued \in Lists /\ validators \in Lists
  BY DEF TypeOK
<1>3. /\ queued' \in Lists
      /\ planned' = NotPlanned \/ planned' \subseteq Stashes
      /\ forcing' \in {"NotForcing", "ForceNew", "ForceNone"}
  <2>1. CASE KeepValidators
    BY <2>1 DEF KeepValidators, TypeOK
  <2>2. ASSUME NEW W \in Winners, Cardinality(W) >= MinimumValidatorCount, PlanEra(W)
        PROVE  /\ queued' \in Lists
               /\ planned' = NotPlanned \/ planned' \subseteq Stashes
               /\ forcing' \in {"NotForcing", "ForceNew", "ForceNone"}
    BY <2>2, PlannedList DEF PlanEra, TypeOK
  <2> QED
    BY <1>1, <2>1, <2>2, QueueAfterRotation
<1>4. age' \in -1..SessionsPerEra
  <2>1. age \in -1..SessionsPerEra
    BY DEF TypeOK
  <2>2. age' \in {-1, Older}
    BY <1>1, QueueAfterRotation DEF KeepValidators, PlanEra
  <2> QED
    BY <2>1, <2>2, PeriodsAssumption DEF Older, Smaller
<1>5. exposed' \subseteq Stashes
  BY <1>1 DEF StartSession, EraStarts, TypeOK
<1>6. offending' \subseteq disabled' /\ disabled' \subseteq DOMAIN validators'
  <2>1. offending' \subseteq offending
    BY <1>1 DEF EndEra
  <2>2. DOMAIN validators' = DOMAIN validators
    BY <1>1, <1>2, ListsFacts
  <2> QED
    BY <1>1, <2>1, <2>2 DEF TypeOK
<1> QED
  BY <1>1, <1>2, <1>3, <1>4, <1>5, <1>6

\* The election's variables after the hooks of a block.
LEMMA ElectionTypes ==
  ASSUME TypeOK, NEW gap \in Gaps, NEW i \in Indices, AuthorBlock(gap, i)
  PROVE  /\ phase' \in {"Off", "Signed", "Unsigned"}
         /\ snapshot' = Nothing \/ snapshot' \subseteq Stashes
         /\ phase' = "Off" <=> snapshot' = Nothing
         /\ solution' = Nothing \/ /\ phase' # "Off" /\ solution' \subseteq snapshot'
                                   /\ Cardinality(solution') <= ValidatorCount
<1> DEFINE s == slot + gap
<1>1. CASE phase' = Phase(s) /\ snapshot' = Snapshot(s) /\ solution' = solution
  <2>1. Phase(s) \in {"Signed", "Unsigned"} \/ Phase(s) = phase
    BY DEF Phase
  <2>2. candidates \subseteq Stashes /\ candidates # Nothing
    BY StashSets DEF TypeOK, Nothing
  <2>3. CASE phase = "Off" /\ Phase(s) # "Off"
    <3>1. snapshot' = candidates /\ solution = Nothing
      BY <1>1, <2>3 DEF Snapshot, TypeOK
    <3> QED
      BY <1>1, <2>1, <2>2, <2>3, <3>1
  <2>4. CASE ~(phase = "Off" /\ Phase(s) # "Off")
    <3>1. snapshot' = snapshot
      BY <1>1, <2>4 DEF Snapshot
    <3>2. phase' = "Off" <=> phase = "Off"
      BY <1>1, <2>1, <2>4
    <3>3. phase' \in {"Off", "Signed", "Unsigned"}
      BY <1>1, <2>1 DEF TypeOK
    <3> QED
      BY <1>1, <3>1, <3>2, <3>3 DEF TypeOK
  <2> QED
    BY <2>3, <2>4
<1>2. CASE UNCHANGED electionVars
  BY <1>2 DEF electionVars, TypeOK
<1>3. CASE phase' = "Off" /\ snapshot' = Nothing /\ solution' = Nothing
  BY <1>3
<1> QED
  BY <1>1, <1>2, <1>3 DEF AuthorBlock, RotateSession, NewSession

\* The slot, the author and the one who is credited, after a block.
LEMMA BlockTypes ==
  ASSUME TypeOK, NEW gap \in Gaps, NEW i \in Indices, AuthorBlock(gap, i)
  PROVE  /\ slot' \in 0 .. (EpochDuration - 1)
         /\ digest' \in 0 .. Cardinality(Stashes)
         /\ author' \in Stashes \cup {NoOne} /\ credited' \in Stashes \cup {NoOne}
<1>1. slot \in Nat
  BY DEF TypeOK
<1>2. slot' = (slot + gap) % EpochDuration
  BY DEF AuthorBlock
<1>3. slot' \in 0 .. (EpochDuration - 1)
  BY <1>1, <1>2, PeriodsAssumption
<1>4. authorities \in Lists /\ nextAuthorities \in Lists /\ validators \in Lists
  BY DEF TypeOK
<1>5. ClaimedBy(slot + gap) \in Lists
  BY <1>4 DEF ClaimedBy
<1>6. i \in DOMAIN ClaimedBy(slot + gap) /\ digest' = i
      /\ author' = ClaimedBy(slot + gap)[i] /\ credited' = NoteAuthor(i)
  BY DEF AuthorBlock
<1>7. author' \in Stashes /\ i \in 1..ValidatorCount
      /\ ValidatorCount \in Nat /\ ValidatorCount <= Cardinality(Stashes)
  BY <1>5, <1>6, ListsFacts
<1>8. Cardinality(Stashes) \in Nat
  BY StashSets
<1>9. digest' \in 0 .. Cardinality(Stashes)
  BY <1>6, <1>7, <1>8
<1>10. credited' \in Stashes \cup {NoOne}
  BY <1>4, <1>6, ListsFacts DEF NoteAuthor
<1> QED
  BY <1>3, <1>7, <1>9, <1>10

\* Every variable keeps its type (configs/mod.rs:626-765).
THEOREM TypeCorrect == Spec => []TypeOK
<1>1. Init => TypeOK
  <2> SUFFICES ASSUME Init PROVE TypeOK
    OBVIOUS
  <2>1. List[Genesis] \in Lists /\ Genesis \subseteq Stashes
    BY GenesisList, StashesAssumption
  <2>2. Cardinality(Stashes) \in Nat
    BY StashSets
  <2>3. slot \in 0 .. (EpochDuration - 1) /\ age \in -1 .. SessionsPerEra
        /\ digest \in 0 .. Cardinality(Stashes)
    BY <2>2, PeriodsAssumption DEF Init
  <2> QED
    BY <2>1, <2>3 DEF Init, TypeOK
<1>2. TypeOK /\ [Next]_vars => TypeOK'
  <2> SUFFICES ASSUME TypeOK, [Next]_vars PROVE TypeOK'
    OBVIOUS
  <2>1. ASSUME NEW gap \in Gaps, NEW i \in Indices, AuthorBlock(gap, i) PROVE TypeOK'
    <3>1. candidates' = candidates
      BY <2>1 DEF AuthorBlock
    <3>2. /\ phase' \in {"Off", "Signed", "Unsigned"}
          /\ snapshot' = Nothing \/ snapshot' \subseteq Stashes
          /\ phase' = "Off" <=> snapshot' = Nothing
          /\ solution' = Nothing \/ /\ phase' # "Off" /\ solution' \subseteq snapshot'
                                    /\ Cardinality(solution') <= ValidatorCount
      BY <2>1, ElectionTypes
    <3>3. /\ slot' \in 0 .. (EpochDuration - 1)
          /\ digest' \in 0 .. Cardinality(Stashes)
          /\ author' \in Stashes \cup {NoOne} /\ credited' \in Stashes \cup {NoOne}
      BY <2>1, BlockTypes
    <3>4. CASE UNCHANGED <<sessionVars, eraVars, forcing, solution>>
      BY <3>1, <3>2, <3>3, <3>4 DEF TypeOK, sessionVars, eraVars
    <3>5. CASE RotateSession
      BY <3>1, <3>2, <3>3, <3>5, RotationKeepsTypes DEF TypeOK
    <3> QED
      BY <2>1, <3>4, <3>5 DEF AuthorBlock
  <2>2. ASSUME NEW who \in Movers, Validate(who) \/ Chill(who) PROVE TypeOK'
    <3>0. candidates \subseteq Stashes /\ who \in Stashes
      BY StashesAssumption DEF TypeOK
    <3>1. candidates' \subseteq Stashes
      BY <2>2, <3>0 DEF Validate, Chill
    <3>2. UNCHANGED <<blockVars, sessionVars, eraVars, forcing, electionVars>>
      BY <2>2 DEF Validate, Chill
    <3> QED
      BY <3>1, <3>2 DEF TypeOK, blockVars, sessionVars, eraVars, electionVars
  <2>3. ASSUME NEW W \in SUBSET Stashes, Submit(W) PROVE TypeOK'
    <3>1. phase # "Off" /\ snapshot \subseteq Stashes
      BY <2>3 DEF Submit, TypeOK
    <3>2. solution' \subseteq snapshot
          /\ Cardinality(solution') = Smaller(ValidatorCount, Cardinality(snapshot))
      BY <2>3 DEF Submit, Subsets
    <3>3. ValidatorCount \in Nat /\ Cardinality(snapshot) \in Nat
      BY <3>1, StashSets, StashesAssumption DEF ValidatorCount
    <3>4. Cardinality(solution') <= ValidatorCount
      BY <3>2, <3>3 DEF Smaller
    <3>5. UNCHANGED <<blockVars, sessionVars, candidates, eraVars, forcing, phase, snapshot>>
      BY <2>3 DEF Submit
    <3> QED
      BY <3>1, <3>2, <3>4, <3>5 DEF TypeOK, blockVars, sessionVars, eraVars
  <2>4. ASSUME NEW i \in Indices, ReportEquivocation(i) PROVE TypeOK'
    BY <2>4 DEF ReportEquivocation, TypeOK, blockVars, electionVars
  <2>5. ASSUME NEW f \in {"ForceNew", "ForceNone"}, ForceEra(f) PROVE TypeOK'
    BY <2>5 DEF ForceEra, TypeOK, blockVars, sessionVars, eraVars, electionVars
  <2>6. CASE UNCHANGED vars
    BY <2>6 DEF TypeOK, vars, blockVars, sessionVars, eraVars, electionVars
  <2> QED
    BY <2>1, <2>2, <2>3, <2>4, <2>5, <2>6 DEF Next, SomeBlock
<1> QED
  BY <1>1, <1>2, PTL DEF Spec

-----------------------------------------------------------------------------
(* Sessions and eras *)

\* A step that is no rotation leaves the validators and the eras alone.
LEMMA OnlyRotationsChangeValidators ==
  ASSUME [Next]_vars, ~RotateSession
  PROVE  UNCHANGED <<authorities, nextAuthorities, validators, queued, exposed, planned>>
<1>1. ASSUME NEW gap \in Gaps, NEW i \in Indices, AuthorBlock(gap, i)
      PROVE  UNCHANGED <<authorities, nextAuthorities, validators, queued, exposed, planned>>
  BY <1>1 DEF AuthorBlock, sessionVars, eraVars
<1>2. ASSUME NEW who \in Movers, Validate(who) \/ Chill(who)
      PROVE  UNCHANGED <<authorities, nextAuthorities, validators, queued, exposed, planned>>
  BY <1>2 DEF Validate, Chill, sessionVars, eraVars
<1>3. ASSUME NEW W \in SUBSET Stashes, Submit(W)
      PROVE  UNCHANGED <<authorities, nextAuthorities, validators, queued, exposed, planned>>
  BY <1>3 DEF Submit, sessionVars, eraVars
<1>4. ASSUME NEW i \in Indices, ReportEquivocation(i)
      PROVE  UNCHANGED <<authorities, nextAuthorities, validators, queued, exposed, planned>>
  BY <1>4 DEF ReportEquivocation
<1>5. ASSUME NEW f \in {"ForceNew", "ForceNone"}, ForceEra(f)
      PROVE  UNCHANGED <<authorities, nextAuthorities, validators, queued, exposed, planned>>
  BY <1>5 DEF ForceEra, sessionVars, eraVars
<1>6. CASE UNCHANGED vars
  BY <1>6 DEF vars, sessionVars, eraVars
<1> QED
  BY <1>1, <1>2, <1>3, <1>4, <1>5, <1>6 DEF Next, SomeBlock

\* The validators in office are those exposed in the active era, the queue is the
\* planned era's, and Babe has both lists: through forced eras, void elections and
\* skipped epochs (configs/mod.rs:692-765).
THEOREM ValidatorsAreExposedCorrect == Spec => []ValidatorsAreExposed
<1>1. Init => ValidatorsAreExposed
  BY GenesisList DEF Init, ValidatorsAreExposed
<1>2. TypeOK /\ ValidatorsAreExposed /\ [Next]_vars => ValidatorsAreExposed'
  <2> SUFFICES ASSUME TypeOK, ValidatorsAreExposed, [Next]_vars PROVE ValidatorsAreExposed'
    OBVIOUS
  <2>1. CASE ~RotateSession
    BY <2>1, OnlyRotationsChangeValidators DEF ValidatorsAreExposed
  <2>2. CASE RotateSession
    <3>1. NewSession /\ StartSession /\ validators' = queued
          /\ authorities' = validators' /\ nextAuthorities' = queued'
      BY <2>2 DEF RotateSession
    <3>2. Range(validators') = exposed'
      BY <3>1 DEF StartSession, EraStarts, ValidatorsAreExposed
    <3>3. IF planned' = NotPlanned THEN queued' = validators' ELSE Range(queued') = planned'
      <4>1. CASE KeepValidators
        BY <3>1, <4>1 DEF KeepValidators, EraStarts
      <4>2. ASSUME NEW W \in Winners, Cardinality(W) >= MinimumValidatorCount, PlanEra(W)
            PROVE  planned' # NotPlanned /\ Range(queued') = planned'
        BY <4>2, PlannedList DEF PlanEra
      <4> QED
        BY <3>1, <4>1, <4>2, QueueAfterRotation
    <3> QED
      BY <3>1, <3>2, <3>3 DEF ValidatorsAreExposed
  <2> QED
    BY <2>1, <2>2
<1> QED
  BY <1>1, <1>2, TypeCorrect, PTL DEF Spec

\* The EVM's author is the one who claimed the slot, and the lookup stays in range
\* (configs/mod.rs:239-251).
THEOREM EvmAuthorIsAuthorCorrect == Spec => []EvmAuthorIsAuthor
<1>1. Init => EvmAuthorIsAuthor
  BY DEF Init, EvmAuthorIsAuthor
<1>2. TypeOK /\ ValidatorsAreExposed /\ EvmAuthorIsAuthor /\ [Next]_vars
        => EvmAuthorIsAuthor'
  <2> SUFFICES ASSUME TypeOK, ValidatorsAreExposed, EvmAuthorIsAuthor, [Next]_vars
               PROVE  EvmAuthorIsAuthor'
    OBVIOUS
  <2>1. ASSUME NEW gap \in Gaps, NEW i \in Indices, AuthorBlock(gap, i)
        PROVE  EvmAuthorIsAuthor'
    <3>1. /\ i \in DOMAIN ClaimedBy(slot + gap)
          /\ digest' = i /\ author' = ClaimedBy(slot + gap)[i]
      BY <2>1 DEF AuthorBlock
    <3>2. authorities' = ClaimedBy(slot + gap)
      <4>1. CASE slot + gap < EpochDuration /\ UNCHANGED sessionVars
        <5>1. slot \in Int
          BY DEF TypeOK
        <5>2. ~(slot + gap >= EpochDuration)
          BY <4>1, <5>1, PeriodsAssumption
        <5> QED
          BY <4>1, <5>2 DEF ClaimedBy, sessionVars
      <4>2. CASE slot + gap >= EpochDuration /\ RotateSession
        BY <4>2 DEF ClaimedBy, RotateSession, ValidatorsAreExposed
      <4> QED
        BY <2>1, <4>1, <4>2 DEF AuthorBlock
    <3> QED
      BY <3>1, <3>2 DEF EvmAuthorIsAuthor, FindAuthorTruncated
  <2>2. CASE UNCHANGED <<digest, author, authorities>>
    BY <2>2 DEF EvmAuthorIsAuthor, FindAuthorTruncated
  <2>3. ASSUME NEW who \in Movers, Validate(who) \/ Chill(who)
        PROVE  UNCHANGED <<digest, author, authorities>>
    BY <2>3 DEF Validate, Chill, blockVars, sessionVars
  <2>4. ASSUME NEW W \in SUBSET Stashes, Submit(W)
        PROVE  UNCHANGED <<digest, author, authorities>>
    BY <2>4 DEF Submit, blockVars, sessionVars
  <2>5. ASSUME NEW i \in Indices, ReportEquivocation(i)
        PROVE  UNCHANGED <<digest, author, authorities>>
    BY <2>5 DEF ReportEquivocation, blockVars
  <2>6. ASSUME NEW f \in {"ForceNew", "ForceNone"}, ForceEra(f)
        PROVE  UNCHANGED <<digest, author, authorities>>
    BY <2>6 DEF ForceEra, blockVars, sessionVars
  <2>7. CASE UNCHANGED vars
    BY <2>2, <2>7 DEF vars, blockVars, sessionVars
  <2> QED
    BY <2>1, <2>2, <2>3, <2>4, <2>5, <2>6, <2>7 DEF Next, SomeBlock
<1> QED
  BY <1>1, <1>2, TypeCorrect, ValidatorsAreExposedCorrect, PTL DEF Spec

\* Whoever Authorship notes has a stake exposed in the active era (lib.rs:266-291).
THEOREM CreditedIsExposedCorrect == Spec => CreditedIsExposed
<1>1. TypeOK /\ ValidatorsAreExposed /\ [Next]_vars
        => [credited' # credited => credited' \in exposed]_vars
  <2> SUFFICES ASSUME TypeOK, ValidatorsAreExposed, Next, credited' # credited
               PROVE  credited' \in exposed
    BY DEF vars, blockVars
  <2>1. PICK gap \in Gaps, i \in Indices : AuthorBlock(gap, i)
    BY DEF Next, SomeBlock, Validate, Chill, Submit, ReportEquivocation, ForceEra, blockVars
  <2>2. authorities \in Lists /\ nextAuthorities \in Lists /\ validators \in Lists
    BY DEF TypeOK
  <2>3. ClaimedBy(slot + gap) \in Lists
    BY <2>2 DEF ClaimedBy
  <2>4. i \in DOMAIN validators
    BY <2>1, <2>2, <2>3, ListsFacts DEF AuthorBlock
  <2>5. credited' = validators[i]
    BY <2>1, <2>4 DEF AuthorBlock, NoteAuthor
  <2>6. credited' \in Range(validators)
    BY <2>4, <2>5 DEF Range
  <2> QED
    BY <2>6 DEF ValidatorsAreExposed
<1> QED
  BY <1>1, TypeCorrect, ValidatorsAreExposedCorrect, PTL DEF Spec, CreditedIsExposed

\* No disabled index outlives the validators it was computed for, so none ever falls on
\* an invulnerable (configs/mod.rs:345-349, 725, 750-760).
THEOREM InvulnerablesMayAuthorCorrect == Spec => []InvulnerablesMayAuthor
<1>1. Init => InvulnerablesMayAuthor
  BY DEF Init, InvulnerablesMayAuthor
<1>2. TypeOK /\ ValidatorsAreExposed /\ InvulnerablesMayAuthor /\ [Next]_vars
        => InvulnerablesMayAuthor'
  <2> SUFFICES ASSUME TypeOK, ValidatorsAreExposed, InvulnerablesMayAuthor, [Next]_vars
               PROVE  InvulnerablesMayAuthor'
    OBVIOUS
  <2>1. CASE RotateSession
    <3>1. EndEra /\ validators' = queued
          /\ disabled' = (IF QueuedChanged THEN {} ELSE disabled) \cup offending'
      BY <2>1 DEF RotateSession
    <3>2. CASE planned # NotPlanned
      BY <3>1, <3>2 DEF EndEra, EraStarts, QueuedChanged, InvulnerablesMayAuthor
    <3>3. CASE planned = NotPlanned
      <4>1. queued = validators /\ offending \subseteq disabled
        BY <3>3 DEF ValidatorsAreExposed, TypeOK
      <4> QED
        BY <3>1, <3>3, <4>1 DEF EndEra, EraStarts, QueuedChanged, InvulnerablesMayAuthor
    <3> QED
      BY <3>2, <3>3
  <2>2. CASE UNCHANGED <<validators, disabled>>
    BY <2>2 DEF InvulnerablesMayAuthor
  <2>3. ASSUME NEW i \in Indices, ReportEquivocation(i) PROVE InvulnerablesMayAuthor'
    BY <2>3 DEF ReportEquivocation, InvulnerablesMayAuthor
  <2>4. ASSUME NEW gap \in Gaps, NEW i \in Indices, AuthorBlock(gap, i)
        PROVE  RotateSession \/ UNCHANGED <<validators, disabled>>
    BY <2>4 DEF AuthorBlock, sessionVars
  <2>5. ASSUME NEW who \in Movers, Validate(who) \/ Chill(who)
        PROVE  UNCHANGED <<validators, disabled>>
    BY <2>5 DEF Validate, Chill, sessionVars
  <2>6. ASSUME NEW W \in SUBSET Stashes, Submit(W)
        PROVE  UNCHANGED <<validators, disabled>>
    BY <2>6 DEF Submit, sessionVars
  <2>7. ASSUME NEW f \in {"ForceNew", "ForceNone"}, ForceEra(f)
        PROVE  UNCHANGED <<validators, disabled>>
    BY <2>7 DEF ForceEra, sessionVars
  <2>8. CASE UNCHANGED vars
    BY <2>2, <2>8 DEF vars, sessionVars
  <2> QED
    BY <2>1, <2>2, <2>3, <2>4, <2>5, <2>6, <2>7, <2>8 DEF Next, SomeBlock
<1> QED
  BY <1>1, <1>2, TypeCorrect, ValidatorsAreExposedCorrect, PTL DEF Spec
=============================================================================
