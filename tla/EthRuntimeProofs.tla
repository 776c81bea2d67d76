------------------------- MODULE EthRuntimeProofs -------------------------
(***************************************************************************)
(* Proofs about EthRuntime, for any accounts, pool, block size and limit of *)
(* u32.  What extrinsic_filter and pending_block compute for every list of  *)
(* extrinsics is shown by induction along the list.                         *)
(***************************************************************************)
EXTENDS EthRuntime, WellFoundedInduction, FiniteSetTheorems, TLAPS

-----------------------------------------------------------------------------
(* Induction and recursion along a list *)

\* Induction over the naturals, with a set in place of a predicate.
LEMMA NatSetInduction ==
  ASSUME NEW S \in SUBSET Nat, 0 \in S, \A n \in S : n + 1 \in S
  PROVE  S = Nat
<1> DEFINE T == Nat \ S
           R == OpToRel(<, Nat)
<1>1. IsWellFoundedOn(R, Nat)
  BY NatLessThanWellFounded
<1>2. ASSUME NEW x \in Nat \ {0} PROVE <<x - 1, x>> \in R
  BY <1>2 DEF OpToRel
<1> HIDE DEF R
<1>3. SUFFICES ASSUME T # {} PROVE FALSE
  OBVIOUS
<1>4. PICK x \in T : \A y \in T : <<y, x>> \notin R
  BY <1>1, <1>3, WFMin
<1>5. x \in Nat \ {0} /\ x - 1 \in Nat
  BY <1>4
<1>6. x - 1 \in S
  BY <1>2, <1>4, <1>5
<1> QED
  BY <1>4, <1>5, <1>6

\* Induction along a list of n places.
LEMMA PrefixInduction ==
  ASSUME NEW n \in Nat, NEW S, 0 \in S, \A i \in 1..n : i - 1 \in S => i \in S
  PROVE  0..n \subseteq S
<1> DEFINE T == {k \in Nat : k <= n => k \in S}
<1>1. T \in SUBSET Nat /\ 0 \in T
  OBVIOUS
<1>2. ASSUME NEW k \in T PROVE k + 1 \in T
  <2>1. CASE k + 1 <= n
    <3>1. k + 1 \in 1..n /\ (k + 1) - 1 = k /\ k \in S
      BY <1>2, <2>1
    <3> QED
      BY <1>2, <3>1
  <2> QED
    BY <1>2, <2>1
<1>3. T = Nat
  <2> HIDE DEF T
  <2> QED BY <1>1, <1>2, NatSetInduction
<1> QED
  BY <1>3

\* What n steps make of v0, place by place.
Runs(n, V, v0, step) ==
  {g \in [0..n -> V] : g[0] = v0 /\ \A i \in 1..n : g[i] = step[i][g[i-1]]}

\* A list of n steps can be carried out, from any start.
LEMMA PrefixRecursion ==
  ASSUME NEW n \in Nat, NEW V, NEW v0 \in V, NEW step \in [1..n -> [V -> V]]
  PROVE  \E g : g \in Runs(n, V, v0, step)
<1> DEFINE Follows(k, g) == g[0] = v0 /\ \A i \in 1..k : g[i] = step[i][g[i-1]]
           S == {k \in 0..n : \E g \in [0..k -> V] : Follows(k, g)}
<1>1. 0 \in S
  <2> DEFINE g == [i \in 0..0 |-> v0]
  <2>1. g \in [0..0 -> V] /\ Follows(0, g)
    OBVIOUS
  <2> HIDE DEF g, Follows
  <2> QED
    BY <2>1
<1>2. ASSUME NEW k \in 1..n, k - 1 \in S PROVE k \in S
  <2>1. PICK f \in [0..(k-1) -> V] : Follows(k - 1, f)
    BY <1>2
  <2> DEFINE g == [i \in 0..k |-> IF i = k THEN step[k][f[k-1]] ELSE f[i]]
  <2>2. f[k-1] \in V /\ step[k][f[k-1]] \in V
    BY <2>1
  <2>3. g \in [0..k -> V]
    BY <2>1, <2>2
  <2>4. g[0] = v0
    BY <2>1
  <2>5. ASSUME NEW i \in 1..k PROVE g[i] = step[i][g[i-1]]
    <3>1. g[i-1] = f[i-1]
      BY <2>5
    <3>2. CASE i = k
      BY <3>1, <3>2
    <3>3. CASE i # k
      <4>1. i \in 1..(k-1)
        BY <3>3
      <4> QED
        BY <2>1, <3>1, <3>3, <4>1
    <3> QED
      BY <3>2, <3>3
  <2>6. Follows(k, g)
    BY <2>4, <2>5
  <2> HIDE DEF g, Follows
  <2> QED
    BY <2>3, <2>6
<1>3. n \in S
  <2> HIDE DEF S
  <2>1. 0..n \subseteq S
    BY <1>1, <1>2, PrefixInduction
  <2> QED
    BY <2>1
<1> QED
  BY <1>3 DEF Runs
-----------------------------------------------------------------------------
(* One extrinsic *)

\* What an extrinsic is made of, and that Ethereum transactions are the ones from
\* Ethereum senders.
LEMMA XtFacts ==
  ASSUME NEW xt \in Xts
  PROVE  /\ xt.from \in Accounts /\ xt.nonce \in 0..MaxNonce
         /\ xt.call \in {"transact", "do_something", "cause_error"}
         /\ xt.call = "transact" => xt.from \in Ethereum
         /\ xt.call # "transact" => xt.from \in Signers
         /\ xt.call = "do_something" => xt.arg \in {0, MaxU32}
BY DEF Xts, EthXts, TemplateXts, Accounts

\* The template pallet keeps its value within u32.
LEMMA DispatchType ==
  ASSUME NEW v \in {Unset} \cup 0..MaxU32, NEW xt \in Xts
  PROVE  Dispatch(v, xt) \in {Unset} \cup 0..MaxU32
<1>1. CASE xt.call = "do_something"
  BY <1>1, XtFacts, EthRuntimeAssumption DEF Dispatch
<1>2. CASE xt.call = "cause_error"
  BY <1>2, EthRuntimeAssumption DEF Dispatch, CauseError, Unset
<1>3. CASE xt.call = "transact"
  BY <1>3 DEF Dispatch
<1> QED
  BY <1>1, <1>2, <1>3, XtFacts

\* Executing an extrinsic leads from a state to a state.
LEMMA ApplyType ==
  ASSUME NEW s \in States, NEW xt \in Xts
  PROVE  /\ Apply(s, xt) \in States
         /\ Apply(s, xt).nonce = [s.nonce EXCEPT ![xt.from] = @ + 1]
         /\ Apply(s, xt).something = Dispatch(s.something, xt)
<1>1. Dispatch(s.something, xt) \in {Unset} \cup 0..MaxU32
  BY DispatchType DEF States
<1>2. [s.nonce EXCEPT ![xt.from] = @ + 1] \in [Accounts -> Nat]
  BY XtFacts DEF States
<1> QED
  BY <1>1, <1>2 DEF Apply, States

\* The history after an extrinsic.
LEMMA LoggedType ==
  ASSUME NEW l \in [Accounts -> Seq(0..MaxNonce)], NEW xt \in Xts
  PROVE  Logged(l, xt) \in [Accounts -> Seq(0..MaxNonce)]
<1>1. xt.from \in Accounts /\ xt.nonce \in 0..MaxNonce
  BY XtFacts
<1>2. Append(l[xt.from], xt.nonce) \in Seq(0..MaxNonce)
  BY <1>1
<1> QED
  BY <1>1, <1>2 DEF Logged

\* Pending takes extrinsics only.
LEMMA NoteType ==
  ASSUME NEW p \in Seq(Xts), NEW xt \in Xts
  PROVE  Note(p, xt) \in Seq(Xts)
BY DEF Note

-----------------------------------------------------------------------------
(* Types *)

\* Every variable keeps its type; the template value stays a u32 (apis.rs:103-197,
\* pallets/template/src/lib.rs:147-200).
THEOREM TypeCorrect == Spec => []TypeOK
<1>0. << >> \in Seq(Xts) /\ << >> \in Seq(0..MaxNonce)
  OBVIOUS
<1>1. Init => TypeOK
  <2> SUFFICES ASSUME Init PROVE TypeOK
    OBVIOUS
  <2>1. best \in States /\ work \in States
    BY EthRuntimeAssumption DEF Init, States
  <2>2. late \in 0..MaxLate
    BY EthRuntimeAssumption DEF Init
  <2> QED
    BY <1>0, <2>1, <2>2 DEF Init, TypeOK
<1>2. TypeOK /\ [Next]_vars => TypeOK'
  <2> SUFFICES ASSUME TypeOK, [Next]_vars PROVE TypeOK'
    OBVIOUS
  <2> USE DEF TypeOK, chainVars, workVars
  <2>1. CASE InitializeBlock
    BY <2>1 DEF InitializeBlock
  <2>2. ASSUME CommitBlock, late' \in 0..MaxLate PROVE TypeOK'
    BY <1>0, <2>2 DEF CommitBlock, CloseBlock
  <2>3. CASE FinalizeBlock
    BY <2>2, <2>3 DEF FinalizeBlock
  <2>4. CASE DeadlineBlock
    <3>1. late' \in 0..MaxLate
      BY <2>4, EthRuntimeAssumption DEF DeadlineBlock
    <3> QED
      BY <2>2, <2>4, <3>1 DEF DeadlineBlock
  <2>5. CASE AbandonBlock
    <3>1. late' \in 0..MaxLate
      BY <2>5, EthRuntimeAssumption DEF AbandonBlock
    <3> QED
      BY <1>0, <2>5, <3>1 DEF AbandonBlock, CloseBlock
  <2>6. ASSUME NEW xt \in Xts, Submit(xt) PROVE TypeOK'
    BY <2>6 DEF Submit
  <2>7. ASSUME NEW xt \in Xts, ApplyExtrinsic(xt) PROVE TypeOK'
    <3>1. /\ work \in States /\ body \in Seq(Xts) /\ pending \in Seq(Xts)
          /\ workLog \in [Accounts -> Seq(0..MaxNonce)]
      OBVIOUS
    <3>2. Append(body, xt) \in Seq(Xts) /\ Apply(work, xt) \in States
      <4> HIDE DEF TypeOK
      <4>1. Append(body, xt) \in Seq(Xts)
        BY <3>1
      <4> QED
        BY <3>1, <4>1, ApplyType
    <3>4. /\ Note(pending, xt) \in Seq(Xts)
          /\ Logged(workLog, xt) \in [Accounts -> Seq(0..MaxNonce)]
      <4> HIDE DEF TypeOK
      <4> QED
        BY <3>1, NoteType, LoggedType
    <3>3. /\ work' \in {work, Apply(work, xt)} /\ body' \in {body, Append(body, xt)}
          /\ pending' \in {pending, Note(pending, xt)}
          /\ workLog' \in {workLog, Logged(workLog, xt)}
          /\ pool' \in {pool, pool \ {xt}} /\ banned' \in {banned, banned \cup {xt}}
          /\ UNCHANGED <<best, lastBody, currentBlock, log, open, late>>
      BY <2>7, Zenon DEF ApplyExtrinsic
    <3> QED
      BY <3>2, <3>3, <3>4
  <2>8. ASSUME NEW xt \in Xts, ImportBlock(xt) PROVE TypeOK'
    <3>1. << >> \in Seq(Xts) /\ <<xt>> \in Seq(Xts)
      OBVIOUS
    <3> QED
      BY <2>8, <3>1, ApplyType, NoteType, LoggedType DEF ImportBlock, CloseBlock
  <2>9. ASSUME NEW xt \in Xts, Revalidate(xt) PROVE TypeOK'
    BY <2>9 DEF Revalidate
  <2>10. CASE UNCHANGED vars
    BY <2>10 DEF vars
  <2> QED
    BY <2>1, <2>3, <2>4, <2>5, <2>6, <2>7, <2>8, <2>9, <2>10 DEF Next
<1> QED
  BY <1>1, <1>2, PTL DEF Spec

-----------------------------------------------------------------------------
(* Nonces *)

\* A history and a state fit: each account has used the nonces below its own, in
\* order.
InOrder(l, s) ==
  \A a \in Accounts : Len(l[a]) = s.nonce[a] /\ \A i \in DOMAIN l[a] : l[a][i] = i - 1

\* The best block and the block that is being built both fit their histories.
NonceInv == InOrder(log, best) /\ InOrder(workLog, work)

\* An extrinsic that pre_dispatch lets through goes on from its account's nonce.
LEMMA InOrderStep ==
  ASSUME NEW l \in [Accounts -> Seq(0..MaxNonce)], NEW s \in States, NEW xt \in Xts,
         InOrder(l, s), PreDispatch(s, xt)
  PROVE  InOrder(Logged(l, xt), Apply(s, xt))
<1> DEFINE m == Logged(l, xt)
           t == Apply(s, xt)
<1> SUFFICES ASSUME NEW a \in Accounts
             PROVE  Len(m[a]) = t.nonce[a] /\ \A i \in DOMAIN m[a] : m[a][i] = i - 1
  BY DEF InOrder
<1>1. xt.from \in Accounts /\ xt.nonce = s.nonce[xt.from] /\ s.nonce \in [Accounts -> Nat]
  BY XtFacts DEF PreDispatch, States
<1>2. t.nonce = [s.nonce EXCEPT ![xt.from] = @ + 1]
  BY ApplyType
<1>3. /\ Len(l[a]) = s.nonce[a] /\ l[a] \in Seq(0..MaxNonce)
      /\ \A i \in DOMAIN l[a] : l[a][i] = i - 1
  BY DEF InOrder
<1>4. CASE a = xt.from
  <2>1. m[a] = Append(l[a], xt.nonce) /\ t.nonce[a] = s.nonce[a] + 1
    BY <1>1, <1>2, <1>4 DEF Logged
  <2>2. xt.nonce = Len(l[a]) /\ xt.nonce \in 0..MaxNonce
    BY <1>1, <1>3, <1>4, XtFacts
  <2> HIDE DEF m, t
  <2>3. /\ Len(Append(l[a], xt.nonce)) = Len(l[a]) + 1
        /\ \A i \in DOMAIN Append(l[a], xt.nonce) :
             Append(l[a], xt.nonce)[i] = IF i = Len(l[a]) + 1 THEN xt.nonce ELSE l[a][i]
        /\ DOMAIN Append(l[a], xt.nonce) = 1..(Len(l[a]) + 1) /\ DOMAIN l[a] = 1..Len(l[a])
        /\ Len(l[a]) \in Nat
    BY <1>3, <2>2
  <2> QED
    BY <1>3, <2>1, <2>2, <2>3
<1>5. CASE a # xt.from
  BY <1>1, <1>2, <1>3, <1>5 DEF Logged
<1> QED
  BY <1>4, <1>5

\* An account's extrinsics are executed in the order of their nonces, none twice and
\* none left out, whatever the pool holds and whoever builds the blocks
\* (apis.rs:132-144, lib.rs:166-176).
THEOREM NoncesInOrderCorrect == Spec => []NoncesInOrder
<1>1. Init => NonceInv
  BY EthRuntimeAssumption DEF Init, NonceInv, InOrder
<1>2. TypeOK /\ NonceInv /\ [Next]_vars => NonceInv'
  <2> SUFFICES ASSUME TypeOK, NonceInv, [Next]_vars PROVE NonceInv'
    OBVIOUS
  <2>0. /\ best \in States /\ work \in States
        /\ log \in [Accounts -> Seq(0..MaxNonce)] /\ workLog \in [Accounts -> Seq(0..MaxNonce)]
        /\ InOrder(log, best) /\ InOrder(workLog, work)
    BY DEF TypeOK, NonceInv
  <2>1. CASE UNCHANGED <<best, log, work, workLog>>
    BY <2>0, <2>1, Zenon DEF NonceInv
  <2>2. ASSUME CommitBlock PROVE NonceInv'
    BY <2>0, <2>2, Zenon DEF CommitBlock, CloseBlock, NonceInv
  <2>3. CASE AbandonBlock
    <3>1. best' = best /\ log' = log /\ work' = best /\ workLog' = log
      BY <2>3 DEF AbandonBlock, CloseBlock, chainVars
    <3> QED
      BY <2>0, <3>1, Zenon DEF NonceInv
  <2>4. ASSUME NEW xt \in Xts, ApplyExtrinsic(xt) PROVE NonceInv'
    <3>1. best' = best /\ log' = log
      BY <2>4, Zenon DEF ApplyExtrinsic, chainVars
    <3>2. CASE PreDispatch(work, xt)
      <4>1. work' = Apply(work, xt) /\ workLog' = Logged(workLog, xt)
        BY <2>4, <3>2, Zenon DEF ApplyExtrinsic
      <4>2. InOrder(Logged(workLog, xt), Apply(work, xt))
        BY <2>0, <3>2, InOrderStep
      <4> QED
        BY <2>0, <3>1, <4>1, <4>2, Zenon DEF NonceInv
    <3>3. CASE ~PreDispatch(work, xt)
      BY <2>1, <2>4, <3>1, <3>3, Zenon DEF ApplyExtrinsic, workVars
    <3> QED
      BY <3>2, <3>3
  <2>5. ASSUME NEW xt \in Xts, ImportBlock(xt) PROVE NonceInv'
    <3>1. /\ PreDispatch(best, xt)
          /\ best' = Apply(best, xt) /\ log' = Logged(log, xt)
          /\ work' = best' /\ workLog' = log'
      BY <2>5, Zenon DEF ImportBlock, CloseBlock
    <3>2. InOrder(Logged(log, xt), Apply(best, xt))
      BY <2>0, <3>1, InOrderStep
    <3> QED
      BY <3>1, <3>2, Zenon DEF NonceInv
  <2>6. ASSUME NEW xt \in Xts, Submit(xt) \/ Revalidate(xt) PROVE NonceInv'
    BY <2>1, <2>6, Zenon DEF Submit, Revalidate, chainVars, workVars
  <2>7. CASE InitializeBlock
    BY <2>1, <2>7, Zenon DEF InitializeBlock, chainVars, workVars
  <2>8. CASE FinalizeBlock \/ DeadlineBlock
    BY <2>2, <2>8, Zenon DEF FinalizeBlock, DeadlineBlock
  <2>9. CASE UNCHANGED vars
    BY <2>1, <2>9, Zenon DEF vars, chainVars, workVars
  <2> QED
    BY <2>3, <2>4, <2>5, <2>6, <2>7, <2>8, <2>9 DEF Next
<1>3. NonceInv => NoncesInOrder
  BY DEF NonceInv, InOrder, NoncesInOrder
<1> QED
  BY <1>1, <1>2, <1>3, TypeCorrect, PTL DEF Spec

-----------------------------------------------------------------------------
(* The template pallet's value *)

\* A value that a list of extrinsics has changed was set by one of them, or grew.
Explained(old, new, xts) ==
  new # old => \/ \E i \in DOMAIN xts : xts[i].call = "do_something"
               \/ old # Unset /\ new > old

\* One extrinsic more leaves the change explained: cause_error adds one, or stops.
LEMMA ExplainedStep ==
  ASSUME NEW old \in {Unset} \cup 0..MaxU32, NEW new \in {Unset} \cup 0..MaxU32,
         NEW xts \in Seq(Xts), NEW xt \in Xts, Explained(old, new, xts)
  PROVE  Explained(old, Dispatch(new, xt), Append(xts, xt))
<1>1. /\ \A i \in DOMAIN xts : i \in DOMAIN Append(xts, xt) /\ Append(xts, xt)[i] = xts[i]
      /\ Len(xts) + 1 \in DOMAIN Append(xts, xt) /\ Append(xts, xt)[Len(xts) + 1] = xt
  OBVIOUS
<1>2. CASE \E i \in DOMAIN xts : xts[i].call = "do_something"
  BY <1>1, <1>2 DEF Explained
<1>3. CASE xt.call = "do_something"
  BY <1>1, <1>3 DEF Explained
<1>4. CASE /\ ~\E i \in DOMAIN xts : xts[i].call = "do_something"
           /\ xt.call # "do_something"
  <2>1. new = old \/ (old # Unset /\ new > old)
    BY <1>4 DEF Explained
  <2>2. Dispatch(new, xt) = new \/ (new # Unset /\ Dispatch(new, xt) = new + 1)
    <3>1. CASE xt.call = "transact"
      BY <3>1 DEF Dispatch
    <3>2. CASE xt.call = "cause_error"
      BY <3>2 DEF Dispatch, CauseError
    <3> QED
      BY <1>4, <3>1, <3>2, XtFacts
  <2>3. Dispatch(new, xt) # old => old # Unset /\ Dispatch(new, xt) > old
    BY <2>1, <2>2, EthRuntimeAssumption DEF Unset
  <2> QED
    BY <2>3 DEF Explained
<1> QED
  BY <1>2, <1>3, <1>4

\* The block that is being built explains its value.
SomethingInv == Explained(best.something, work.something, body)

\* From block to block, Something changes by a do_something or grows by cause_error,
\* whatever the blocks hold (pallets/template/src/lib.rs:184-200).
THEOREM SomethingIsExplainedCorrect == Spec => SomethingIsExplained
<1> DEFINE Step == Explained(best.something, best'.something, lastBody')
<1>1. Init => SomethingInv
  BY DEF Init, SomethingInv, Explained
<1>2. TypeOK /\ SomethingInv /\ [Next]_vars => SomethingInv' /\ (UNCHANGED vars \/ Step)
  <2> SUFFICES ASSUME TypeOK, SomethingInv, [Next]_vars
               PROVE  SomethingInv' /\ (UNCHANGED vars \/ Step)
    OBVIOUS
  <2>0. /\ best \in States /\ work \in States /\ body \in Seq(Xts)
        /\ best.something \in {Unset} \cup 0..MaxU32
        /\ work.something \in {Unset} \cup 0..MaxU32
        /\ Explained(best.something, work.something, body)
    BY DEF TypeOK, SomethingInv, States
  <2>1. \A v, xts : Explained(v, v, xts)
    BY DEF Explained
  <2>2. ASSUME UNCHANGED <<best, work, body>> PROVE SomethingInv' /\ Step
    <3>1. Step
      BY <2>1, <2>2, Zenon
    <3>2. SomethingInv'
      BY <2>0, <2>2, Zenon DEF SomethingInv
    <3> QED
      BY <3>1, <3>2
  <2>3. ASSUME CloseBlock PROVE SomethingInv'
    BY <2>1, <2>3, Zenon DEF CloseBlock, SomethingInv
  <2>4. ASSUME CommitBlock PROVE SomethingInv' /\ Step
    BY <2>0, <2>3, <2>4, Zenon DEF CommitBlock
  <2>5. CASE AbandonBlock
    BY <2>1, <2>3, <2>5, Zenon DEF AbandonBlock, chainVars
  <2>6. ASSUME NEW xt \in Xts, ApplyExtrinsic(xt) PROVE SomethingInv' /\ Step
    <3>1. best' = best
      BY <2>6, Zenon DEF ApplyExtrinsic, chainVars
    <3>2. CASE PreDispatch(work, xt)
      <4>1. work' = Apply(work, xt) /\ body' = Append(body, xt)
        BY <2>6, <3>2, Zenon DEF ApplyExtrinsic
      <4>2. Explained(best.something, Apply(work, xt).something, Append(body, xt))
        <5>1. Apply(work, xt).something = Dispatch(work.something, xt)
          BY <2>0, ApplyType
        <5> QED
          BY <2>0, <5>1, ExplainedStep, Zenon
      <4> QED
        BY <2>1, <3>1, <4>1, <4>2, Zenon DEF SomethingInv
    <3>3. CASE ~PreDispatch(work, xt)
      BY <2>2, <2>6, <3>1, <3>3, Zenon DEF ApplyExtrinsic, workVars
    <3> QED
      BY <3>2, <3>3
  <2>7. ASSUME NEW xt \in Xts, ImportBlock(xt) PROVE SomethingInv' /\ Step
    <3>1. best' = Apply(best, xt) /\ lastBody' = <<xt>> /\ CloseBlock
      BY <2>7, Zenon DEF ImportBlock
    <3>2. << >> \in Seq(Xts) /\ Append(<< >>, xt) = <<xt>>
      OBVIOUS
    <3>3. Explained(best.something, Apply(best, xt).something, <<xt>>)
      <4>1. Apply(best, xt).something = Dispatch(best.something, xt)
        BY <2>0, ApplyType
      <4> QED
        BY <2>0, <2>1, <3>2, <4>1, ExplainedStep, Zenon
    <3> QED
      BY <2>3, <3>1, <3>3, Zenon
  <2>8. ASSUME NEW xt \in Xts, Submit(xt) \/ Revalidate(xt) PROVE SomethingInv' /\ Step
    BY <2>2, <2>8, Zenon DEF Submit, Revalidate, chainVars, workVars
  <2>9. CASE InitializeBlock
    BY <2>2, <2>9, Zenon DEF InitializeBlock, chainVars, workVars
  <2>10. CASE FinalizeBlock \/ DeadlineBlock
    BY <2>4, <2>10, Zenon DEF FinalizeBlock, DeadlineBlock
  <2>11. CASE UNCHANGED vars
    BY <2>2, <2>11, Zenon DEF vars, chainVars, workVars
  <2> HIDE DEF Step
  <2> QED
    BY <2>5, <2>6, <2>7, <2>8, <2>9, <2>10, <2>11 DEF Next
<1>3. (UNCHANGED vars \/ Step)
        => [best'.something # best.something =>
              \/ \E i \in DOMAIN lastBody' : lastBody'[i].call = "do_something"
              \/ best.something # Unset /\ best'.something > best.something]_vars
  BY DEF Explained
<1> QED
  BY <1>1, <1>2, <1>3, TypeCorrect, PTL DEF Spec, SomethingIsExplained

-----------------------------------------------------------------------------
(* extrinsic_filter *)

\* The recursion of extrinsic_filter, place by place.
LEMMA FilterRecursion ==
  ASSUME NEW xts \in Seq(Xts)
  PROVE  \E kept \in [0..Len(xts) -> Seq(Xts)] :
           /\ ExtrinsicFilter(xts) = kept[Len(xts)]
           /\ kept[0] = << >>
           /\ \A i \in 1..Len(xts) : kept[i] = IF xts[i].call = "transact"
                                                 THEN Append(kept[i-1], xts[i]) ELSE kept[i-1]
<1> DEFINE n == Len(xts)
           F(k) == [i \in 0..n |->
                      IF i = 0 THEN << >>
                      ELSE IF xts[i].call = "transact" THEN Append(k[i-1], xts[i]) ELSE k[i-1]]
           step == [i \in 1..n |-> [v \in Seq(Xts) |->
                      IF xts[i].call = "transact" THEN Append(v, xts[i]) ELSE v]]
<1>1. ExtrinsicFilter(xts) = (CHOOSE k : k = F(k))[n]
  BY DEF ExtrinsicFilter
<1>2. n \in Nat /\ << >> \in Seq(Xts) /\ \A i \in 1..n : xts[i] \in Xts
  OBVIOUS
<1>3. step \in [1..n -> [Seq(Xts) -> Seq(Xts)]]
  <2>1. \A i \in 1..n, v \in Seq(Xts) : Append(v, xts[i]) \in Seq(Xts)
    BY <1>2
  <2> QED
    BY <2>1
<1>4. PICK g : g \in Runs(n, Seq(Xts), << >>, step)
  <2> HIDE DEF n, step
  <2> QED
    BY <1>2, <1>3, PrefixRecursion, Zenon
<1>5. ASSUME NEW i \in 1..n
      PROVE  g[i] = IF xts[i].call = "transact" THEN Append(g[i-1], xts[i]) ELSE g[i-1]
  <2>1. i - 1 \in 0..n
    BY <1>2
  <2>2. g[i-1] \in Seq(Xts) /\ g[i] = step[i][g[i-1]]
    BY <1>4, <2>1 DEF Runs
  <2> QED
    BY <2>2
<1>6. g[0] = << >> /\ g \in [0..n -> Seq(Xts)]
  BY <1>4 DEF Runs
<1>7. g = F(g)
  <2>1. ASSUME NEW i \in 0..n PROVE g[i] = F(g)[i]
    <3>1. CASE i = 0
      BY <1>6, <2>1, <3>1
    <3>2. CASE i # 0
      <4>1. i \in 1..n
        BY <1>2, <2>1, <3>2
      <4> QED
        BY <1>5, <3>2, <4>1
    <3> QED
      BY <3>1, <3>2
  <2>2. F(g) = [i \in 0..n |-> F(g)[i]]
    OBVIOUS
  <2> HIDE DEF F
  <2> QED
    BY <1>6, <2>1, <2>2
<1> DEFINE c == CHOOSE k : k = F(k)
<1>8. c = F(c)
  <2> HIDE DEF F
  <2> QED BY <1>7
<1> HIDE DEF c
<1>9. c[n] = g[n]
  <2> DEFINE S == {i \in 0..n : c[i] = g[i]}
  <2>1. 0 \in S
    BY <1>2, <1>6, <1>8
  <2>2. ASSUME NEW i \in 1..n, i - 1 \in S PROVE i \in S
    <3>1. i \in 0..n /\ i # 0 /\ c[i-1] = g[i-1]
      BY <1>2, <2>2
    <3>2. c[i] = IF xts[i].call = "transact" THEN Append(c[i-1], xts[i]) ELSE c[i-1]
      BY <1>8, <3>1
    <3> QED
      BY <1>5, <3>1, <3>2
  <2>3. 0..n \subseteq S
    <3> HIDE DEF S, n
    <3> QED BY <1>2, <2>1, <2>2, PrefixInduction
  <2> QED
    BY <1>2, <2>3
<1>10. ExtrinsicFilter(xts) = g[n]
  BY <1>1, <1>9 DEF c
<1> HIDE DEF n
<1>11. n = Len(xts)
  BY DEF n
<1> QED
  BY <1>5, <1>6, <1>10, <1>11

\* extrinsic_filter picks nothing from an empty block.
LEMMA FilterEmpty == ExtrinsicFilter(<< >>) = << >>
<1>1. << >> \in Seq(Xts) /\ Len(<< >>) = 0
  OBVIOUS
<1> QED
  BY <1>1, FilterRecursion

\* Of one extrinsic more it picks what transact appends to Pending.
LEMMA FilterAppend ==
  ASSUME NEW s \in Seq(Xts), NEW x \in Xts
  PROVE  ExtrinsicFilter(Append(s, x)) = Note(ExtrinsicFilter(s), x)
<1> DEFINE t == Append(s, x)
           n == Len(s)
<1>1. /\ t \in Seq(Xts) /\ n \in Nat /\ Len(t) = n + 1 /\ t[n+1] = x
      /\ \A i \in 1..n : t[i] = s[i]
  OBVIOUS
<1>2. PICK f \in [0..n -> Seq(Xts)] :
        /\ ExtrinsicFilter(s) = f[n]
        /\ f[0] = << >>
        /\ \A i \in 1..n : f[i] = IF s[i].call = "transact"
                                    THEN Append(f[i-1], s[i]) ELSE f[i-1]
  BY FilterRecursion
<1>3. PICK g \in [0..Len(t) -> Seq(Xts)] :
        /\ ExtrinsicFilter(t) = g[Len(t)]
        /\ g[0] = << >>
        /\ \A i \in 1..Len(t) : g[i] = IF t[i].call = "transact"
                                        THEN Append(g[i-1], t[i]) ELSE g[i-1]
  <2> HIDE DEF t
  <2> QED BY <1>1, FilterRecursion, Zenon
<1>4. f[n] = g[n]
  <2> HIDE DEF t, n
  <2> DEFINE S == {i \in 0..n : f[i] = g[i]}
  <2>1. 0 \in S
    BY <1>1, <1>2, <1>3
  <2>2. ASSUME NEW i \in 1..n, i - 1 \in S PROVE i \in S
    <3>1. i \in 0..n /\ i \in 1..Len(t) /\ f[i-1] = g[i-1] /\ t[i] = s[i]
      BY <1>1, <2>2
    <3>2. f[i] = IF s[i].call = "transact" THEN Append(f[i-1], s[i]) ELSE f[i-1]
      BY <1>2
    <3>3. g[i] = IF t[i].call = "transact" THEN Append(g[i-1], t[i]) ELSE g[i-1]
      BY <1>3, <3>1
    <3> QED
      BY <3>1, <3>2, <3>3
  <2>3. 0..n \subseteq S
    <3> HIDE DEF S
    <3> QED BY <1>1, <2>1, <2>2, PrefixInduction
  <2> QED
    BY <1>1, <2>3
<1>5. n + 1 \in 1..(n+1) /\ (n + 1) - 1 = n
  BY <1>1
<1>6. g[n+1] = IF x.call = "transact" THEN Append(g[n], x) ELSE g[n]
  <2> HIDE DEF t, n
  <2> QED BY <1>1, <1>3, <1>5
<1>7. ExtrinsicFilter(t) = g[n+1]
  BY <1>1, <1>3
<1> QED
  BY <1>2, <1>4, <1>6, <1>7 DEF Note, IsSelfContained

\* The block that is being built, and the best one, agree with pallet_ethereum.
FilterInv == ExtrinsicFilter(body) = pending /\ ExtrinsicFilter(lastBody) = currentBlock

\* What extrinsic_filter picks from the best block's extrinsics are the transactions
\* of CurrentBlock in their order, for blocks of any length (apis.rs:691-718).
THEOREM FilterShowsCurrentBlockCorrect == Spec => []FilterShowsCurrentBlock
<1>1. Init => FilterInv
  BY FilterEmpty DEF Init, FilterInv
<1>2. TypeOK /\ FilterInv /\ [Next]_vars => FilterInv'
  <2> SUFFICES ASSUME TypeOK, FilterInv, [Next]_vars PROVE FilterInv'
    OBVIOUS
  <2>0. /\ body \in Seq(Xts)
        /\ ExtrinsicFilter(body) = pending /\ ExtrinsicFilter(lastBody) = currentBlock
    BY DEF TypeOK, FilterInv
  <2>1. CASE UNCHANGED <<lastBody, currentBlock, body, pending>>
    BY <2>0, <2>1, Zenon DEF FilterInv
  <2>2. ASSUME CloseBlock, ExtrinsicFilter(lastBody') = currentBlock' PROVE FilterInv'
    BY <2>2, FilterEmpty, Zenon DEF CloseBlock, FilterInv
  <2>3. ASSUME CommitBlock PROVE FilterInv'
    BY <2>0, <2>2, <2>3, Zenon DEF CommitBlock
  <2>4. CASE AbandonBlock
    BY <2>0, <2>2, <2>4, Zenon DEF AbandonBlock, chainVars
  <2>5. ASSUME NEW xt \in Xts, ApplyExtrinsic(xt) PROVE FilterInv'
    <3>1. lastBody' = lastBody /\ currentBlock' = currentBlock
      BY <2>5, Zenon DEF ApplyExtrinsic, chainVars
    <3>2. CASE PreDispatch(work, xt)
      <4>1. body' = Append(body, xt) /\ pending' = Note(pending, xt)
        BY <2>5, <3>2, Zenon DEF ApplyExtrinsic
      <4>2. ExtrinsicFilter(Append(body, xt)) = Note(pending, xt)
        BY <2>0, FilterAppend, Zenon
      <4> QED
        BY <2>0, <3>1, <4>1, <4>2, Zenon DEF FilterInv
    <3>3. CASE ~PreDispatch(work, xt)
      BY <2>1, <2>5, <3>1, <3>3, Zenon DEF ApplyExtrinsic, workVars
    <3> QED
      BY <3>2, <3>3
  <2>6. ASSUME NEW xt \in Xts, ImportBlock(xt) PROVE FilterInv'
    <3>1. lastBody' = <<xt>> /\ currentBlock' = Note(<< >>, xt) /\ CloseBlock
      BY <2>6, Zenon DEF ImportBlock
    <3>2. << >> \in Seq(Xts) /\ Append(<< >>, xt) = <<xt>>
      OBVIOUS
    <3>3. ExtrinsicFilter(<<xt>>) = Note(<< >>, xt)
      BY <3>2, FilterAppend, FilterEmpty, Zenon
    <3> QED
      BY <2>2, <3>1, <3>3, Zenon
  <2>7. ASSUME NEW xt \in Xts, Submit(xt) \/ Revalidate(xt) PROVE FilterInv'
    BY <2>1, <2>7, Zenon DEF Submit, Revalidate, chainVars, workVars
  <2>8. CASE InitializeBlock
    BY <2>1, <2>8, Zenon DEF InitializeBlock, chainVars, workVars
  <2>9. CASE FinalizeBlock \/ DeadlineBlock
    BY <2>3, <2>9, Zenon DEF FinalizeBlock, DeadlineBlock
  <2>10. CASE UNCHANGED vars
    BY <2>1, <2>10, Zenon DEF vars, chainVars, workVars
  <2> QED
    BY <2>4, <2>5, <2>6, <2>7, <2>8, <2>9, <2>10 DEF Next
<1>3. FilterInv => FilterShowsCurrentBlock
  BY DEF FilterInv, FilterShowsCurrentBlock
<1> QED
  BY <1>1, <1>2, <1>3, TypeCorrect, PTL DEF Spec

-----------------------------------------------------------------------------
(* pending_block *)

\* What pending_block carries along the list of the pool's extrinsics.
Progress == [state : States, txs : Seq(Xts)]

\* One extrinsic of that list.
PendingStep(d, xt) ==
  IF PreDispatch(d.state, xt)
    THEN [state |-> Apply(d.state, xt), txs |-> Note(d.txs, xt)]
    ELSE d

\* A step leads from progress to progress.
LEMMA PendingStepType ==
  ASSUME NEW d \in Progress, NEW xt \in Xts
  PROVE  PendingStep(d, xt) \in Progress
<1>1. d.state \in States /\ d.txs \in Seq(Xts)
  BY DEF Progress
<1>2. Apply(d.state, xt) \in States /\ Note(d.txs, xt) \in Seq(Xts)
  BY <1>1, ApplyType, NoteType
<1>3. [state |-> Apply(d.state, xt), txs |-> Note(d.txs, xt)] \in Progress
  BY <1>2 DEF Progress
<1> QED
  BY <1>3, Zenon DEF PendingStep

\* The steps can be carried out along any list.
LEMMA PendingRuns ==
  ASSUME NEW d0 \in Progress, NEW xts \in Seq(Xts)
  PROVE  \E g \in [0..Len(xts) -> Progress] :
           g[0] = d0 /\ \A i \in 1..Len(xts) : g[i] = PendingStep(g[i-1], xts[i])
<1> DEFINE n == Len(xts)
           step == [i \in 1..n |-> [v \in Progress |-> PendingStep(v, xts[i])]]
<1>1. n \in Nat /\ \A i \in 1..n : xts[i] \in Xts
  OBVIOUS
<1>2. step \in [1..n -> [Progress -> Progress]]
  BY <1>1, PendingStepType
<1>3. PICK g : g \in Runs(n, Progress, d0, step)
  <2> HIDE DEF n, step
  <2> QED
    BY <1>1, <1>2, PrefixRecursion, Zenon
<1>4. ASSUME NEW i \in 1..n PROVE g[i] = PendingStep(g[i-1], xts[i])
  <2>1. i - 1 \in 0..n
    BY <1>1
  <2>2. g[i-1] \in Progress /\ g[i] = step[i][g[i-1]]
    BY <1>3, <2>1 DEF Runs
  <2> QED
    BY <2>2
<1> QED
  BY <1>3, <1>4 DEF Runs

\* The recursion of pending_block, place by place.
LEMMA PendingRecursion ==
  ASSUME NEW s \in States, NEW xts \in Seq(Xts)
  PROVE  \E done \in [0..Len(xts) -> Progress] :
           /\ PendingBlock(s, xts) = done[Len(xts)].txs
           /\ done[0] = [state |-> s, txs |-> << >>]
           /\ \A i \in 1..Len(xts) : done[i] = PendingStep(done[i-1], xts[i])
<1> DEFINE n == Len(xts)
           v0 == [state |-> s, txs |-> << >>]
           F(k) == [i \in 0..n |-> IF i = 0 THEN v0 ELSE PendingStep(k[i-1], xts[i])]
<1>1. PendingBlock(s, xts) = (CHOOSE k : k = F(k))[n].txs
  BY DEF PendingBlock, PendingStep
<1>2. n \in Nat /\ \A i \in 1..n : xts[i] \in Xts
  OBVIOUS
<1>3. v0 \in Progress
  <2>1. << >> \in Seq(Xts)
    OBVIOUS
  <2> QED
    BY <2>1 DEF Progress
<1>5. PICK g \in [0..n -> Progress] :
        g[0] = v0 /\ \A i \in 1..n : g[i] = PendingStep(g[i-1], xts[i])
  <2> HIDE DEF v0
  <2> QED
    BY <1>3, PendingRuns
<1>6. ASSUME NEW i \in 1..n PROVE g[i] = PendingStep(g[i-1], xts[i])
  BY <1>5
<1> HIDE DEF v0
<1>7. g = F(g)
  <2>1. ASSUME NEW i \in 0..n PROVE g[i] = F(g)[i]
    <3>1. CASE i = 0
      BY <1>5, <2>1, <3>1
    <3>2. CASE i # 0
      <4>1. i \in 1..n
        BY <1>2, <2>1, <3>2
      <4> QED
        BY <1>6, <3>2, <4>1
    <3> QED
      BY <3>1, <3>2
  <2>2. F(g) = [i \in 0..n |-> F(g)[i]]
    OBVIOUS
  <2> HIDE DEF F
  <2> QED
    BY <2>1, <2>2
<1> DEFINE c == CHOOSE k : k = F(k)
<1>8. c = F(c)
  <2> HIDE DEF F
  <2> QED BY <1>7
<1> HIDE DEF c
<1>9. c[n] = g[n]
  <2> DEFINE S == {i \in 0..n : c[i] = g[i]}
  <2>1. 0 \in S
    BY <1>2, <1>5, <1>8
  <2>2. ASSUME NEW i \in 1..n, i - 1 \in S PROVE i \in S
    <3>1. i \in 0..n /\ i # 0 /\ c[i-1] = g[i-1]
      BY <1>2, <2>2
    <3>2. c[i] = PendingStep(c[i-1], xts[i])
      BY <1>8, <3>1
    <3> QED
      BY <1>6, <3>1, <3>2
  <2>3. 0..n \subseteq S
    <3> HIDE DEF S, n
    <3> QED BY <1>2, <2>1, <2>2, PrefixInduction
  <2> QED
    BY <1>2, <2>3
<1>10. PendingBlock(s, xts) = g[n].txs
  BY <1>1, <1>9 DEF c
<1> HIDE DEF n
<1>11. n = Len(xts)
  BY DEF n
<1> QED
  BY <1>5, <1>6, <1>10, <1>11 DEF v0

\* The places up to k where a sends.
Sent(txs, k, a) == {j \in 1..k : txs[j].from = a}

\* There are finitely many.
LEMMA SentFinite ==
  ASSUME NEW txs, NEW k \in Nat, NEW a
  PROVE  IsFiniteSet(Sent(txs, k, a)) /\ Cardinality(Sent(txs, k, a)) \in Nat
<1>1. IsFiniteSet(1..k)
  BY FS_Interval
<1>2. Sent(txs, k, a) \subseteq 1..k
  BY DEF Sent
<1>3. IsFiniteSet(Sent(txs, k, a))
  BY <1>1, <1>2, FS_Subset
<1> QED
  BY <1>3, FS_CardinalityType

\* The transactions go on from the nonces of s, and d.state has counted them.
Continues(s, d) ==
  /\ \A a \in Ethereum :
       d.state.nonce[a] = s.nonce[a] + Cardinality(Sent(d.txs, Len(d.txs), a))
  /\ \A i \in 1..Len(d.txs) :
       d.txs[i].nonce = s.nonce[d.txs[i].from]
                          + Cardinality(Sent(d.txs, i - 1, d.txs[i].from))

\* A step of pending_block goes on: an extrinsic that is refused changes nothing, one
\* of a signer moves no Ethereum nonce, and a transaction has its sender's next nonce.
LEMMA ContinuesStep ==
  ASSUME NEW s \in States, NEW d \in Progress, NEW xt \in Xts, Continues(s, d)
  PROVE  Continues(s, PendingStep(d, xt))
<1>0. /\ d.state \in States /\ d.txs \in Seq(Xts) /\ Len(d.txs) \in Nat
      /\ s.nonce \in [Accounts -> Nat] /\ d.state.nonce \in [Accounts -> Nat]
      /\ Ethereum \subseteq Accounts
  BY DEF Progress, States, Accounts
<1>1. CASE ~PreDispatch(d.state, xt)
  BY <1>1, Zenon DEF PendingStep
<1>2. CASE PreDispatch(d.state, xt)
  <2> DEFINE e == PendingStep(d, xt)
             n == Len(d.txs)
  <2>1. e = [state |-> Apply(d.state, xt), txs |-> Note(d.txs, xt)]
    BY <1>2, Zenon DEF PendingStep
  <2>2. e.txs = Note(d.txs, xt) /\ e.state.nonce = [d.state.nonce EXCEPT ![xt.from] = @ + 1]
    <3>1. e.txs = Note(d.txs, xt) /\ e.state = Apply(d.state, xt)
      BY <2>1
    <3>2. Apply(d.state, xt).nonce = [d.state.nonce EXCEPT ![xt.from] = @ + 1]
      BY <1>0, ApplyType
    <3> QED
      BY <3>1, <3>2, Zenon
  <2>3. xt.from \in Accounts /\ xt.nonce = d.state.nonce[xt.from]
    BY <1>2, XtFacts DEF PreDispatch
  <2> HIDE DEF e
  <2>4. CASE xt.call # "transact"
    <3>1. e.txs = d.txs
      BY <2>2, <2>4 DEF Note, IsSelfContained
    <3>2. xt.from \notin Ethereum
      BY <2>4, XtFacts, EthRuntimeAssumption
    <3>3. \A a \in Ethereum : e.state.nonce[a] = d.state.nonce[a]
      BY <1>0, <2>2, <2>3, <3>2
    <3>4. Continues(s, e)
      BY <3>1, <3>3 DEF Continues
    <3> QED
      BY <3>4 DEF e
  <2>5. CASE xt.call = "transact"
    <3>1. e.txs = Append(d.txs, xt)
      BY <2>2, <2>5 DEF Note, IsSelfContained
    <3>2. /\ Len(e.txs) = n + 1 /\ e.txs[n+1] = xt /\ n \in Nat
          /\ \A j \in 1..n : e.txs[j] = d.txs[j]
      BY <1>0, <3>1
    <3>3. xt.from \in Ethereum
      BY <2>5, XtFacts
    <3>4. ASSUME NEW k \in 0..n, NEW a PROVE Sent(e.txs, k, a) = Sent(d.txs, k, a)
      BY <3>2, <3>4 DEF Sent
    <3>5. ASSUME NEW a \in Ethereum
          PROVE  e.state.nonce[a] = s.nonce[a] + Cardinality(Sent(e.txs, n + 1, a))
      <4>1. /\ IsFiniteSet(Sent(d.txs, n, a)) /\ Cardinality(Sent(d.txs, n, a)) \in Nat
            /\ n + 1 \notin Sent(d.txs, n, a)
        <5>1. n + 1 \notin Sent(d.txs, n, a)
          BY <3>2 DEF Sent
        <5> QED
          BY <3>2, <5>1, SentFinite
      <4>2. d.state.nonce[a] = s.nonce[a] + Cardinality(Sent(d.txs, n, a))
        BY <3>5 DEF Continues
      <4>3. CASE a = xt.from
        <5>1. Sent(e.txs, n + 1, a) = Sent(d.txs, n, a) \cup {n + 1}
          BY <3>2, <4>3 DEF Sent
        <5>2. Cardinality(Sent(e.txs, n + 1, a)) = Cardinality(Sent(d.txs, n, a)) + 1
          BY <4>1, <5>1, FS_AddElement
        <5>3. e.state.nonce[a] = d.state.nonce[a] + 1
          BY <1>0, <2>2, <2>3, <3>5, <4>3
        <5>4. s.nonce[a] \in Nat
          BY <1>0, <3>5
        <5> QED
          BY <4>1, <4>2, <5>2, <5>3, <5>4
      <4>4. CASE a # xt.from
        <5>1. Sent(e.txs, n + 1, a) = Sent(d.txs, n, a)
          BY <3>2, <4>4 DEF Sent
        <5>2. e.state.nonce[a] = d.state.nonce[a]
          BY <1>0, <2>2, <2>3, <3>5, <4>4
        <5> QED
          BY <4>2, <5>1, <5>2
      <4> QED
        BY <4>3, <4>4
    <3>6. ASSUME NEW i \in 1..(n+1)
          PROVE  e.txs[i].nonce = s.nonce[e.txs[i].from]
                                    + Cardinality(Sent(e.txs, i - 1, e.txs[i].from))
      <4>1. i - 1 \in 0..n
        BY <3>2, <3>6
      <4>2. CASE i \in 1..n
        <5>1. d.txs[i].nonce = s.nonce[d.txs[i].from]
                                 + Cardinality(Sent(d.txs, i - 1, d.txs[i].from))
          BY <4>2 DEF Continues
        <5>2. Sent(e.txs, i - 1, d.txs[i].from) = Sent(d.txs, i - 1, d.txs[i].from)
          BY <3>4, <4>1
        <5>3. e.txs[i] = d.txs[i]
          BY <3>2, <4>2
        <5> QED
          BY <5>1, <5>2, <5>3, Zenon
      <4>3. CASE i = n + 1
        <5>1. xt.nonce = s.nonce[xt.from] + Cardinality(Sent(d.txs, n, xt.from))
          BY <2>3, <3>3 DEF Continues
        <5>2. i - 1 = n
          BY <3>2, <4>3
        <5> QED
          BY <3>2, <3>4, <4>1, <4>3, <5>1, <5>2
      <4> QED
        BY <3>2, <3>6, <4>2, <4>3
    <3>7. Continues(s, e)
      BY <3>2, <3>5, <3>6 DEF Continues
    <3> QED
      BY <3>7 DEF e
  <2> QED
    BY <2>4, <2>5
<1> QED
  BY <1>1, <1>2

\* The transactions of pending_block, for any state and any list of extrinsics: each
\* has the nonce that its sender's earlier ones in the block leave.
LEMMA PendingBlockContinues ==
  ASSUME NEW s \in States, NEW xts \in Seq(Xts)
  PROVE  LET txs == PendingBlock(s, xts) IN
           /\ txs \in Seq(Xts)
           /\ \A i \in DOMAIN txs :
                txs[i].nonce = s.nonce[txs[i].from]
                                 + Cardinality({j \in 1 .. (i - 1) : txs[j].from = txs[i].from})
<1> DEFINE n == Len(xts)
<1>1. PICK done \in [0..n -> Progress] :
        /\ PendingBlock(s, xts) = done[n].txs
        /\ done[0] = [state |-> s, txs |-> << >>]
        /\ \A i \in 1..n : done[i] = PendingStep(done[i-1], xts[i])
  BY PendingRecursion
<1>2. n \in Nat /\ \A i \in 1..n : xts[i] \in Xts
  OBVIOUS
<1> HIDE DEF n
<1> DEFINE S == {i \in 0..n : Continues(s, done[i])}
<1>3. 0 \in S
  <2>1. \A a \in Ethereum : s.nonce[a] \in Nat
    BY DEF States, Accounts
  <2>2. \A a : Sent(<< >>, 0, a) = {}
    BY DEF Sent
  <2>3. Len(<< >>) = 0 /\ Cardinality({}) = 0
    BY FS_EmptySet
  <2>4. done[0].state = s /\ done[0].txs = << >>
    BY <1>1
  <2>5. Continues(s, done[0])
    <3>1. ASSUME NEW a \in Ethereum
          PROVE  s.nonce[a] = s.nonce[a] + Cardinality(Sent(<< >>, Len(<< >>), a))
      <4>1. Cardinality(Sent(<< >>, Len(<< >>), a)) = 0
        BY <2>2, <2>3, Zenon
      <4>2. s.nonce[a] \in Nat
        BY <2>1, <3>1
      <4> QED
        BY <4>1, <4>2
    <3>2. 1..Len(<< >>) = {}
      BY <2>3
    <3> QED
      BY <2>4, <3>1, <3>2, Zenon DEF Continues
  <2> QED
    BY <1>2, <2>5
<1>4. ASSUME NEW i \in 1..n, i - 1 \in S PROVE i \in S
  <2>1. i \in 0..n /\ i - 1 \in 0..n /\ Continues(s, done[i-1])
    BY <1>2, <1>4
  <2>2. done[i-1] \in Progress /\ xts[i] \in Xts /\ done[i] = PendingStep(done[i-1], xts[i])
    BY <1>1, <1>2, <2>1
  <2>3. Continues(s, PendingStep(done[i-1], xts[i]))
    BY <2>1, <2>2, ContinuesStep, Zenon
  <2> QED
    BY <2>1, <2>2, <2>3, Zenon
<1>5. 0..n \subseteq S
  <2> HIDE DEF S
  <2> QED BY <1>2, <1>3, <1>4, PrefixInduction
<1>6. n \in 0..n
  BY <1>2
<1>7. Continues(s, done[n]) /\ done[n].txs \in Seq(Xts)
  BY <1>1, <1>5, <1>6 DEF Progress
<1> DEFINE txs == done[n].txs
<1>8. /\ DOMAIN txs = 1..Len(txs)
      /\ \A i \in 1..Len(txs) :
           txs[i].nonce = s.nonce[txs[i].from] + Cardinality(Sent(txs, i - 1, txs[i].from))
  BY <1>7 DEF Continues
<1>9. PendingBlock(s, xts) = txs /\ txs \in Seq(Xts)
  BY <1>1, <1>7
<1> HIDE DEF txs
<1> QED
  BY <1>8, <1>9, Zenon DEF Sent

\* The pool is finite, so that it can be listed.
LEMMA PoolFinite == Spec => []IsFiniteSet(pool)
<1>1. Init => IsFiniteSet(pool)
  BY FS_EmptySet DEF Init
<1>2. IsFiniteSet(pool) /\ [Next]_vars => IsFiniteSet(pool)'
  <2> SUFFICES ASSUME IsFiniteSet(pool), [Next]_vars PROVE IsFiniteSet(pool')
    OBVIOUS
  <2>1. pool' \subseteq pool \/ \E xt \in Xts : pool' = pool \cup {xt}
    <3>1. CASE UNCHANGED vars
      BY <3>1 DEF vars
    <3>2. CASE InitializeBlock \/ AbandonBlock
      BY <3>2 DEF InitializeBlock, AbandonBlock
    <3>3. CASE FinalizeBlock \/ DeadlineBlock
      BY <3>3 DEF FinalizeBlock, DeadlineBlock, CommitBlock
    <3>4. ASSUME NEW xt \in Xts, Submit(xt) PROVE pool' = pool \cup {xt}
      BY <3>4 DEF Submit
    <3>5. ASSUME NEW xt \in Xts, ApplyExtrinsic(xt) PROVE pool' \subseteq pool
      BY <3>5, Zenon DEF ApplyExtrinsic
    <3>6. ASSUME NEW xt \in Xts, ImportBlock(xt) \/ Revalidate(xt) PROVE pool' \subseteq pool
      BY <3>6, Zenon DEF ImportBlock, Revalidate
    <3> QED
      BY <3>1, <3>2, <3>3, <3>4, <3>5, <3>6 DEF Next
  <2> QED
    BY <2>1, FS_Subset, FS_AddElement
<1> QED
  BY <1>1, <1>2, PTL DEF Spec

\* The pending block the Ethereum RPC shows could follow the best block, however long
\* the pool is and in whatever order it lists stale, early and rival extrinsics
\* (apis.rs:726-739).
THEOREM PendingBlockCouldFollowCorrect == Spec => []PendingBlockCouldFollow
<1>1. TypeOK /\ IsFiniteSet(pool) => PendingBlockCouldFollow
  <2> SUFFICES ASSUME TypeOK, IsFiniteSet(pool), NEW xts \in SetToSeqs(pool)
               PROVE  LET txs == PendingBlock(best, xts) IN
                        \A i \in DOMAIN txs :
                          txs[i].nonce = best.nonce[txs[i].from]
                            + Cardinality({j \in 1 .. (i - 1) : txs[j].from = txs[i].from})
    BY Zenon DEF PendingBlockCouldFollow
  <2>1. best \in States /\ pool \subseteq Xts
    BY DEF TypeOK
  <2>2. Cardinality(pool) \in Nat
    BY FS_CardinalityType
  <2>3. xts \in [1..Cardinality(pool) -> pool]
    BY DEF SetToSeqs
  <2>4. xts \in Seq(Xts)
    BY <2>1, <2>2, <2>3
  <2> QED
    BY <2>1, <2>4, PendingBlockContinues, Zenon
<1> QED
  BY <1>1, TypeCorrect, PoolFinite, PTL
=============================================================================
