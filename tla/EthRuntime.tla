----------------------------- MODULE EthRuntime -----------------------------
(***************************************************************************)
(* Extrinsics in the runtime (runtime/src/apis.rs): an Ethereum transaction *)
(* travels as an unsigned, self-contained `transact` extrinsic, a call of   *)
(* the template pallet as a signed one.  Both are validated when they come  *)
(* to the pool, and again, on a state that may be another one by then, when *)
(* a block takes them up; between the two, blocks of other authors are      *)
(* imported and proposals are given up.                                     *)
(*                                                                          *)
(* Executive, the pool and pallet_ethereum are not this repository's code;  *)
(* they are modelled from how the runtime APIs use them.  Fees, gas and what*)
(* a contract does are left out: a transaction that reverts is included and *)
(* uses its nonce like one that does not.                                   *)
(***************************************************************************)
EXTENDS Integers, FiniteSets, Sequences, SequencesExt

CONSTANTS
  Ethereum,    \* Ethereum senders (H160)
  Signers,     \* accounts that sign calls of the template pallet
  Payloads,    \* what tells apart two Ethereum transactions of one nonce
  MaxNonce,    \* bound: nonces of an account
  MaxU32,      \* the largest u32
  MaxPool,     \* bound: extrinsics in the pool
  Capacity,    \* extrinsics that fit into a block
  MaxLate      \* bound: proposals cut short by their deadline or given up

ASSUME EthRuntimeAssumption ==
  /\ Ethereum \cap Signers = {}
  /\ MaxNonce \in Nat /\ MaxU32 \in Nat \ {0} /\ MaxPool \in Nat
  /\ Capacity \in Nat /\ MaxLate \in Nat

VARIABLES
  best,      \* state of the best block: account nonces and Something
  lastBody,  \* the best block's extrinsics
  currentBlock, \* transactions of pallet_ethereum's CurrentBlock
  log,       \* history: per account, the nonces it has used, in order
  pool,      \* extrinsics the pool holds as valid
  banned,    \* extrinsics a proposal refused: the pool does not take them again
  open,      \* whether a block is being built
  work, body, pending, \* its state, its extrinsics, pallet_ethereum's Pending
  workLog,   \* history: log with the block that is being built
  late       \* proposals cut short so far

chainVars == <<best, lastBody, currentBlock, log>>
workVars == <<work, body, pending, workLog>>
vars == <<chainVars, pool, banned, open, workVars, late>>

Accounts == Ethereum \cup Signers
Unset == -1                         \* Something: None
States == [nonce : [Accounts -> Nat], something : {Unset} \cup 0..MaxU32]

EthXts == [call : {"transact"}, from : Ethereum, nonce : 0..MaxNonce, arg : Payloads,
           signature : BOOLEAN]
TemplateXts == [call : {"do_something"}, from : Signers, nonce : 0..MaxNonce,
                arg : {0, MaxU32}, signature : BOOLEAN]
               \cup [call : {"cause_error"}, from : Signers, nonce : 0..MaxNonce,
                     arg : {0}, signature : BOOLEAN]
Xts == EthXts \cup TemplateXts

Init ==
  /\ best = [nonce |-> [a \in Accounts |-> 0], something |-> Unset]
  /\ lastBody = << >>
  /\ currentBlock = << >>
  /\ log = [a \in Accounts |-> << >>]
  /\ pool = {}
  /\ banned = {}
  /\ open = FALSE
  /\ work = best
  /\ body = << >>
  /\ pending = << >>
  /\ workLog = log
  /\ late = 0

\* No block is being built: the overlay of the last one is gone.
CloseBlock ==
  /\ open' = FALSE
  /\ work' = best'
  /\ body' = << >>
  /\ pending' = << >>
  /\ workLog' = log'

-----------------------------------------------------------------------------
(* What the runtime does with one extrinsic *)

\* is_self_contained
IsSelfContained(xt) == xt.call = "transact"

\* validate_transaction: check_self_contained and validate_self_contained, or
\* the signature and CheckNonce of SignedExtra.  Later nonces wait in the pool.
ValidateTransaction(s, xt) == xt.signature /\ xt.nonce >= s.nonce[xt.from]

\* Faulty variants of PreDispatch: the pool's answer is taken for good; the nonce
\* is compared with the next one.
PreDispatchAsValidated(s, xt) == xt.signature
PreDispatchOffByOne(s, xt) == xt.signature /\ xt.nonce = s.nonce[xt.from] + 1

\* pre_dispatch_self_contained, or CheckNonce of SignedExtra again.
PreDispatch(s, xt) == xt.signature /\ xt.nonce = s.nonce[xt.from]

\* Faulty variants of CauseError: no check, and wrapping arithmetic.
CauseErrorUnchecked(old) == IF old = Unset THEN Unset ELSE old + 1
CauseErrorWrapping(old) == IF old = Unset THEN Unset ELSE (old + 1) % (MaxU32 + 1)

\* cause_error: NoneValue and StorageOverflow leave the storage as it is.
CauseError(old) == IF old = Unset \/ old = MaxU32 THEN old ELSE old + 1

\* do_something and cause_error; a call that fails is included nevertheless.
Dispatch(something, xt) ==
  CASE xt.call = "do_something" -> xt.arg
    [] xt.call = "cause_error" -> CauseError(something)
    [] OTHER -> something

\* The state after the extrinsic; apply_self_contained for `transact`.
Apply(s, xt) ==
  [nonce |-> [s.nonce EXCEPT ![xt.from] = @ + 1], something |-> Dispatch(s.something, xt)]

\* Pending of pallet_ethereum takes what transact executed, a reverted transaction
\* too.  A transact that the EVM's runner refuses after pre_dispatch let it through,
\* which leaves nothing in Pending, is left out.
Note(p, xt) == IF IsSelfContained(xt) THEN Append(p, xt) ELSE p

\* Faulty variant of ExtrinsicFilter: every extrinsic is taken for a transaction.
ExtrinsicFilterAll(xts) == xts

\* extrinsic_filter
ExtrinsicFilter(xts) ==
  LET kept[i \in 0..Len(xts)] ==
        IF i = 0 THEN << >>
        ELSE IF xts[i].call = "transact" THEN Append(kept[i - 1], xts[i]) ELSE kept[i - 1]
  IN kept[Len(xts)]

\* Faulty variant of PendingBlock: what validates is taken for executed.
PendingBlockOfPool(s, xts) ==
  SelectSeq(xts, LAMBDA xt : xt.call = "transact" /\ ValidateTransaction(s, xt))

\* pending_block: every extrinsic of the pool in turn, refusals ignored, and the
\* transactions of the block that on_finalize makes of them.  The caller initialises
\* a block of its own first (initialize_pending_block) on the state of a finished one,
\* so Pending starts empty; the state is thrown away.
PendingBlock(s, xts) ==
  LET done[i \in 0..Len(xts)] ==
        IF i = 0 THEN [state |-> s, txs |-> << >>]
        ELSE LET d == done[i - 1] IN
               IF PreDispatch(d.state, xts[i])
                 THEN [state |-> Apply(d.state, xts[i]), txs |-> Note(d.txs, xts[i])]
                 ELSE d
  IN done[Len(xts)].txs

\* The history after an extrinsic.
Logged(l, xt) == [l EXCEPT ![xt.from] = Append(@, xt.nonce)]

-----------------------------------------------------------------------------
\* convert_transaction and the pool's submission.
Submit(xt) ==
  /\ xt \notin pool \cup banned
  /\ Cardinality(pool) < MaxPool
  /\ ValidateTransaction(best, xt)
  /\ pool' = pool \cup {xt}
  /\ UNCHANGED <<chainVars, banned, open, workVars, late>>

\* initialize_block, on the state of the best block
InitializeBlock ==
  /\ ~open
  /\ open' = TRUE
  /\ UNCHANGED <<chainVars, pool, banned, workVars, late>>

\* apply_extrinsic: what the block state refuses as stale leaves the pool and is
\* banned there, what is early waits.
ApplyExtrinsic(xt) ==
  /\ open
  /\ Len(body) < Capacity
  /\ xt \in pool \ Range(body)
  /\ \/ /\ PreDispatch(work, xt)
        /\ work' = Apply(work, xt)
        /\ body' = Append(body, xt)
        /\ pending' = Note(pending, xt)
        /\ workLog' = Logged(workLog, xt)
        /\ UNCHANGED <<pool, banned>>
     \/ /\ ~PreDispatch(work, xt)
        /\ xt.nonce < work.nonce[xt.from]
        /\ pool' = pool \ {xt}
        /\ banned' = banned \cup {xt}
        /\ UNCHANGED workVars
  /\ UNCHANGED <<chainVars, open, late>>

\* What the proposer can still push into the block: the pool has nothing else for
\* it, whether valid now or stale.
Pushable(xt) ==
  /\ xt \in pool
  /\ xt \notin Range(body)
  /\ PreDispatch(work, xt) \/ xt.nonce < work.nonce[xt.from]

\* finalize_block, and the import of the block: what it holds leaves the pool.
CommitBlock ==
  /\ open
  /\ best' = work
  /\ lastBody' = body
  /\ currentBlock' = pending
  /\ log' = workLog
  /\ pool' = pool \ Range(body)
  /\ CloseBlock
  /\ UNCHANGED banned

\* The proposer ends the block when it is full or the pool is exhausted ...
FinalizeBlock ==
  /\ Len(body) = Capacity \/ ~\E xt \in pool : Pushable(xt)
  /\ CommitBlock
  /\ UNCHANGED late

\* ... or at its deadline, whatever is still ready.
DeadlineBlock ==
  /\ late < MaxLate
  /\ late' = late + 1
  /\ CommitBlock

\* The proposal is not sealed: nothing of it stays.
AbandonBlock ==
  /\ open
  /\ late < MaxLate
  /\ late' = late + 1
  /\ UNCHANGED <<chainVars, pool, banned>>
  /\ CloseBlock

\* execute_block: another author's block, with an extrinsic the pool here may not
\* know.  The block that is being built on the old best block is given up.
ImportBlock(xt) ==
  /\ PreDispatch(best, xt)
  /\ best' = Apply(best, xt)
  /\ lastBody' = <<xt>>
  /\ currentBlock' = Note(<< >>, xt)
  /\ log' = Logged(log, xt)
  /\ pool' = pool \ {xt}
  /\ CloseBlock
  /\ UNCHANGED <<banned, late>>

\* The pool revalidates what it holds.
Revalidate(xt) ==
  /\ xt \in pool
  /\ ~ValidateTransaction(best, xt)
  /\ pool' = pool \ {xt}
  /\ UNCHANGED <<chainVars, banned, open, workVars, late>>

Next ==
  \/ InitializeBlock \/ FinalizeBlock \/ DeadlineBlock \/ AbandonBlock
  \/ \E xt \in Xts : Submit(xt) \/ ApplyExtrinsic(xt) \/ ImportBlock(xt) \/ Revalidate(xt)

\* The author keeps starting blocks, pushes what the pool has ready and finishes
\* them; the pool keeps revalidating.  Nothing is said of single extrinsics, nor of
\* users and other authors.
Spec ==
  /\ Init
  /\ [][Next]_vars
  /\ WF_vars(InitializeBlock)
  /\ WF_vars(FinalizeBlock)
  /\ WF_vars(\E xt \in Xts : ApplyExtrinsic(xt))
  /\ WF_vars(\E xt \in Xts : Revalidate(xt))

-----------------------------------------------------------------------------
(* Properties *)

\* Every variable has its type.
TypeOK ==
  /\ best \in States /\ work \in States
  /\ lastBody \in Seq(Xts) /\ currentBlock \in Seq(Xts)
  /\ log \in [Accounts -> Seq(0..MaxNonce)] /\ workLog \in [Accounts -> Seq(0..MaxNonce)]
  /\ pool \in SUBSET Xts /\ banned \in SUBSET Xts
  /\ open \in BOOLEAN
  /\ body \in Seq(Xts) /\ pending \in Seq(Xts)
  /\ late \in 0..MaxLate

\* An account's extrinsics are executed in the order of their nonces, none twice
\* and none left out, though the pool holds several for one nonce and validated
\* them on older blocks (apis.rs:132-144, lib.rs:166-176).
NoncesInOrder ==
  \A a \in Accounts :
    /\ Len(log[a]) = best.nonce[a]
    /\ \A i \in DOMAIN log[a] : log[a][i] = i - 1

\* What extrinsic_filter picks from the best block's extrinsics are the
\* transactions that CurrentBlock holds, in their order: an indexer that reads
\* the one finds the receipts of the other (apis.rs:691-718).
FilterShowsCurrentBlock == ExtrinsicFilter(lastBody) = currentBlock

\* From block to block, Something changes by a do_something or grows by
\* cause_error; it never comes back to zero by overflow, and never appears from
\* nothing (pallets/template/src/lib.rs:184-200).
SomethingIsExplained ==
  [][best'.something # best.something =>
       \/ \E i \in DOMAIN lastBody' : lastBody'[i].call = "do_something"
       \/ best.something # Unset /\ best'.something > best.something]_vars

\* The pending block the Ethereum RPC shows is one that could follow the best
\* block: a sender's transactions in it go on from its nonce without a gap or a
\* double, in whatever order the pool lists stale, early and rival extrinsics
\* (apis.rs:726-739).
PendingBlockCouldFollow ==
  \A xts \in SetToSeqs(pool) :
    LET txs == PendingBlock(best, xts) IN
      \A i \in DOMAIN txs :
        txs[i].nonce = best.nonce[txs[i].from]
                         + Cardinality({j \in 1 .. (i - 1) : txs[j].from = txs[i].from})

\* When the pool holds an extrinsic whose turn has come, its account's nonce moves
\* on: by this extrinsic or by another one of that nonce, whatever stale ones the
\* proposer meets, however blocks are cut short and others are imported.
ReadyNonceIsUsed ==
  \A a \in Accounts, n \in 0..MaxNonce :
    (best.nonce[a] = n /\ \E xt \in pool : xt.from = a /\ xt.nonce = n)
      ~> best.nonce[a] > n
=============================================================================
