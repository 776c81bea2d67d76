# TLA+ models of the 2testchain node

The repository is a Substrate solochain with an Ethereum layer (Frontier): a node (`node/`), a
runtime (`runtime/`), a template pallet (`pallets/template/`) and JavaScript clients that load the
chain (`test/`). Most of what it does is done by libraries (Substrate, Frontier, polkadot-js); what
is its own is how the parts are put together. So the models are about that: in which order the
node is built while it already runs, what its commands do to the databases, which times its blocks
carry, how the runtime's pallets agree on validators and on governance, how extrinsics get from the
pool into blocks, and how the load client's callbacks interleave. Library code is modelled from how this code uses it, and marked external in
`PROJECT.json`.

## 1. Inventory

| Component | State | Operations | What is hard | What makes it correct |
|---|---|---|---|---|
| Node service, `node/src/service.rs` | position in `new_full`, running tasks, network, RPC, command channel | build steps with error exits, RPC calls, imports, task ends, signals, shutdown | RPC and tasks run while the build is going on; an essential task may end when nobody polls the TaskManager; an early return | the node handed over is complete, no notification or command is lost, a failure takes the service down |
| Frontier tasks, `node/src/eth.rs` | import notification stream, Frontier database | mapping sync, filter pool, fee history | blocks imported before the worker listens, or by a process without a worker | every block gets mapped |
| RPC layer, `node/src/rpc/` | channel sender, voter state | manual seal, GRANDPA, Ethereum queries | shared state with tasks that may not exist | what the RPC offers reaches the task behind it |
| Commands, `node/src/command.rs`, `cli.rs` | chain database, BABE and GRANDPA data, Frontier database | node, ImportBlocks, PurgeChain, Revert, FrontierDb | two writes with a kill in between; other flags than the node had | databases agree with one another; final blocks stay |
| Runtime APIs and extrinsics, `runtime/src/apis.rs`, `lib.rs` | nonces, pool, block being built, pallet_ethereum's blocks | validate, apply, finalize, import, convert, filter, pending block | state validated on one block and executed on another | nonces in order, RPC views agree with the chain, ready extrinsics get in |
| Template pallet, `pallets/template/` | `Something` | `do_something`, `cause_error` | the u32 limit | no overflow |
| Governance bodies, `runtime/src/configs/mod.rs`, `node/src/chain_spec.rs` | members, prime, the manager's list, open motions | propose, vote, close, elections, membership, `set_members` | membership changes during motions; default votes; two lists of one committee | only members' votes count; those who may block can block |
| Throughput client, `test/transfer_tps_test.js` | pending, successful and failed transactions, `startBlockNumber` | send, head callback, timer | callbacks interleaved at every `await`, RPC errors, reorganisations | each transaction counted once, no block left out |
| Block time, `node/src/service.rs`, `node/src/rpc/consensus_data_provider.rs`, `runtime/src/configs/` | clock, chain's time and slot, the worker's slot, the mock timestamp | BABE slot, proposal, seal, pending block, import, start and stop | a clock that moves between two readings; late parents; restarts in another mode; three makers of blocks with inherents of their own | a block this node makes passes its own runtime |
| Validators, `runtime/src/configs/mod.rs`, `lib.rs`, `node/src/chain_spec.rs` | lists of authorities, validators and queued keys, disabled indices, exposures, planned era, phase, snapshot, solution | the hooks of a block, validate, chill, submit, offences, forced eras | four pallets change their lists in one block and one session apart; an index read in one list and used in another; elections that fail | author, credited validator, exposure and disabled index mean the same person; eras go on |
| Democracy, `runtime/src/configs/mod.rs` | the external proposal, the public queue, referenda, vetoes, cancellations | propose in three ways, veto, fast track, cancel, blacklist, launch | any order of steps of several bodies, deadlines | a veto leaves open only the doors it is meant to, and cannot hold for ever |
| Precompile table, voter bags, weights, benchmarking, type aliases, simple clients | | | | not modelled, section 8 |

Components talk in few places: the process calls `new_full` and polls its TaskManager
(`ServiceLifecycle` is that contract); RPC talks to authorship over a channel and to GRANDPA through
a shared state; the mapping worker hears of blocks through the client's import notifications and
writes a second database that the commands have to keep in step with the first; the pool calls the
runtime to validate what the block builder executes later; elections and membership tell the
collectives what changed, and their origins decide who may act on democracy's queue; Session asks
Staking for validators, Staking asks the election, and Babe and the EVM look authors up in what
Session tells them; the runtime compares the time a block maker passes with the slot of its digest; the
client sees the chain through head notifications and RPC answers.

The hazards, line by line, with the properties that watch them, are in `PROJECT.json`.

## 2. Modules

| Module | Content |
|---|---|
| `ServiceLifecycle` | abstract: what the service promises to its process and its clients |
| `NodeService` | `new_full` and the process around it; implements `ServiceLifecycle` |
| `NodeServiceProofs` | TLAPS proofs about it |
| `ChainDb`, `ChainDbProofs` | the databases and the commands that write them |
| `Collective`, `CollectiveProofs` | council or technical committee with the pallet that hands out its seats |
| `EthRuntime`, `EthRuntimeProofs` | extrinsics between pool and block, Ethereum APIs, template pallet |
| `TpsMonitor`, `TpsMonitorProofs` | the throughput client and the chain it sees |
| `BlockTime`, `BlockTimeProofs` | clocks, slots and timestamps of the three makers of blocks |
| `Validators`, `ValidatorsProofs` | authorship, sessions, eras, the election and disabling |
| `Democracy`, `DemocracyProofs` | the queue of proposals and referenda |
| `MC*` | the modules TLC is started on, one per component; all constants are given in the `.cfg` files |

Definitions called a "faulty variant" are plausible mistakes in the code beside them. They are
used by no specification; put in place of the original, each makes the property named in
`PROJECT.json` fail.

### NodeService
`pc` is the position in the straight-line code of `new_full`; each action is one block of it:
`NewPartial` (68-213), `BuildNetwork` (319-369), `SpawnOffchainWorkers`, `ServeRpc` (channel,
`rpc_builder`, `spawn_tasks`; 392-512), `SpawnFrontierTasks`, then `RunManualSealAuthorship` with
its early return, `StartBabe` or `SkipAuthorship`, `RunGrandpaVoter`, `StartNetwork`. A step with a
`?` may also take `BootFails`. `alive` holds the tasks by the names they are spawned under.
`TaskEnds`, `Signal`, `CallManualSeal`, `AnswerCommand`, `ImportBlock` and `MapBlock` interleave
with the build. `Shutdown` waits for the end of the build, as `run_node_until_exit` does. Every
combination of role, `--sealing`, `--disable-grandpa` and offchain worker is an initial state. The
command buffer's capacity is not a bound: the RPC clones the sender for each call, and a clone has
a slot of its own.

### ChainDb
A block is `<<ids[height], height>>`, `ids` being the generation it was made in: a purge and a Revert
that removes blocks begin a new one, so a block that grows again at a height is another block, and the
mapping of its predecessor is not its own. `MaxGen` bounds such removals. One process holds the databases; `Exit` ends it
at any point, also between the two writes of PurgeChain (`PurgeFrontierDb`, `PurgeChainDb`) and of
Revert (`RevertAux`, `RevertChain`). `operator` fixes how the commands are used: which backend
types are given, whether both questions of PurgeChain get the same answer, whether Revert is used.
All ways are initial states; properties that need care say so with `Careful`. The subcommand
FrontierDb, by which an operator creates, changes or deletes single entries of the Frontier database
by hand, is left out: the worker does not look again at a block it has synced, so
`MappingCatchesUp` would not hold of an entry deleted that way.

### Collective
`body` says which one it is. `roster` is the list of pallet_elections_phragmen or pallet_membership,
`members` that of pallet_collective; a change goes to both and drops the votes of those who left the
roster. The calls of pallet_membership are `AddMember`, `RejigMembers` (remove, swap and reset),
`SetPrime`, `ClearPrime` and `ChangeKey`; after `AddMember`, and after `ChangeKey` of another member than
the prime, the body has forgotten the prime that the membership pallet still has. `Init` is `testnet_genesis`, where the committee's members are given directly and the
membership pallet's list is empty. The proportions are those of `configs/mod.rs`; `carried` records
the motion a step dispatched with success, with who voted and who sat there. The count with default
votes is taken modulo 2^32 (`MaxU32`), as in a release build. Bound: one open motion at a time;
motions do not touch one another.

### EthRuntime
An extrinsic is a record of call, sender, nonce, argument and whether its signature checks. `pool`
takes what validates on the best block; `ApplyExtrinsic` validates again on the state of the block
being built; `ImportBlock` brings blocks of other authors; `DeadlineBlock` and `AbandonBlock` cut
proposals short. What a proposal refuses as stale is banned from the pool, as the library does:
without the ban a client that submits the same stale extrinsic over and over could keep a block
from ever ending. `log` and `workLog` are history variables, the nonces used up to the best block and
with the block being built. `ExtrinsicFilter` and `PendingBlock` go along their lists as recursive
functions of the place reached. `PendingBlock` starts from an empty `Pending` of pallet_ethereum: the
caller first has a block of its own initialised (`apis.rs:741-743`) on the state of a finished one.
Fees, gas and EVM execution are left out; so are a transact that the EVM's runner refuses after
pre_dispatch let it through, the pool's dropping of what depends on an invalid extrinsic, and
reorganisations.

### TpsMonitor
Each head has a callback with its own loop variable; its steps are the pieces of code between two
`await`s: `GetBlockHash`, `ProcessBlock`, `EndOfLoop`. `startBlockNumber`, `pendingTxs` and the
results are shared. An RPC call may fail and the tip may be replaced, `MaxFaults` times in all.
`visited` and `scanFrom` are history variables. The chain includes accepted transactions in nonce
order, and is followed while the client runs. The timer ends the subscription: heads that have not
been delivered and callbacks under way no longer matter, since their results are not read again.

### BlockTime
`head` is the time and slot of the best block, on disk; everything else goes with the process
(`TakeDown`), `TIMESTAMP` too. `OnSlot` reads the clock once, as `create_inherent_data_providers`
does, and fixes the parent; `Propose` comes later, with the clock moved on and other blocks
imported. `Accepts` is what the runtime checks: `MinimumPeriod`, and BABE's `OnTimestampSet`, which
compares the slot of the time with the slot of the digest. `SealBlock` passes the mock timestamp and
no digest. The pending block of the Ethereum RPC is no action, as it is thrown away:
`PendingBlockBuilds` says whether it can be built now. Imported blocks may be one slot ahead of the
clock. Time is counted in ticks, `SlotDuration` of them in a slot.

### Validators
One `AuthorBlock` is the hooks of one block in the order of `construct_runtime` (`lib.rs:260-290`):
the author is claimed from the authorities of the slot's epoch, Authorship looks the index up in
Session's validators before they change, then the election's phase moves or, at the end of an
epoch, `RotateSession` runs through Session, Staking and Babe, and at last Babe refuses disabled
authors. The first block of an epoch is thus credited by its index in the old list; `CreditedIsExposed`
says that this is at least a validator of the era the points belong to. Staking plans an era one
session before it starts, so there are always a list in office and a queue. `Submit` takes any
solution for the snapshot, however old; `Fallback` elects from the candidates of now. An
equivocation of BABE disables; reports of GRANDPA never get that far, as their key-ownership proof
has the type `Void`. The genesis validators are invulnerable. Sessions and eras are relative to the
present ones, so there is no bound on their number. Two simplifications: every winner has session
keys (pallet_session would drop one without), and the validator count is that of genesis. With Root's
`set_validator_count` lists of different lengths would meet, and the lookup at `configs/mod.rs:246`
might leave its list; the model does not reach that.

### Democracy
Origins are who may call, as a decision of `Collective` or by Root. `referenda` has the blocks left
for each; `cooloff` the blocks a veto still lasts, or `Forever` for what is blacklisted. `BeginBlock`
launches in turn from the external and the public queue and matures referenda. A referendum that
ends counts as voted on; the technical committee may give a fast track any voting period
(bound: `MaxFastTrack`). How the vote comes out, deposits and the enactment are left out. Two
referenda on one proposal that end in the same block are one.

## 3. Runs

| Run | Bounds | Result |
|---|---|---|
| `node_service` | 2 commands, 1 block, 2 failures, all 24 configurations; 24,560 states | all properties hold |
| `node_service_voter_state` | as above | violated: the RPC's voter state is not the voter's |
| `chain_db` | height 2, blocks removed once (by a purge or a Revert), all ways to operate; about 300,400 states | all properties hold |
| `tps_monitor` | 2 slots of 1 transaction, heights 0 to 3, look-back 1, 1 error or reorganisation; about 1,126,000 states | all properties hold |
| `tps_monitor_young` | a chain younger than the look-back | violated: nothing is ever confirmed |
| `collective` | 3 accounts, 2 at genesis, 3 changes; about 148,000 states | all properties hold |
| `collective_fast_track` | | violated: votes of the replaced genesis committee count |
| `eth_runtime` | 1 Ethereum sender, 1 signer, 2 nonces each, pool and block of 2, 1 late proposal, u32 up to 1; about 101,000 states | all properties hold |
| `block_time` | slots of 4 ticks, 15 ticks, 3 seals in a process; about 9,200 states | all properties hold |
| `block_time_sealed` | as above | violated: the first sealed block is refused over its time |
| `validators` | 5 stashes, 4 at genesis, epochs of 3 slots, phases of 1, eras of 2 sessions, gaps of 1, 2 and 4 slots; about 62,200 states | all properties hold |
| `democracy` | 2 proposals, 2 committee members, launches every 2 blocks, votes and cool-offs of 1, fast tracks of 1 or 2; about 699,000 states | all properties hold |

Why these bounds are enough. Two commands let one be queued while another is answered. Two failures
let an essential and another task end in one run, before or after the handover. One block is
notified or is not; missing two is missing one twice. Two heights and one removal give a final and a reverted
block, and a chain that grows again in place of one that is gone, wholly or in part; a second removal
adds nothing but another generation to tell from the present one, and the safety properties are
proved for any number. Three accounts give a majority, a minority and an
abstention, and three changes let a member leave, another come and the prime change in one motion.
Two nonces give a stale, a ready and an early extrinsic; the signer's rival calls of one nonce stand
for replaced transactions. The pending block of the run meets early transactions only, since rivals of an Ethereum nonce
take a second payload; its theorem covers stale ones and rivals too. Two transactions and four heights make up
to four callbacks that overlap. The first head may be any of them: one at height 0 gives a negative
start, one at height 3 reaches back to block 2 and leaves block 1, with what is in it, below the
look-back. One fault, an error at any call or a replaced tip, comes at any moment; the safety
properties are proved for any number of both. Slots of four ticks have a minimum
period of two, so a parent may come early or late in its slot, and fifteen ticks hold three slots
and the drift. Four validators are the fewest of whom one may be disabled, and the fifth stash lets a
list change; a gap of four slots skips an epoch; of the authors, the first and the last index are
enough to meet a disabled and an invulnerable one. Two proposals compete for the one external
place, two members veto one after the other, and a cool-off shorter than the launch period lets a
proposal come back before it is due. A fast track of two blocks outlasts a cool-off and an ordinary
vote. The theorems of section 5 hold
without bounds.

Deadlock is checked where the system cannot stop. It is switched off where everything may be over:
a process that is down, a client that is done, a body whose changes are used up.

Two behaviours of the client that no run reports as violated: an error inside `processBlock` (line
168) is swallowed and the block is not read again, so `ScanIsComplete` is stated for the time
before a fault; and a lost `submitExtrinsic` leaves a nonce gap, so a transaction is not promised to
be included, only to be confirmed when it is.

## 4. Fairness

- `NodeService`: weak fairness of the build (straight-line code), of `Shutdown` (the process polls
  the TaskManager and its signals), of answering each command and of mapping (the executor polls
  woken tasks). None of clients, failures or blocks.
- `ChainDb`: weak fairness of `MapBlock`; the worker of a running node wakes up at least every six
  seconds. Whether the node stays up is open.
- `TpsMonitor`: weak fairness of the event loop (`EventLoop`): as long as a head waits or a callback
  has a step to take, some such step is taken. Which one comes next is open; as there are finitely
  many heads and every callback ends, each gets its turn. None of the timer or of block production.
- `EthRuntime`: weak fairness of starting a block, of pushing what is ready, of ending a full or
  exhausted block, and of revalidation. Nothing is assumed of a single extrinsic; the order in
  which the pool offers them is open.
- `Validators`: weak fairness of `SomeBlock`: every slot has a secondary author (`configs/mod.rs:335-357`),
  so blocks keep coming while nobody need validate, submit or force anything.
- `Democracy`: weak fairness of `BeginBlock`, as every block runs it, and strong fairness of
  `ExternalPropose(Cause)`. The second is no promise of the code but the question asked: what becomes
  of a proposal that the council brings whenever it may.
- `Collective` and `BlockTime`: none. Nobody has to vote or close; safety is what is asked of time.

## 5. Proofs

Checked by TLAPS, from the modules' `ASSUME`s only (bounds are naturals, sets of accounts are
finite, the u32 limit is above the number of accounts).

- **NodeService.** `BuildProgress` is the inductive invariant: for each position of `new_full`,
  which tasks, protocol, network, RPC and stream exist. None of the interesting properties is
  inductive alone, as they speak of the end of the build only; with `BuildProgress` and `TypeOK`,
  `RunningNodeIsComplete` and `VoterHasProtocol` follow, and `NoImportMissed` and
  `ManualCommandsNotLost` become inductive. `ImplementsSafeLifecycle` proves the safety part of the
  refinement, action by action.
- **ChainDb.** `TypeOK` needs `FinalizedBlocksKept` (the revert target is a natural because the
  final block is not above the best one), so `TypeCorrect` proves both. `GrandpaAuxWithinChain`
  adds that, during a revert, GRANDPA's data are already within the target. `FinalityIsForever` is
  an action property from the same invariant. `NoStaleMapping` adds that the command's flag is one of
  the operator's, that the other databases are empty, and that a purge under way with the answer yes
  has emptied its own.
- **Collective.** `VotesAreOfMembers` needs that the council's roster is its membership;
  `PrimeIsMember` that the membership pallet's prime is on its roster, and the committee's prime is
  that one or no one. `MinorityCanBlock` rests on both and on counting: ayes and nays are disjoint sets of
  members, so ayes plus abstentions are at most the seats without the nays, the modulus never takes
  effect, and the proportions are monotone in the ayes.
- **BlockTime.** `TypeOK` carries the argument: the chain's time lies in the chain's slot, and so do time
  and parent of a block under construction. With it, a parent in an earlier slot is at least one
  tick before this slot's start, so half a slot on is not beyond this slot's end: lemmas on division
  state that once, and `AuthoredBlocksAccepted` and `PendingRpcAnswers` follow for any slot duration.
- **Democracy.** `VetoHolds` is an action property about the start of a referendum. It needs `QueueInv`:
  what waits in the council's place under a veto or a blacklisting was brought back by a super-majority (a
  veto empties the place it strikes, and `external_propose` respects the cool-off), and the public queue
  holds nothing blacklisted. A launch then has two cases, one for each queue, and a fast track one.
- **Validators.** `TypeOK` says that every list is the list of a full set of winners; it needs that
  winners are never more than `ValidatorCount`, so a solution has to stay within its snapshot, and
  that fewer than the minimum are refused. `ValidatorsAreExposed` is inductive with it, by the two
  ways a rotation ends (an era planned, or the validators kept). The other three rest on both:
  `EvmAuthorIsAuthor` on Babe's next authorities being Session's queue, `CreditedIsExposed` on all lists
  having one length, `InvulnerablesMayAuthor` on the queue being the validators when no era starts.

- **EthRuntime.** `NoncesInOrder` is inductive once it is also said of the block being built and its
  history (`NonceInv`): a proposal that is committed brings its own history with it, one that is
  given up falls back to the best block's. `SomethingIsExplained` is an action property; what a whole
  block does to the value is carried by `SomethingInv`, extrinsic by extrinsic. `FilterShowsCurrentBlock`
  and `PendingBlockCouldFollow` are about what `extrinsic_filter` and `pending_block` compute for lists
  of any length. The library's induction theorems take an operator, which the provers cannot
  instantiate; `NatSetInduction` states induction with a set in place of it (a set of naturals with 0
  that is closed under successor is `Nat`, as a least element outside would have a predecessor), and
  `PrefixInduction` and `PrefixRecursion` carry it over to the places of a list. So the recursive
  functions are shown to exist and to obey their equations (`FilterRecursion`, `PendingRecursion`);
  `FilterAppend` then says that one extrinsic more in the block is one more step of
  `pallet_ethereum`, and `ContinuesStep` that a step of `pending_block` keeps every sender's
  transactions going on from its nonce. The pool is finite (`PoolFinite`), so that it can be listed.
- **TpsMonitor.** The proofs are of `SafeSpec`, the specification without its fairness. `TypeOK` needs
  three facts about the chain and the callbacks (`TypeInv`): the tip holds exactly the run of nonces
  that ends at the sender's, so a replaced tip leads back to a nonce (counting, by the cardinality of
  an interval); a callback holds only blocks up to its head; no head is above the chain.
  `CountedOnce` needs that a block, on the chain or already fetched, has one outcome for each
  transaction, and that there are no results before the monitor starts. `NoBlockPassedOver` and
  `ScanIsComplete` speak of `startBlockNumber` only and are not inductive: what makes them true is that
  the same holds of the loop variable of every callback still in its loop (`ScanInv`, `RecordInv`), as
  these are the values that `startBlockNumber` takes next, in any order. `RecordInv` adds that the
  block a callback holds is still the chain's, which is where a replaced tip would break it.

Every invariant and every action property of the passing runs is thus proved for all values of the
constants, and so is the safety part of the refinement. The inductive invariants were first checked
with TLC, on the instances of the runs. Only model-checked: the liveness properties (`CommandsSettle`,
`EssentialFailureStopsService`, `ImportsGetMapped`, `MappingCatchesUp`, `IncludedGetConfirmed`,
`ReadyNonceIsUsed`, `ErasGoOn`, `CauseGetsItsVote`) and the liveness part of `ImplementsLifecycle`, as
fairness and `ENABLED` are outside of what this prover does.

## 6. What the models found

Three disagreements between the code and its own comments, and a bug of the client, each with the run
that shows it, are listed under "findings" in `PROJECT.json`:

- the voter state given to the RPC is not the one the GRANDPA voter fills;
- the genesis members of the technical committee are unknown to its membership pallet, whose first
  change replaces them, while their votes in an open motion go on counting;
- the mock timestamp of `--sealing` does not make BABE think that time has passed: without a digest
  the slot stays, and the runtime refuses the block;
- the throughput client starts from a negative block on a chain younger than its look-back.

Other limits of the code are conditions of properties: PurgeChain with another backend type than the
node's leaves the other database behind, and Revert leaves BABE's data of removed blocks
(`ChainDb`; hence `Careful`, and no property about BABE's data); under instant seal, or on a node that
is no authority, the manual-seal RPC has nobody behind it (`NodeService`; hence "a manual-seal
authority" in `ManualCommandsNotLost`); a prime's default vote stands for those who did not vote
(`Collective`; hence `MinorityCanBlock` counts nays only). A veto strikes the council's place
only: a proposal that also stood in the public queue when it was vetoed stays there and may be launched
while the veto cools off (PublicPropose, ExternalPropose, VetoExternal, BeginBlock), and a super-majority of
the council brings it back at once (`Democracy`; hence the two cases of `VetoHolds`). Blacklisting clears
both queues. But since a veto overwrites what is recorded of a proposal, a blacklisted proposal that a
super-majority brought back and the committee vetoed is no longer blacklisted once the veto has cooled off.

## 7. Plan

What was planned first, block time, validators and democracy, is in place, and the safety properties
of all modules are proved. Left, in this order:

1. `EvmTpsClient`: `test/evm_contract_tps_test.js`, its nonces and receipts.
2. Democracy's votes and the scheduled enactment, with the cancellation of what is scheduled.
3. Bonding, deferred slashes and rewards of staking: that a slash finds its stake still bonded
   (`configs/mod.rs:661-690`).

## 8. Not modelled

Telemetry, metrics, logging; the FrontierDb subcommand; a change of the validator count and winners
without session keys; stakes, bonding, rewards, slashes and heartbeats; nomination pools,
treasury and contracts (configuration values of library pallets with no control of this
repository's own); votes and enactment of democracy; queries of the RPC and of runtime APIs that only read library state;
fees, gas and EVM or contract execution; the precompile table, the voter-bags table, weights and
benchmarks (data or generated code); `client.rs`, `main.rs` (types and an entry point); the clients
that do one call after another. Networking, storage engines and consensus are libraries; what the
models assume of them is stated at the actions marked external.
