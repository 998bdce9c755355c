# Formal models of phala-blockchain's sequencer, quota allocator and replay engine

This directory holds TLA+ models of the four source files under `src/`. It also holds the
TLC configurations that model-check them and TLAPS proofs of their main invariants.

## 1. The system

| Part | Source | What it does |
|---|---|---|
| SequencerCore | `src/standalone/prb/src/messages.rs` 27-115 | `MessageContext` (state, `submitted_at`) and `SenderContext` (`node_next_sequence`, `pending_messages`); the predicates `is_pending`, `is_pending_or_success`, `is_timeout_or_failure`; `calculate_next_sequence` |
| MessagesDispatcher | `messages.rs` 118-314 | `master_loop`: a single consumer of an unbounded mpsc queue of `SyncMessages`, `DoSyncMessages`, `Completed`, `RemoveSender`, `CurrentHeight` |
| Refresh task | `messages.rs` 316-343 | `do_update_next_sequence_and_sync_messages`: asks the node for `mq_next_sequence` and posts `DoSyncMessages` with `Some(n)` or `None` |
| Submission task | `messages.rs` 345-358 | `do_sync_message`: `TxManager::sync_offchain_message`, then posts `Completed` |
| HeightTracker | `messages.rs` 360-396 | `background_update_current_height`: posts `CurrentHeight(best block)` |
| QuotaAllocator | `src/crates/phactory/src/contracts/support/keeper.rs` 65-88 | `calc_cache_quotas`: `TOTAL_MEMORY * w / max(1, Σw)` in u64 |
| ContractsKeeper | `keeper.rs` 10-63 | an ordered map of contracts; `try_restart_sidevms` swallows errors; `apply_local_cache_quotas` |
| ReplayEngine | `src/standalone/replay/src/replay_gk.rs` 38-198 | `dispatch_block` (state-root check, apply, `handle_inbound_messages`, `current_block`), gatekeeper launch, event numbering, `dump`/`load` |
| ReplayDriver | `replay_gk.rs` 238-405 | `wait_for_block`, the fetch/dispatch/checkpoint loop, reconnect on "restart required", `get_checkpoint_path` |
| Helpers | `src/standalone/replay/src/helper.rs` | `is_gk_launch`; `try_decode*` only format log text |

The sequencer's parts interact by message passing.

1. A producer offers a sender's messages (`SyncMessages`).
2. The loop filters out messages whose context is pending or successful.
3. The loop spawns a refresh task. The task reads the chain's next sequence and posts `DoSyncMessages` back.
4. The loop handles that event. It overwrites `node_next_sequence` with the answer and walks the batch in order. A message is submitted only if it is the one `calculate_next_sequence` expects now. The message gets a Pending context stamped with `current_height`, and a submission task is spawned.
5. The submission task's `Completed` event sets the context's state from the result.
6. `CurrentHeight` moves the loop's height, and with it the timeouts.

The loop is the only writer of the sequencer state. Concurrency enters in two ways:

- Tasks read the chain at one time and the loop applies their results later.
- Several tasks for one sender may be in flight at once.

## 2. Modules

### `Sequencer.tla`: the dispatcher, its tasks and the chain

**Constants.**

| Constant | Meaning |
|---|---|
| `Senders` | message origins |
| `MaxSeq` | messages `0..MaxSeq-1` of each sender |
| `TxTimeout` | `TX_TIMEOUT_IN_BLOCKS` |
| `MaxHeight` | bounds the chain |
| `InitChainHeight` | the chain's height when the loop starts |
| `MaxTasks` | bounds refresh work in flight |
| `MaxInFlight` | `RemoveSender` is only taken while fewer than this many submissions of each message are in flight |
| `MaxLag` | how far below the chain's best block a reported best block may be |

`MaxInFlight` exists because removal lets the loop forget in-flight work and resubmit it without bound.

**State.**

| Variable | Code |
|---|---|
| `height` | `current_height` |
| `known` | the keys of `sender_contexts` |
| `nodeNext` | `node_next_sequence` |
| `ctx[s][q]` | `pending_messages`, with `Absent` for a missing entry. `prev_try_count` is only logged and is left out. |
| `job` | the `for message in messages` loop of `DoSyncMessages` in progress |
| `rpcTasks`, `doSyncs` | refresh tasks before the RPC, and `DoSyncMessages` events in the queue |
| `submits[s][q]`, `waits[s][q]` | submission tasks before and after reaching the node |
| `chainNext`, `pool`, `chainHeight` | the environment |
| `sentAt` | a history variable: the chain height at the last submission |

**Actions and the code they translate.**

| Action | Code |
|---|---|
| `SyncMessages(s, lo)` | lines 139-171. The producer offers `lo..MaxSeq-1`, with `lo` at most the chain's next sequence. |
| `UpdateNextSequence(t)` | lines 316-343. The answer is the chain's value, or `None`. |
| `DoSyncDrop(e)`, `DoSyncStart(e)` | lines 173-196 |
| `DoSyncSkip(m)`, `DoSyncSubmit(m)` | one iteration of the loop at lines 197-256 on any message `m` left in the batch: the code walks the batch in the order the producer gave it, which nothing in these sources fixes |
| `SubmitRejected`, `SubmitAccepted`, `Complete` | `do_sync_message` and `Completed` (259-293). The node's answers come from `Results`. |
| `RemoveSender(s)` | lines 295-304 |
| `CurrentHeight(h)` | lines 306-309: `current_height = h`, with no comparison |
| `ReportedHeights` | `background_update_current_height` (360-396): `h` is at most `MaxLag` below the chain's best block. The data source picked at each resubscription may lag, and a reorg may lower the best block. |
| `NewBlock`, `Include(s)`, `PoolDrop(s, q)` | the chain |

Dispatcher actions are guarded by `job = NoJob`. This is how the model keeps the loop single-threaded: no other event is handled while a batch is being walked.

The environment is modelled from the specification, because `TxManager` and the chain are not in this repository:

- The node includes the next sequence that is in its pool.
- It rejects at once an outdated or already-pooled submission.
- It may answer "Tx timed out!" at any time.
- It answers with another error only after the transaction left the pool without being included.

**The re-check at line 210.** `DoSyncSubmit` carries no branch for it. `calculate_next_sequence` stops at the first sequence whose context is missing or not pending-or-successful, so the `continue` at line 212 cannot be reached.

### `MC_Sequencer.tla` and its `.cfg` files

`MC_Sequencer.tla` instantiates the model with:

- one sender (model value `s1`);
- two messages;
- `TxTimeout = 1`;
- chain heights 2..3 (the loop starts at height 0 as in the code);
- at most 2 refresh tasks or events;
- `MaxInFlight = 1`, so a sender is removed only with nothing in flight, except in the removal run, which uses 2 (two submissions of one message in flight at removal) with one refresh task at a time;
- `MaxLag = 0`, so reports are exact. A lag of 2 makes the main run exceed its time bound.

This instance exercises all of the following:

- a timeout and a retry;
- a late success of the first attempt;
- a rejected duplicate;
- a stale refresh answer applied after a newer one;
- removal of a sender with work in flight, and the completions dropped at line 263 because the sender or the context is gone (the removal run only).

A second sender adds no interaction, because senders share no state. Deadlock is not checked: once the bounded chain has stopped, the loop waits on an empty queue, exactly as `rx.recv()` does.

### The proof modules

`SequencerProofs.tla`, `KeeperProofs.tla`, `KeeperSumProofs.tla`, `ReplayProofs.tla` and `ReplayStateProofs.tla` hold the TLAPS proofs (section 4). They extend the modules they reason about, and TLC does not run them.

### `SequencerProofs.tla`

This module holds the TLAPS proofs (section 4).

### `Keeper.tla`: `ContractsKeeper` and `calc_cache_quotas`

The keeper is an ordered map from contract address to contract. The model keeps only each contract's u32 weight, so the map is `contracts`, a function from a subset of `Accounts` to `Weights`.

| Definition | Code (`keeper.rs`) |
|---|---|
| `Insert(a, w)`, `SetWeight(a, w)`, `Drain` | `insert` (20-22), `get_mut` with a weight change (28-30), `drain` (49-54) |
| `ApplyLocalCacheQuotas` | lines 60-62: the cache gets `calc_cache_quotas` of the current map |
| `Product`, `TotalWeight`, `Quota`, `CalcCacheQuotas` | lines 76-88: `TOTAL_MEMORY * w` in u64, divided by `max(1, Σw)` in u64 |

Machine integers keep their width. `HalfWord` stands for 2^32 and `Word = HalfWord^2` for 2^64, and every u64 result is reduced modulo `Word`. The history variable `appliedFor` remembers the weights the current quotas were computed from.

`MC_Keeper` (run on the composed module below) scales both widths down together: 3-bit weights, 6-bit words, `TOTAL_MEMORY = 5`, two contracts. 20 MiB is below 2^32 in the same way that 5 is below 2^3. The instance reaches all-zero weights, a single weighted contract, and sums that do not divide evenly.

### `KeeperSidevm.tla`: the whole keeper, with the sidevm restart sweep

`try_restart_sidevms` (`keeper.rs` 41-47) calls `restart_sidevm_if_needed` on every contract in key order, and logs and skips an error. The contract's side of it is outside these sources and is modelled from the spec:

- besides its weight, a contract has a sidevm status: `none`, `running` or `stopped`;
- a restart succeeds or errs;
- a contract in `Faulty` always errs.

The module EXTENDS `Keeper` and adds the variable `sidevm`, which maps address to status over the same domain as `contracts`. Its actions are:

- `InsertContract` and `DrainContracts`: `Keeper`'s `Insert` and `Drain`, which now act on both maps;
- `SetWeight` and `ApplyLocalCacheQuotas`, with `sidevm` unchanged;
- `SidevmExit`, taken by the environment;
- `TryRestartSidevms(fails)`.

 The sweep is one step because it takes `&mut self` and never yields.

**Fairness.** The registry invokes `try_restart_sidevms` at every block, so the sweep is weakly fair. `restart_sidevm_if_needed` lies outside these sources. What is assumed of it is that a sweep in which only the faulty contracts fail (`TryRestartSidevms(Faulty \cap Stopped)`) is among those that keep coming, i.e. transient errors of healthy contracts do not last forever. Nothing is assumed of any single contract: whether a healthy contract after a failing one is reached is the sweep's own doing, and the mutant that stops at the first error violates `SidevmRestarted`. `KeyOrder` ranks addresses so that the order of the sweep is explicit.

In `MC_Keeper`, `a1` comes before `a2` in key order and `a1` is faulty, so every sweep meets an error before it reaches `a2`. No symmetry is declared: the key order and the faulty contract tell the addresses apart, and symmetry is unsound for liveness anyway.

### `Replay.tla`: `ReplayFactory` and the `replay()` driver

**Abstraction.**

- A block is `[n, b]`: its height and its branch, `"canon"` or `"fork"`. Fork blocks exist above `ForkBase`.
- Storage is abstracted to the block it was last advanced to (`fac.tip`). `calc_root_if_changes` matches the header exactly when the storage is at the parent of the block whose changes were fetched, and the header belongs to that same block (`RootMatches`).
- A block's economic events are a count `EvCount[b][n]`.
- A block's mq messages (`Messages[n]`) are abstracted to their sender kind, topic, and what the payload decodes to. `IsGkLaunch` translates `helper::is_gk_launch` (`helper.rs` 59-71). `LaunchAt` is the first block that holds a launch message.
- A record is `[seq, block, branch, idx]`.

**State.**

| Variable | Code |
|---|---|
| `fac` | `ReplayFactory`: `current_block`, `next_event_seq`, `gk_launched`, and the storage's block |
| `pc`, `blockNumber`, `lastCkpt`, `fetched`, `header` | the driver loop |
| `outbox` | the block's `records` not yet sent |
| `chan` | records sent to the bounded channel (capacity `ChanCap`) and not yet persisted |
| `files`, `link` | `checkpoint.<n>` files and the `checkpoint.latest` symlink |
| `sink` | the persisted records |
| `best`, `finalized`, `onFork` | the node, modelled from the spec |

**Actions and the code they translate.**

| Action | Code (`replay_gk.rs`) |
|---|---|
| `Init`, `Restart` | start-up (260-302): `checkpoint.latest` or a new factory (`Restored`), `last_checkpoint_block`, the `== 0` test (`FirstBlock`) |
| `Finish` | the stop check (311-314), then `wait_forever` |
| `WaitDone`, `WaitError` | `wait_for_block` (238-258). On an error that is not "restart required", the loop falls through to the fetch (315-320). A "restart required" error reconnects and retries the same block, which is a stutter. |
| `FetchChanges` | the fetch (322-325), or its error with a sleep (352-358) |
| `FetchHeader` | `get_header_at(...)?` (327). An error ends the process. |
| `Dispatch` | `dispatch_block(...).expect` (329-334). A root mismatch panics. Otherwise the factory advances (`Dispatched`) and the block's records (`Records`) are collected in `outbox`. `current_block` is written after the sends, but the loop holds the factory's mutex across them, so no reader sees the difference. |
| `Send` | `tx.send(record).await` (155-162): one record enters the channel once it has room (`SendRoom`) |
| `Sent` | all records sent; the checkpoint test (335-336) runs, then either a checkpoint or `block_number += 1` |
| `Dump`, `Unlink`, `Symlink` | the checkpoint (337-350): `dump_to_file`, removing the old link, creating the new link, then `block_number += 1` |
| `Crash` | the process dies at any step; memory and the channel are lost |
| `Persist`, `NewBest`, `Finalize`, `Reorg` | the persistence task and the node, from the spec. Finality passes `ForkBase` only on the canonical branch, and a reorganisation happens only above finality. |

`SeqAfter[b, n]` is the reference definition: `next_event_seq` after replaying from genesis the chain that ends at `[n, b]`. It is a recursive function over the parent chain. `Consistent(f)` says a factory equals that replay.

**Fairness** (`FairSpec`, used only by the liveness run):

- The driver loop is one tokio task, and the persistence task is another. Neither is descheduled for good, so both get weak fairness.
- `fetch_storage_changes` is retried every 5 s. Its success, once the node has the block, gets strong fairness, because a transient error may hit any single try.
- The chain keeps producing and finalizing blocks.
- Crashes, operator restarts and reorgs get no fairness.

**Bounds.** `MC_Replay` has:

- genesis at 0 and `stop_at = 4`, so blocks 1..3;
- the launch in block 2;
- a checkpoint interval of 2, so block 2 is checkpointed and blocks 1 and 3 are not;
- at most 2 restarts;
- a channel of one slot, so a send waits for `run_persist`;
- messages where block 1 holds a worker's message that looks like a launch and a launch-topic message that does not decode, block 2 holds the launch after another message, and block 3 holds a `RotateMasterKey`.

With forks (`ForkBase = 1`), blocks 2 and 3 also exist on a fork that emits 2 events per block instead of 1. The fork therefore shows in the numbering. Without forks, `ForkBase = 3`.

This instance covers the following:

- a crash at every step, both before and after the checkpoint;
- restarts from genesis and from `checkpoint.2`;
- a restart on top of a restart;
- the launch block and pre-launch blocks.

A second checkpoint interval (1, in the link run) makes the link be relinked. Deadlock is not checked: `wait_forever` and a process down after its last restart are final states.

### `ReplayChain.tla`: what the replay promises about its chain state

`ReplayChain` is the abstract specification. It has two variables: the block `at` that the replay state is at, and the set `saved` of blocks whose state is saved. It has three actions:

- `Advance` moves to a child of `at`;
- `Save` saves `at`, replacing any saved state of the same height, because checkpoint files are named by height;
- `Restore` goes back to a saved block or to genesis.

`Replay` implements it under the refinement mapping `at <- fac.tip`, `saved <- {files[m].tip : m \in DOMAIN files}`. The property `ChainRefinement == Chain!Spec` is checked on the fork instance. Each `Replay` step maps as follows:

- `Dispatch` is an `Advance`: the root check only lets the storage move to a child of its block.
- `Dump` is a `Save`.
- `Restart` is a `Restore`: `checkpoint.latest` names a saved block, or the start is from genesis.
- Every other step is a stutter.

## 3. Runs

| Run | Result | What it shows |
|---|---|---|
| `sequencer_safety` (`MC_Sequencer.cfg`) | pass, 2.3 M distinct states | `TypeOK`; `NodeNextBehindChain`; `SuccessfulIsIncluded`; `NoGapSubmission` (every submission of q finds each earlier message on chain or pending-or-successful), with batches walked in any order |
| `sequencer_removal` (`MC_Sequencer_Removal.cfg`) | pass, 1.0 M distinct states | `SuccessfulIsIncluded` and `NoGapSubmission` when a sender is removed with two submissions of a message in flight: their completions are dropped (line 263), a later batch re-adds the sender from a fresh refresh, and the old tasks still reach the node |
| `success_is_final` | violation of `SuccessIsFinal` | Divergence from section 8 of the spec. The first attempt times out locally and is retried. The first attempt is then included and marked Successful. The retry is rejected as outdated, and its `Completed` (line 269) turns the context into Failure. The next `SyncMessages` admits the included message again, although section 8 of the spec (idempotence) says a Successful message is filtered out; it is submitted again once a refresh fails to move `node_next_sequence` past it. Section 4.3.6 itself prescribes the unconditional overwrite, so this is a disagreement between 4.3.6 and section 8 that the code inherits. |
| `no_premature_retry` | violation of `NoPrematureRetry` | This is a code bug. A batch handled before the first `CurrentHeight` is stamped `submitted_at = 0` (line 129; only the 5 s sleep at 127 prevents it). The first height update makes the message look timed out, and it is submitted again with no block elapsed. |
| `keeper_quotas` (`MC_Keeper.cfg`) | pass, 51 K distinct states | `ProductNoWrap`; `QuotaWithinBudget` (the quotas sum to at most `TOTAL_MEMORY`); `ResidueBelowCount` (rounding leaves less than one unit per weighted contract); `SidevmRestarted` under weak fairness of the sweep: a stopped sidevm of a non-faulty contract is eventually running again or gone, although the first contract in key order always errs. Two contracts. |
| `replay_forks` (`MC_Replay.cfg`) | pass, 64 K distinct states | `StateConsistent`: through forks, crashes and restarts, the live factory and every checkpoint file equal the replay from genesis of the chain ending at their block |
| `replay_refines_chain` (`MC_Replay_Chain.cfg`) | pass, 64 K distinct states | `ChainRefinement`: `Replay` implements `ReplayChain` through forks, crashes and restarts |
| `replay_no_fork` (`MC_Replay_NoFork.cfg`) | pass, 5.7 K distinct states | `EventsCanonical` (every persisted record is the canonical one for its number); `NoRootMismatch` (no panic without forks); `EventsEventuallyPersisted` under `FairSpec` (with a one-slot channel, every canonical record reaches the sink in every run where the process never stops; without fairness of `run_persist` it fails) |
| `replay_fork_events` | violation of `EventsCanonical` | Divergence, line 315. A `wait_for_block` error falls through, so a fork block that is not final is replayed, and its events are persisted under canonical numbers. |
| `replay_rpc_error_exit` | violation of `NoErrorExit` | Divergence, line 327. The `?` ends `replay()` on an RPC error, but the spec says RPC failures never propagate. |
| `replay_lost_events` | violation of `SinkComplete` | Spec gap, line 340. Records still in the channel when a checkpoint is written are lost if the process crashes before they are persisted. The restart resumes after the checkpoint. |
| `replay_link_atomic` | violation of `CheckpointLinkAtomic` | Divergence, lines 342-347. The link is removed and then recreated, not replaced atomically. A crash in between restarts from genesis. |

Each property of a passing run has a mutant of the code that TLC catches:

| Mutant | Property it breaks |
|---|---|
| a submission stamped one block ahead | `TypeOK` |
| a missing refresh answer replaced by the batch's first sequence | `NodeNextBehindChain` |
| "Tx timed out!" mapped to Successful | `SuccessfulIsIncluded` (both sequencer runs) |
| `contains_key` in place of `is_pending_or_success` in `calculate_next_sequence` | `NoGapSubmission` (both sequencer runs) |
| the product taken in u32 | `ProductNoWrap` |
| quotas rounded up | `QuotaWithinBudget` |
| `sum + 1` in place of `max(1, sum)` | `ResidueBelowCount` |
| the launch message's own block skipped | `StateConsistent` |
| `next_event_seq` left out of the checkpoint | `EventsCanonical` |
| a restart resuming at the checkpoint's own block | `NoRootMismatch` |
| the root check comparing only the header, not the storage's block | `ChainRefinement` |
| `is_gk_launch` without the pallet-sender check | `StateConsistent` |
| the channel taken as full one record early | `EventsEventuallyPersisted` |
| the sweep stopping at the first error | `SidevmRestarted` |

## 4. Proofs

`SequencerProofs.tla` proves the following for all values of the constants. The assumptions are those of `Sequencer.tla`: `Senders` non-empty, `MaxSeq ≥ 1`, and the bounds in `Nat`.

- **`TypeCorrect`: `Spec => []TypeOK`.** `TypeOK` is inductive. The step lemma `TypeOKStep` has one case per action; an iteration of the batch loop, on any message left, leaves the batch done or non-empty (`NextBatchJobType`).
- **`NodeNextBehindChainHolds`: `Spec => []NodeNextBehindChain`.** The invariant alone is not inductive. A `DoSyncMessages` event in the queue carries an answer read earlier, and handling it writes that answer into `nodeNext`. The inductive invariant `IInv` therefore adds `RefreshBehindChain`: every queued answer is at most the chain's current next sequence. This stays true because the chain never goes back (`ChainNextMonotone`). `IInv` was checked by TLC on the instance above before it was proved.
- **`SuccessfulIsIncludedHolds`: `Spec => []SuccessfulIsIncluded`.** It is inductive together with `TypeOK`. Only an `Ok` result produces Successful, and the node answers `Ok` only for an included transaction (`OkOnlyWhenIncluded`).

`KeeperProofs.tla` proves the following from `Keeper`'s assumptions: `HalfWord ≥ 1`, `Word = HalfWord²`, and `0 < TotalMemory < HalfWord`.

- **`TypeCorrect`.**
- **`ProductNoWrapHolds`: `Spec => []ProductNoWrap`.** `ProductFits` shows that `TotalMemory · w ≤ (HalfWord−1)² < Word` for every u32 weight. `RealTotalMemory` shows that the code's `1024·1024·20` is below 2^32. Together they show that the u64 product never wraps for the real widths.

`ReplayProofs.tla` proves **`NoRootMismatchHolds`: `NoForks => (Spec => []NoRootMismatch)`**. It holds for every start and stop, checkpoint interval, launch block, event counts and restart bound, on the condition that no fork block lies below `stop_at`. Under that condition, `dispatch_block`'s `expect` never fires.

The inductive invariant `RInv` is needed because `NoRootMismatch` alone says nothing about why the next root matches. `RInv` states the following:

- the node stays canonical;
- every checkpoint file holds the factory of its own block (`AtCanon(files[m], m)`);
- `checkpoint.latest` names a file that exists;
- while the loop is between blocks, the live factory is at `block_number − 1`; while the block's records are sent or a checkpoint is taken, it is at `block_number`.

The lemmas are:

- `RootMatchesNext`: a factory at n−1 passes the root check of n;
- `DispatchedAtCanon`: dispatch advances it to n;
- `RestoredResumes`: a start resumes at the block after the restored factory's block. This covers both the `last_checkpoint_block == 0` case and restores from `checkpoint.latest`.

`RInv` was checked by TLC before it was proved.

`ReplayProofs.tla` also proves **`ChainRefinementHolds`: `Spec => ChainRefinement`**, that `Replay` implements `ReplayChain`. This holds for every value of the constants, forks included. The proof has three parts:

- `ChainInit`: the initial state maps to `ReplayChain`'s initial state.
- `ChainStep`: under the invariant `CInv`, each step maps to an abstract step or a stutter.
  - `Dispatch` with a matching root is an `Advance`. `DispatchAdvances` shows that the block is a child of the storage's block.
  - `Dump` is a `Save`. `DumpSaves` shows that the file named after block n replaces exactly the saved block of height n.
  - `Restart` is a `Restore`.
  - Every other step leaves the factory and the files unchanged.
- `CInv` itself, checked by TLC first. It says:
  - files are named by their factory's block;
  - `checkpoint.latest` names an existing file;
  - a fork block is fetched only above `ForkBase`;
  - during a checkpoint, the factory is at the block being checkpointed.

`ReplayStateProofs.tla` proves the two `Replay` invariants that rest on the canonical numbering `SeqAfter`. `SeqAfter` is a recursive function over the blocks `[n : Blocks, b : Branches]`, and TLAPS sees it only as a `CHOOSE` of a function equal to its own body. So the first step, `SeqAfterDef`, shows that this `CHOOSE` has a witness, which gives `SeqAfter`'s recursive equation at every block. The proof goes as follows:

- `PrefixFixpointExists` builds a fixpoint on the blocks up to height k, for every k.
- It argues by least counterexample: `NatSetHasLeast`, from the well-foundedness of `<` on `Nat`.
- The library's induction theorems take an operator parameter that the installed provers cannot instantiate, so they are not used.

`ReplayStateProofs.tla` proves two theorems:

- **`StateConsistentHolds`: `Spec => []StateConsistent`**, for every value of the constants, forks included. The inductive invariant `SInv` is `StateConsistent`, strengthened by `CInv` and by the types of the factories. `CInv` is needed for two reasons: a `Dump` writes the live factory under `block_number`, and a restart reads the file `checkpoint.latest` names. `SInv` was checked by TLC on `replay_forks` before it was proved. The step has one case per action that changes the factory or the files:
  - `Dispatch` with a matching root: `DispatchedConsistent`. Dispatching the child of a consistent factory's block gives the consistent factory of that child. This rests on `LaunchedAtHeight`: `gk_launched` turns on exactly at `LaunchAt`.
  - `Dump`: the factory is at the block being checkpointed (`CInv`).
  - `Restart`: either a consistent file, or `NewFactoryConsistent`.
- **`EventsCanonicalHolds`: `NoForks => (Spec => []EventsCanonical)`.** The inductive invariant `EInv` is `RInv ∧ SInv`, plus three facts: the loop's outbox and the event channel are sequences of canonical records, and the sink holds only canonical records. `EInv` was checked by TLC on `replay_no_fork` first. The only step that creates records is `Dispatch`. By `RecordsCanonical`, the records of canonical block n, collected from a consistent factory at n−1, are exactly `CanonRecords`' slice for n. `Send`, `Persist` and `Restart` only move records along, or drop them.

These proofs use one more assumption of `Replay`, `LaunchAtFirstAssumption`. It says that `LaunchAt` is the first block whose messages hold the pallet's `MasterPubkeyOnChain` launch message. TLC checks it on every `MC_Replay` run. It is stated independently of `IsGkLaunch`, so the mutant that drops the sender check still violates `StateConsistent`.

`KeeperSumProofs.tla` proves two theorems about the sums of `calc_cache_quotas`:

- **`QuotaWithinBudgetHolds`: `Spec => [](FewContracts => QuotaWithinBudget)`**;
- **`ResidueBelowCountHolds`: `Spec => [](FewContracts => ResidueBelowCount)`**.

Both hold for every word width and `TOTAL_MEMORY` that satisfy `Keeper`'s assumptions. `FewContracts` says that the applied map holds at most `HalfWord + 1` (2^32 + 1) contracts. The bound is needed: `.sum::<u64>()` of more u32 weights can wrap, and then both properties fail. TLC shows this on 4 contracts with `HalfWord = 2`. The code has no such bound. A keeper of 2^32 contracts cannot fit in memory, so the bound holds in practice, but it is a premise of the theorems.

`SumFunction` is the Functions module's fold, `MapThenFoldSet` of Folds: a recursive function on the subsets of the domain. The proof proceeds in five steps:

- `SumIterDef` shows, by least counterexample on a subset's size, that this iterator satisfies its recursive equation on every finite domain.
- `SumBounds` takes the weights' and the quotas' folds together. Over any subset s:
  - W·Σq ≤ T·Σw;
  - T·Σw − W·Σq ≤ (W−1)·|positive weights in s|;
  - |positive| ≤ Σw ≤ (HalfWord−1)·|s|.

  Both folds take out the same `CHOOSE`n element of the same subset, so the fold's independence of order is never needed.
- `QuotaBounds` applies `SumBounds` at the whole domain. With at most `HalfWord + 1` contracts, Σw < 2^64, so the divisor is Σw, or 1 when all weights are 0.
- The inductive invariant `KInv` says that both maps are finite and that the cache is `calc_cache_quotas` of the applied map. TLC checked it before it was proved.
- `KInvQuotas` combines `KInv` with the bound to give both properties.

`KeeperSumProofs.tla` also proves **`KeeperSpecImplementsSpec`: `KeeperSpec => Spec`**. The whole keeper of `KeeperSidevm` implements `Keeper`'s `Spec`. Its steps are `Keeper` steps with the sidevm map added, and sidevm exits and the `try_restart_sidevms` sweep leave the weights, the cache and the applied map unchanged (`KeeperNextIsNext`). The corollary **`KeeperQuotasHold`** states both quota properties, under the same bound, for `KeeperSpec`, the specification the `keeper_quotas` run checks.

What stays with TLC:

- the action properties `NoGapSubmission`, `SuccessIsFinal` and `NoPrematureRetry`;
- `SinkComplete`, which is a violation run;
- all liveness: `EventsEventuallyPersisted` and `SidevmRestarted`. The provers handle neither `ENABLED` nor fairness.
- what a RECURSIVE operator computes. Recursion in the proved modules is written as recursive functions, so that their equations can be derived as above.

## 5. Not modelled, and the plan

- **Sequencer liveness**: under weak fairness of the loop and the tasks, and with the chain making progress, every offered message is eventually included.
- **The HTTP status server**: it only reads the factory under the mutex, and it is not modelled.
- **A persistence task that ends**: `tx.send` then fails, and the record is logged and dropped (`replay_gk.rs` 159). `run_persist` is outside these sources, and the model's persistence task never ends.
- **Torn checkpoint files**: a crash inside `dump_to_file` is atomic in the model. The link is switched only after the write, so a torn file is never the target of `checkpoint.latest`.
- **Pure formatting**: `try_decode*` only formats log text and is not modelled.
