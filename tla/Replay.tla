------------------------------- MODULE Replay -------------------------------
(***************************************************************************)
(* The gatekeeper replay of src/standalone/replay/src/replay_gk.rs: the    *)
(* ReplayFactory (storage, gk_launched, current_block, next_event_seq),    *)
(* the replay() driver loop that waits for finality, fetches a block's     *)
(* storage changes and its header, dispatches it and takes checkpoints,    *)
(* the bounded event channel to the persistence task, and crashes of the   *)
(* process followed by a restart from checkpoint.latest.                   *)
(*                                                                         *)
(* Storage is abstracted to the block it was last advanced to: a block is *)
(* [n, b], its height and its branch ("canon", or "fork" above ForkBase).  *)
(* calc_root_if_changes on the changes of block B matches B's header root  *)
(* exactly when the storage is at B's parent; a header of another block    *)
(* does not match.  A block's economic events are a count per branch and   *)
(* height; each record carries its sequence number, block, branch and      *)
(* index within the block.                                                 *)
(***************************************************************************)
EXTENDS Integers, Sequences, FiniteSets

CONSTANTS
    StartAt,          \* args.start_at: genesis storage is fetched there
    StopAt,           \* args.stop_at: replay stops before this block
    AssumeFinalized,  \* args.assume_finalized
    Interval,         \* args.checkpoint_interval
    ForkBase,         \* fork blocks exist above this height
    LaunchAt,         \* the first block holding a gatekeeper launch message
    Messages,         \* block -> the mq messages in its storage
    EvCount,          \* branch -> height -> events the gk emits there
    ChanCap,          \* capacity of the event channel (1024 * 5)
    MaxRestarts       \* bound on process restarts

Branches == {"canon", "fork"}

\* An mq message: its sender (a pallet or a worker), its destination topic
\* and its payload, given by what it decodes to.
Msg == [sender : {"pallet", "worker"},
        topic : {"GatekeeperLaunch", "other"},
        payload : {"MasterPubkeyOnChain", "RotateMasterKey", "undecodable"}]
Blocks == StartAt..StopAt

ASSUME StartAtAssumption == StartAt \in Nat
ASSUME StopAtAssumption == StopAt \in Nat /\ StartAt < StopAt
ASSUME AssumeFinalizedAssumption == AssumeFinalized \in Nat
ASSUME IntervalAssumption == Interval \in Nat
ASSUME ForkBaseAssumption == ForkBase \in Blocks
ASSUME LaunchAtAssumption == LaunchAt \in (StartAt + 1)..StopAt
ASSUME MessagesAssumption == Messages \in [Blocks -> Seq(Msg)]
\* LaunchAt is the first block whose messages hold the launch message: the
\* pallet's MasterPubkeyOnChain on the GatekeeperLaunch topic.
ASSUME LaunchAtFirstAssumption ==
    LET holdsLaunch(n) ==
            \E i \in DOMAIN Messages[n] :
                Messages[n][i] = [sender |-> "pallet", topic |-> "GatekeeperLaunch",
                                  payload |-> "MasterPubkeyOnChain"]
    IN  /\ holdsLaunch(LaunchAt)
        /\ \A n \in Blocks : holdsLaunch(n) => n >= LaunchAt
ASSUME EvCountAssumption == EvCount \in [Branches -> [Blocks -> Nat]]
ASSUME ChanCapAssumption == ChanCap \in Nat \ {0}
ASSUME MaxRestartsAssumption == MaxRestarts \in Nat

Genesis == [n |-> StartAt, b |-> "canon"]
NoLink == -1

VARIABLES
    \* the node
    best,         \* system_sync_state().current_block
    finalized,    \* finalized_number()
    onFork,       \* the node's best chain above ForkBase is the fork
    \* the replay process
    pc,           \* where the driver loop is, "down" when not running
    blockNumber,  \* block_number
    lastCkpt,     \* last_checkpoint_block
    fetched,      \* branch of the block whose storage changes were fetched
    header,       \* branch of the header fetched for it
    fac,          \* ReplayFactory: [cur, seq, launched, tip]
    outbox,       \* records of the block being dispatched, not yet sent
    chan,         \* records sent to the event channel, not yet persisted
    \* the disk and the persistence sink
    files,        \* block number -> dumped ReplayFactory
    link,         \* target of checkpoint.latest, NoLink when absent
    sink,         \* records persisted by the persistence task
    \* bookkeeping
    exitCause,    \* why the process last stopped
    restarts

nodeVars == <<best, finalized, onFork>>
procVars == <<pc, blockNumber, lastCkpt, fetched, header, fac, outbox, chan>>
diskVars == <<files, link, sink>>
vars == <<nodeVars, procVars, diskVars, exitCause, restarts>>

-----------------------------------------------------------------------------
(* The chain.                                                              *)

\* The branch of the node's best block at height n.
NodeBranch(n) == IF onFork /\ n > ForkBase THEN "fork" ELSE "canon"

Parent(n, b) ==
    IF b = "fork" /\ n - 1 > ForkBase
    THEN [n |-> n - 1, b |-> "fork"]
    ELSE [n |-> n - 1, b |-> "canon"]

\* Mutant: only the header's identity is compared, not the storage's block.
RootMatchesHeaderOnly(tip, n, b, h) == h = b

\* The state root computed from storage at `tip` and the changes of block
\* [n, b] equals the header root of block [n, h].
RootMatches(tip, n, b, h) == h = b /\ tip = Parent(n, b)

-----------------------------------------------------------------------------
(* ReplayFactory.                                                          *)

\* ReplayFactory::new: genesis storage, next_event_seq 1, no block, gk not
\* launched.
NewFactory == [cur |-> 0, seq |-> 1, launched |-> FALSE, tip |-> Genesis]

\* Mutant: the sender is not checked to be a pallet.
IsGkLaunchAnySender(m) ==
    m.topic = "GatekeeperLaunch" /\ m.payload = "MasterPubkeyOnChain"

(* helper::is_gk_launch: a pallet's message on the GatekeeperLaunch topic *)
(* that decodes to MasterPubkeyOnChain.                                   *)
IsGkLaunch(m) ==
    /\ m.sender = "pallet"
    /\ m.topic = "GatekeeperLaunch"
    /\ m.payload = "MasterPubkeyOnChain"

\* Block n holds a launch message.
HasLaunch(n) == \E i \in DOMAIN Messages[n] : IsGkLaunch(Messages[n][i])

\* handle_inbound_messages: messages before the launch message are skipped;
\* from the launch on, the gk processes them and emits its events.
Launched(f, n) == f.launched \/ HasLaunch(n)

\* Mutant: the launch message only sets gk_launched and the rest of its
\* block is skipped (continue in place of falling through).
EventCountAfterLaunch(f, n, b) == IF f.launched THEN EvCount[b][n] ELSE 0

EventCount(f, n, b) == IF Launched(f, n) THEN EvCount[b][n] ELSE 0

\* The records of block [n, b], numbered from next_event_seq.
Records(f, n, b) ==
    [i \in 1..EventCount(f, n, b) |->
        [seq |-> f.seq + i - 1, block |-> n, branch |-> b, idx |-> i]]

\* dispatch_block after the root check: apply the changes, handle the
\* messages, advance current_block.
Dispatched(f, n, b) ==
    [cur |-> n, seq |-> f.seq + EventCount(f, n, b),
     launched |-> Launched(f, n), tip |-> [n |-> n, b |-> b]]

-----------------------------------------------------------------------------
\* Mutant: next_event_seq is not part of the checkpoint (serde skip).
RestoredSeqReset ==
    IF link # NoLink THEN [files[link] EXCEPT !.seq = 1] ELSE NewFactory

(* The process state after a start: checkpoint.latest if it exists        *)
(* (get_checkpoint_path), else a fresh factory.                           *)
Restored == IF link # NoLink THEN files[link] ELSE NewFactory

\* Mutant: a restored run starts again at the checkpoint's own block.
FirstBlockRedo(f) == IF f.cur = 0 THEN StartAt + 1 ELSE f.cur

\* block_number after a start (the `last_checkpoint_block == 0` test).
FirstBlock(f) == IF f.cur = 0 THEN StartAt + 1 ELSE f.cur + 1

\* The node is at start_at when the replay first starts; it moves on by
\* NewBest and Finalize.
Init ==
    /\ best = StartAt
    /\ finalized = StartAt
    /\ onFork = FALSE
    /\ pc = "wait"
    /\ fac = NewFactory
    /\ blockNumber = StartAt + 1
    /\ lastCkpt = 0
    /\ fetched = "canon"
    /\ header = "canon"
    /\ outbox = <<>>
    /\ chan = <<>>
    /\ files = [n \in {} |-> NewFactory]
    /\ link = NoLink
    /\ sink = {}
    /\ exitCause = "none"
    /\ restarts = 0

-----------------------------------------------------------------------------
(* The driver loop of replay().                                            *)

(* block_number >= stop_at: wait_forever.                                  *)
Finish ==
    /\ pc = "wait"
    /\ blockNumber >= StopAt
    /\ pc' = "done"
    /\ UNCHANGED <<nodeVars, blockNumber, lastCkpt, fetched, header, fac, outbox, chan,
                   diskVars, exitCause, restarts>>

(* wait_for_block returns Ok once the block is at most the best block and *)
(* at most max(finalized, assume_finalized).                               *)
WaitDone ==
    /\ pc = "wait"
    /\ blockNumber < StopAt
    /\ blockNumber <= best
    /\ blockNumber <= IF finalized > AssumeFinalized
                      THEN finalized ELSE AssumeFinalized
    /\ pc' = "fetch"
    /\ UNCHANGED <<nodeVars, blockNumber, lastCkpt, fetched, header, fac, outbox, chan,
                   diskVars, exitCause, restarts>>

(* wait_for_block fails (system_sync_state errs) without "restart        *)
(* required": the error is logged and the loop goes on to fetch anyway.  *)
(* With "restart required" the loop reconnects and comes back here with   *)
(* the same block_number: a stutter.                                      *)
WaitError ==
    /\ pc = "wait"
    /\ blockNumber < StopAt
    /\ pc' = "fetch"
    /\ UNCHANGED <<nodeVars, blockNumber, lastCkpt, fetched, header, fac, outbox, chan,
                   diskVars, exitCause, restarts>>

(* fetch_storage_changes returns the changes of the node's best block at  *)
(* block_number, or fails (block unknown yet, transient error): log,      *)
(* sleep, back to the top of the loop.                                    *)
FetchChanges ==
    /\ pc = "fetch"
    /\ \/ /\ blockNumber <= best
          /\ fetched' = NodeBranch(blockNumber)
          /\ pc' = "header"
       \/ /\ pc' = "wait"
          /\ UNCHANGED fetched
    /\ UNCHANGED <<nodeVars, blockNumber, lastCkpt, header, fac, outbox, chan,
                   diskVars, exitCause, restarts>>

(* get_header_at(block_number): the node's best header at that height,   *)
(* or an error that `?` returns out of replay(), ending the process.      *)
FetchHeader ==
    /\ pc = "header"
    /\ \/ /\ blockNumber <= best
          /\ header' = NodeBranch(blockNumber)
          /\ pc' = "dispatch"
          /\ UNCHANGED exitCause
       \/ /\ pc' = "down"
          /\ exitCause' = "error"
          /\ UNCHANGED header
    /\ UNCHANGED <<nodeVars, blockNumber, lastCkpt, fetched, fac, outbox, chan,
                   diskVars, restarts>>

\* The checkpoint test of the loop.
CheckpointDue(n) == Interval > 0 /\ n >= Interval + lastCkpt

(* dispatch_block(...).expect("Block is valid"): a root mismatch panics;  *)
(* otherwise the changes are applied and the block's messages handled,    *)
(* collecting its records, which are then sent one by one.  The factory's *)
(* fields are all set here: current_block is written after the sends, but *)
(* the loop holds the factory's mutex across them, so nothing reads it.   *)
Dispatch ==
    /\ pc = "dispatch"
    /\ IF RootMatches(fac.tip, blockNumber, fetched, header)
       THEN /\ fac' = Dispatched(fac, blockNumber, fetched)
            /\ outbox' = Records(fac, blockNumber, fetched)
            /\ pc' = "send"
            /\ UNCHANGED exitCause
       ELSE /\ pc' = "down"
            /\ exitCause' = "panic"
            /\ UNCHANGED <<fac, outbox>>
    /\ UNCHANGED <<nodeVars, blockNumber, lastCkpt, fetched, header, chan,
                   diskVars, restarts>>

\* Mutant: the channel is taken as full one record early.
SendFullEarly == Len(chan) + 1 < ChanCap

\* tx.send(record).await has room for one more record.
SendRoom == Len(chan) < ChanCap

(* tx.send(record).await: the next record enters the channel once it has  *)
(* room; until then the loop waits here, holding the factory's mutex.     *)
Send ==
    /\ pc = "send"
    /\ outbox # <<>>
    /\ SendRoom
    /\ chan' = Append(chan, Head(outbox))
    /\ outbox' = Tail(outbox)
    /\ UNCHANGED <<nodeVars, pc, blockNumber, lastCkpt, fetched, header, fac,
                   diskVars, exitCause, restarts>>

(* All records sent: the loop either takes a checkpoint or moves on.      *)
Sent ==
    /\ pc = "send"
    /\ outbox = <<>>
    /\ IF CheckpointDue(blockNumber)
       THEN /\ pc' = "dump"
            /\ UNCHANGED blockNumber
       ELSE /\ pc' = "wait"
            /\ blockNumber' = blockNumber + 1
    /\ UNCHANGED <<nodeVars, lastCkpt, fetched, header, fac, outbox, chan,
                   diskVars, exitCause, restarts>>

(* dump_to_file("checkpoint.<n>").                                         *)
Dump ==
    /\ pc = "dump"
    /\ files' = [m \in DOMAIN files \cup {blockNumber} |->
                    IF m = blockNumber THEN fac ELSE files[m]]
    /\ pc' = "unlink"
    /\ UNCHANGED <<nodeVars, blockNumber, lastCkpt, fetched, header, fac, outbox, chan,
                   link, sink, exitCause, restarts>>

(* The old checkpoint.latest symlink is removed.                           *)
Unlink ==
    /\ pc = "unlink"
    /\ link' = NoLink
    /\ pc' = "symlink"
    /\ UNCHANGED <<nodeVars, blockNumber, lastCkpt, fetched, header, fac, outbox, chan,
                   files, sink, exitCause, restarts>>

(* checkpoint.latest -> checkpoint.<n>; the loop moves on.                 *)
Symlink ==
    /\ pc = "symlink"
    /\ link' = blockNumber
    /\ lastCkpt' = blockNumber
    /\ blockNumber' = blockNumber + 1
    /\ pc' = "wait"
    /\ UNCHANGED <<nodeVars, fetched, header, fac, outbox, chan, files, sink,
                   exitCause, restarts>>

-----------------------------------------------------------------------------
(* The process, the persistence task and the node.                         *)

(* The process dies anywhere: everything in memory, the records still in  *)
(* the channel included, is lost.                                         *)
Crash ==
    /\ pc # "down"
    /\ pc' = "down"
    /\ exitCause' = "crash"
    /\ UNCHANGED <<nodeVars, blockNumber, lastCkpt, fetched, header, fac, outbox, chan,
                   diskVars, restarts>>

(* replay() starts again: the factory comes from checkpoint.latest or is  *)
(* new, last_checkpoint_block is its current_block, the channel is empty. *)
Restart ==
    /\ pc = "down"
    /\ restarts < MaxRestarts
    /\ restarts' = restarts + 1
    /\ fac' = Restored
    /\ lastCkpt' = Restored.cur
    /\ blockNumber' = FirstBlock(Restored)
    /\ outbox' = <<>>
    /\ chan' = <<>>
    /\ pc' = "wait"
    /\ UNCHANGED <<nodeVars, fetched, header, diskVars, exitCause>>

(* run_persist stores the oldest record of the channel.                   *)
Persist ==
    /\ pc # "down"
    /\ chan # <<>>
    /\ sink' = sink \cup {Head(chan)}
    /\ chan' = Tail(chan)
    /\ UNCHANGED <<nodeVars, pc, blockNumber, lastCkpt, fetched, header, fac,
                   outbox, files, link, exitCause, restarts>>

NewBest ==
    /\ best < StopAt
    /\ best' = best + 1
    /\ UNCHANGED <<finalized, onFork, procVars, diskVars, exitCause, restarts>>

\* Finality follows the canonical chain: it passes ForkBase only while the
\* node is not on the fork.
Finalize ==
    /\ finalized < best
    /\ finalized + 1 > ForkBase => ~onFork
    /\ finalized' = finalized + 1
    /\ UNCHANGED <<best, onFork, procVars, diskVars, exitCause, restarts>>

\* The node switches between the fork and the canonical branch above ForkBase
\* while neither is final.
Reorg ==
    /\ finalized <= ForkBase
    /\ ForkBase + 1 < StopAt
    /\ onFork' = ~onFork
    /\ UNCHANGED <<best, finalized, procVars, diskVars, exitCause, restarts>>

Next ==
    \/ Finish \/ WaitDone \/ WaitError \/ FetchChanges \/ FetchHeader
    \/ Dispatch \/ Send \/ Sent \/ Dump \/ Unlink \/ Symlink
    \/ Crash \/ Restart \/ Persist
    \/ NewBest \/ Finalize \/ Reorg

Spec == Init /\ [][Next]_vars

(* The fairness the code justifies.  The driver loop is one tokio task    *)
(* that is never descheduled for good while it can step, and so is the   *)
(* persistence task run_persist.  fetch_storage_changes is retried every  *)
(* 5 s, so a block the node has is eventually fetched (strong fairness:   *)
(* a transient error may hit any single try).  The chain keeps producing  *)
(* and finalizing blocks.  Crashes, restarts (by an operator) and reorgs  *)
(* are the environment's and get no fairness.                             *)
Fairness ==
    /\ WF_vars(Finish \/ WaitDone \/ WaitError \/ FetchChanges \/ FetchHeader
               \/ Dispatch \/ Send \/ Sent \/ Dump \/ Unlink \/ Symlink)
    /\ SF_vars(FetchChanges /\ pc' = "header")
    /\ WF_vars(Persist)
    /\ WF_vars(NewBest) /\ WF_vars(Finalize)

FairSpec == Spec /\ Fairness

-----------------------------------------------------------------------------
TypeOK ==
    /\ best \in Blocks /\ finalized \in StartAt..best /\ onFork \in BOOLEAN
    /\ pc \in {"wait", "fetch", "header", "dispatch", "send", "dump",
              "unlink", "symlink", "done", "down"}
    /\ blockNumber \in (StartAt + 1)..StopAt
    /\ fetched \in Branches /\ header \in Branches
    /\ DOMAIN files \subseteq Blocks
    /\ link \in DOMAIN files \cup {NoLink}
    /\ exitCause \in {"none", "crash", "panic", "error"}

(* The canonical numbering.  SeqAfter[x] is next_event_seq after          *)
(* replaying, from genesis, the chain that ends in block x = [n, b].       *)
SeqAfter[x \in [n : Blocks, b : Branches]] ==
    IF x.n = StartAt THEN 1
    ELSE SeqAfter[Parent(x.n, x.b)]
           + (IF x.n >= LaunchAt THEN EvCount[x.b][x.n] ELSE 0)

\* The canonical block at height n.
CanonAt(n) == [n |-> n, b |-> "canon"]

\* The records that replaying the canonical blocks below stop_at emits.
CanonRecords ==
    UNION {{[seq |-> SeqAfter[CanonAt(n - 1)] + i - 1, block |-> n,
             branch |-> "canon", idx |-> i] :
               i \in 1..(SeqAfter[CanonAt(n)] - SeqAfter[CanonAt(n - 1)])} :
           n \in (StartAt + 1)..(StopAt - 1)}

\* A ReplayFactory that is exactly the replay of the chain ending at its tip.
Consistent(f) ==
    /\ f.seq = SeqAfter[f.tip]
    /\ f.launched = (f.tip.n >= LaunchAt)
    /\ f.cur = IF f.tip = Genesis THEN 0 ELSE f.tip.n

(* Safety.                                                                 *)

(* The live ReplayFactory and every checkpoint file on disk hold exactly  *)
(* the state that replaying, from genesis, the chain ending at their      *)
(* storage's block produces (event numbering and gk_launched included),   *)
(* through crashes, restarts from checkpoint.latest or from genesis, and  *)
(* fork blocks: a checkpoint always restores a state the replay could     *)
(* have reached.                                                          *)
StateConsistent ==
    /\ Consistent(fac)
    /\ \A m \in DOMAIN files : Consistent(files[m]) /\ files[m].cur = m

(* Every record in the persistence sink is the canonical one for its      *)
(* sequence number: replay emits the same events with the same numbers    *)
(* whatever crashes and restarts happen (the determinism the spec asks    *)
(* of dispatch and emission).                                             *)
EventsCanonical ==
    sink \subseteq CanonRecords

(* Once the replay has reached stop_at and the channel is drained, every  *)
(* canonical record is in the sink.                                       *)
SinkComplete ==
    pc = "done" /\ chan = <<>> => CanonRecords \subseteq sink

(* Without forks, dispatch_block never meets a state root mismatch: the   *)
(* storage is always at the parent of block_number when it is dispatched, *)
(* after a restart from a checkpoint or from genesis too.                 *)
NoRootMismatch ==
    exitCause # "panic"

(* Once checkpoint.latest exists it never disappears: the spec relinks   *)
(* it atomically, so a crash at any point restarts from a checkpoint.     *)
CheckpointLinkAtomic ==
    [][link # NoLink => link' # NoLink]_vars

\* The abstract view of the replay: the factory's block is `at`, the blocks
\* of the checkpoint files are `saved`.
Chain == INSTANCE ReplayChain WITH
    at <- fac.tip,
    saved <- {files[m].tip : m \in DOMAIN files}

(* Replay implements ReplayChain: the ReplayFactory's storage only ever   *)
(* moves to a child of the block it is at (dispatch_block's root check),  *)
(* checkpoint files save the block the factory is at, and a start resumes *)
(* from a saved block or from genesis, through forks, crashes and         *)
(* restarts.                                                              *)
ChainRefinement == Chain!Spec

(* replay() never ends because of an RPC error: the spec retries RPC      *)
(* failures and lets none propagate (a crash or the fatal root mismatch   *)
(* are the only ways the process stops).                                  *)
NoErrorExit ==
    exitCause # "error"

(* Liveness.  As long as the process never stops, every canonical record  *)
(* eventually reaches the sink: the driver waits for finality, the bounded *)
(* channel's sends wait for run_persist to make room (the loop holding    *)
(* the factory's mutex meanwhile), and nothing waits forever.             *)
EventsEventuallyPersisted ==
    [](exitCause = "none") => <>(CanonRecords \subseteq sink)

=============================================================================
