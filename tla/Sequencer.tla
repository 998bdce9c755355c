----------------------------- MODULE Sequencer -----------------------------
(***************************************************************************)
(* The offchain-message sequencer of prb (src/standalone/prb/src/          *)
(* messages.rs): the single master_loop that owns every SenderContext, the *)
(* refresh tasks that ask the node for mq_next_sequence, the submission    *)
(* tasks that hand a message to the transaction manager, and the height    *)
(* tracker.  The chain and its transaction pool are the environment: the   *)
(* node includes the message of a sender whose sequence is the next one on *)
(* chain, rejects outdated or duplicate submissions, and may report a       *)
(* timeout before or after a transaction is included.                      *)
(*                                                                         *)
(* Events of the unbounded mpsc queue are consumed by the loop alone; a    *)
(* task's event is fixed when the task sends it, so a task that computes   *)
(* its result and the loop that applies it are one step unless something  *)
(* the loop reads can change in between (the RPC refresh: two steps).     *)
(***************************************************************************)
EXTENDS Integers, FiniteSets

CONSTANTS
    Senders,          \* message origins (MessageOrigin), model values
    MaxSeq,           \* messages 0..MaxSeq-1 exist for every sender
    TxTimeout,        \* TX_TIMEOUT_IN_BLOCKS
    MaxHeight,        \* bound on the chain height
    InitChainHeight,  \* chain height when master_loop starts
    MaxTasks,         \* bound on refresh tasks and DoSync events in flight
    MaxInFlight,      \* bound: RemoveSender only while fewer submissions of
                      \* each message are in flight, since a removal lets the
                      \* loop submit again what it forgot
    MaxLag            \* how far below the chain's best block a reported
                      \* best block may be

ASSUME SendersAssumption == Senders # {}
ASSUME MaxSeqAssumption == MaxSeq \in Nat \ {0}
ASSUME TxTimeoutAssumption == TxTimeout \in Nat
ASSUME HeightAssumption ==
    /\ MaxHeight \in Nat
    /\ InitChainHeight \in 0..MaxHeight
ASSUME MaxTasksAssumption == MaxTasks \in Nat \ {0}
ASSUME MaxInFlightAssumption == MaxInFlight \in Nat
ASSUME MaxLagAssumption == MaxLag \in Nat

Seqs == 0..(MaxSeq - 1)
Heights == 0..MaxHeight

\* MessageState, plus "Absent" for a sequence with no MessageContext.
States == {"Absent", "Pending", "Successful", "Failure", "Timeout"}
Ctx == [state : States, at : Heights]
NoCtx == [state |-> "Absent", at |-> 0]

\* Option<u64> of the refreshed next sequence: None is NoSeq.
NoSeq == MaxSeq + 1
NoJob == [sender |-> "none", rest |-> {}]

VARIABLES
    \* the environment: chain, transaction pool, best block
    chainNext,    \* sender -> next sequence accepted on chain
    pool,         \* sender -> sequences whose tx sits in the node's pool
    chainHeight,  \* best block number
    \* master_loop state
    height,       \* current_height
    known,        \* senders with a SenderContext
    nodeNext,     \* SenderContext.node_next_sequence
    ctx,          \* SenderContext.pending_messages, NoCtx where absent
    job,          \* the DoSyncMessages batch the loop is iterating over
    \* spawned tasks
    rpcTasks,     \* do_update_next_sequence_and_sync_messages, before RPC
    doSyncs,      \* DoSyncMessages events sent, not yet handled
    submits,      \* sender -> seq -> do_sync_message tasks not yet at node
    waits,        \* sender -> seq -> tasks whose tx is in the pool
    \* history
    sentAt        \* sender -> seq -> chainHeight at the last spawn

chainVars == <<chainNext, pool, chainHeight>>
loopVars == <<height, known, nodeNext, ctx, job>>
taskVars == <<rpcTasks, doSyncs, submits, waits>>
vars == <<chainVars, loopVars, taskVars, sentAt>>

-----------------------------------------------------------------------------
(* MessageContext predicates.                                              *)

SatSub(a, b) == IF a > b THEN a - b ELSE 0

IsPending(c, h) ==
    \/ /\ c.state = "Timeout"
       /\ h <= c.at \/ SatSub(h, c.at) <= TxTimeout
    \/ /\ c.state = "Pending"
       /\ ~(h > c.at /\ SatSub(h, c.at) > TxTimeout)

IsPendingOrSuccess(c, h) == IsPending(c, h) \/ c.state = "Successful"

IsTimeoutOrFailure(c, h) == ~IsPendingOrSuccess(c, h)

\* Mutant: any existing context counts as live (contains_key in place of
\* is_pending_or_success).
LiveAnyContext(s, n, h) == n \in Seqs /\ ctx[s][n].state # "Absent"

\* The while loop from node_next_sequence over pending-or-successful
\* contexts; a sequence past the last message has no context.
Live(s, n, h) == n \in Seqs /\ IsPendingOrSuccess(ctx[s][n], h)

CalculateNextSequence(s, h) ==
    CHOOSE n \in nodeNext[s]..MaxSeq :
        /\ \A m \in nodeNext[s]..(n - 1) : Live(s, m, h)
        /\ ~Live(s, n, h)

Bump(f, s, q, d) == [f EXCEPT ![s][q] = @ + d]

-----------------------------------------------------------------------------
Init ==
    /\ chainNext = [s \in Senders |-> 0]
    /\ pool = [s \in Senders |-> {}]
    /\ chainHeight = InitChainHeight
    /\ height = 0
    /\ known = {}
    /\ nodeNext = [s \in Senders |-> 0]
    /\ ctx = [s \in Senders |-> [q \in Seqs |-> NoCtx]]
    /\ job = NoJob
    /\ rpcTasks = {}
    /\ doSyncs = {}
    /\ submits = [s \in Senders |-> [q \in Seqs |-> 0]]
    /\ waits = [s \in Senders |-> [q \in Seqs |-> 0]]
    /\ sentAt = [s \in Senders |-> [q \in Seqs |-> 0]]

(* SyncMessages: the producer offers the messages of s from lo on (lo is  *)
(* at most the chain's next sequence: the worker drops what it saw on     *)
(* chain).  Contexts that are pending or successful filter their message  *)
(* out; a non-empty rest goes to a spawned refresh task.                  *)
SyncMessages(s, lo) ==
    LET batch == lo..(MaxSeq - 1)
        msgs == IF s \in known
                THEN {q \in batch : IsTimeoutOrFailure(ctx[s][q], height)}
                ELSE batch
    IN /\ job = NoJob
       /\ lo <= chainNext[s]
       /\ msgs # {}
       /\ Cardinality(rpcTasks) + Cardinality(doSyncs) < MaxTasks
       /\ rpcTasks' = rpcTasks \cup {[sender |-> s, msgs |-> msgs]}
       /\ UNCHANGED <<chainVars, loopVars, doSyncs, submits, waits, sentAt>>

(* The refresh task: mq_next_sequence succeeds with the chain's value or *)
(* fails (None); either way it sends DoSyncMessages.                      *)
UpdateNextSequence(t) ==
    /\ \E next \in {chainNext[t.sender], NoSeq} :
          doSyncs' = doSyncs \cup {[sender |-> t.sender, msgs |-> t.msgs,
                                    next |-> next]}
    /\ rpcTasks' = rpcTasks \ {t}
    /\ UNCHANGED <<chainVars, loopVars, submits, waits, sentAt>>

(* DoSyncMessages for a new sender without a refreshed sequence: dropped. *)
DoSyncDrop(e) ==
    /\ job = NoJob
    /\ e.sender \notin known
    /\ e.next = NoSeq
    /\ doSyncs' = doSyncs \ {e}
    /\ UNCHANGED <<chainVars, loopVars, rpcTasks, submits, waits, sentAt>>

\* Mutant: without a refreshed value the batch's first message is taken as
\* the node's next sequence.
DoSyncStartFallback(e) ==
    /\ job = NoJob
    /\ e.sender \in known \/ e.next # NoSeq
    /\ doSyncs' = doSyncs \ {e}
    /\ known' = known \cup {e.sender}
    /\ nodeNext' = [nodeNext EXCEPT ![e.sender] =
                       IF e.next # NoSeq THEN e.next
                       ELSE CHOOSE m \in e.msgs : \A m2 \in e.msgs : m <= m2]
    /\ job' = [sender |-> e.sender, rest |-> e.msgs]
    /\ UNCHANGED <<chainVars, height, ctx, rpcTasks, submits, waits, sentAt>>

(* DoSyncMessages otherwise: create or update the SenderContext and start *)
(* the loop over the batch.                                               *)
DoSyncStart(e) ==
    /\ job = NoJob
    /\ e.sender \in known \/ e.next # NoSeq
    /\ doSyncs' = doSyncs \ {e}
    /\ known' = known \cup {e.sender}
    /\ nodeNext' = IF e.next # NoSeq
                   THEN [nodeNext EXCEPT ![e.sender] = e.next]
                   ELSE nodeNext
    /\ job' = [sender |-> e.sender, rest |-> e.msgs]
    /\ UNCHANGED <<chainVars, height, ctx, rpcTasks, submits, waits, sentAt>>

(* One iteration of the loop over the batch.  The batch is walked in the  *)
(* order the producer gave it, which the code does not fix: an iteration *)
(* takes any message m left, and recomputes the expected sequence from    *)
(* the contexts as updated by the previous iterations.                    *)
NextBatchJob(m) ==
    job' = IF job.rest = {m} THEN NoJob
           ELSE [job EXCEPT !.rest = @ \ {m}]

(* A message that is not the expected next sequence is ignored.           *)
DoSyncSkip(m) ==
    /\ job # NoJob
    /\ m \in job.rest
    /\ m # CalculateNextSequence(job.sender, height)
    /\ NextBatchJob(m)
    /\ UNCHANGED <<chainVars, height, known, nodeNext, ctx, taskVars, sentAt>>

\* Mutant: submitted_at stamped one block ahead of current_height.
DoSyncSubmitStampAhead(m) ==
    LET s == job.sender
        q == m
    IN /\ job # NoJob
       /\ q \in job.rest
       /\ q = CalculateNextSequence(s, height)
       /\ NextBatchJob(q)
       /\ ctx' = [ctx EXCEPT ![s][q] = [state |-> "Pending", at |-> height + 1]]
       /\ submits' = Bump(submits, s, q, 1)
       /\ sentAt' = [sentAt EXCEPT ![s][q] = chainHeight]
       /\ UNCHANGED <<chainVars, height, known, nodeNext, rpcTasks, doSyncs, waits>>

(* The expected message gets a Pending context stamped with the current   *)
(* height, new or retried (the code's own pending-or-successful re-check  *)
(* cannot hold there: calculate_next_sequence stopped at this sequence    *)
(* because its context is absent or not pending-or-successful), and a     *)
(* do_sync_message task is spawned.                                       *)
DoSyncSubmit(m) ==
    LET s == job.sender
        q == m
    IN /\ job # NoJob
       /\ q \in job.rest
       /\ q = CalculateNextSequence(s, height)
       /\ NextBatchJob(q)
       /\ ctx' = [ctx EXCEPT ![s][q] = [state |-> "Pending", at |-> height]]
       /\ submits' = Bump(submits, s, q, 1)
       /\ sentAt' = [sentAt EXCEPT ![s][q] = chainHeight]
       /\ UNCHANGED <<chainVars, height, known, nodeNext, rpcTasks, doSyncs, waits>>

\* Mutant: a timed-out submission is taken for a success.
ResultStateTimeoutAsSuccess(r) ==
    CASE r = "Ok" -> "Successful"
      [] r = "TxTimedOut" -> "Successful"
      [] r = "Err" -> "Failure"

(* The state a Completed result maps to: Ok, an error whose text holds    *)
(* "Tx timed out!", any other error.                                      *)
ResultState(r) ==
    CASE r = "Ok" -> "Successful"
      [] r = "TxTimedOut" -> "Timeout"
      [] r = "Err" -> "Failure"

(* Completed: the loop records the result if the context still exists.    *)
Completed(s, q, r) ==
    ctx' = IF s \in known /\ ctx[s][q].state # "Absent"
           THEN [ctx EXCEPT ![s][q].state = ResultState(r)]
           ELSE ctx

(* The submission reaches the node: an outdated or already pooled tx is   *)
(* rejected at once and the task completes with an error (Failure).       *)
SubmitRejected(s, q) ==
    /\ job = NoJob
    /\ submits[s][q] > 0
    /\ q < chainNext[s] \/ q \in pool[s]
    /\ submits' = Bump(submits, s, q, -1)
    /\ Completed(s, q, "Err")
    /\ UNCHANGED <<chainVars, height, known, nodeNext, job, rpcTasks, doSyncs,
                   waits, sentAt>>

SubmitAccepted(s, q) ==
    /\ submits[s][q] > 0
    /\ q >= chainNext[s]
    /\ q \notin pool[s]
    /\ submits' = Bump(submits, s, q, -1)
    /\ waits' = Bump(waits, s, q, 1)
    /\ pool' = [pool EXCEPT ![s] = @ \cup {q}]
    /\ UNCHANGED <<chainNext, chainHeight, loopVars, rpcTasks, doSyncs, sentAt>>

(* sync_offchain_message returns: Ok once included; "Tx timed out!" at    *)
(* any time (the tx may stay in the pool, or already be included); any    *)
(* other error once the tx left the pool without being included.          *)
Results(s, q) ==
    IF q < chainNext[s] THEN {"Ok", "TxTimedOut"}
    ELSE IF q \in pool[s] THEN {"TxTimedOut"}
    ELSE {"TxTimedOut", "Err"}

Complete(s, q) ==
    /\ job = NoJob
    /\ waits[s][q] > 0
    /\ waits' = Bump(waits, s, q, -1)
    /\ \E r \in Results(s, q) : Completed(s, q, r)
    /\ UNCHANGED <<chainVars, height, known, nodeNext, job, rpcTasks, doSyncs,
                   submits, sentAt>>

RemoveSender(s) ==
    /\ job = NoJob
    /\ s \in known
    /\ \A q \in Seqs : submits[s][q] + waits[s][q] < MaxInFlight
    /\ known' = known \ {s}
    /\ nodeNext' = [nodeNext EXCEPT ![s] = 0]
    /\ ctx' = [ctx EXCEPT ![s] = [q \in Seqs |-> NoCtx]]
    /\ UNCHANGED <<chainVars, height, job, taskVars, sentAt>>

(* Mutant: a reported number trusted however far it lags the chain.      *)
ReportedHeightsUnbounded == {h \in Heights : h <= chainHeight}

(* background_update_current_height: the best-block subscription of the  *)
(* data source use_parachain_api! picked, resubscribed (to whichever      *)
(* source is picked then) whenever the stream ends.  A source may lag the *)
(* chain, and a reorg may lower the best block, so a reported number is   *)
(* anywhere from MaxLag below the chain's best block up to it.            *)
ReportedHeights == {h \in Heights : h <= chainHeight /\ chainHeight - h <= MaxLag}

(* CurrentHeight(h): current_height = h, whatever it was before.          *)
CurrentHeight(h) ==
    /\ job = NoJob
    /\ height # h
    /\ height' = h
    /\ UNCHANGED <<chainVars, known, nodeNext, ctx, job, taskVars, sentAt>>

(* Environment: a block, inclusion of the next tx, a tx leaving the pool. *)
NewBlock ==
    /\ chainHeight < MaxHeight
    /\ chainHeight' = chainHeight + 1
    /\ UNCHANGED <<chainNext, pool, loopVars, taskVars, sentAt>>

Include(s) ==
    /\ chainNext[s] \in pool[s]
    /\ chainNext' = [chainNext EXCEPT ![s] = @ + 1]
    /\ pool' = [pool EXCEPT ![s] = @ \ {chainNext[s]}]
    /\ UNCHANGED <<chainHeight, loopVars, taskVars, sentAt>>

PoolDrop(s, q) ==
    /\ q \in pool[s]
    /\ pool' = [pool EXCEPT ![s] = @ \ {q}]
    /\ UNCHANGED <<chainNext, chainHeight, loopVars, taskVars, sentAt>>

Next ==
    \/ \E s \in Senders, lo \in Seqs : SyncMessages(s, lo)
    \/ \E t \in rpcTasks : UpdateNextSequence(t)
    \/ \E e \in doSyncs : DoSyncDrop(e) \/ DoSyncStart(e)
    \/ \E m \in Seqs : DoSyncSkip(m) \/ DoSyncSubmit(m)
    \/ \E s \in Senders, q \in Seqs :
          \/ SubmitRejected(s, q)
          \/ SubmitAccepted(s, q)
          \/ Complete(s, q)
          \/ PoolDrop(s, q)
    \/ \E s \in Senders : RemoveSender(s) \/ Include(s)
    \/ \E h \in ReportedHeights : CurrentHeight(h)
    \/ NewBlock

Spec == Init /\ [][Next]_vars

-----------------------------------------------------------------------------
TypeOK ==
    /\ chainNext \in [Senders -> 0..MaxSeq]
    /\ pool \in [Senders -> SUBSET Seqs]
    /\ chainHeight \in Heights
    /\ height \in Heights
    /\ known \subseteq Senders
    /\ nodeNext \in [Senders -> 0..MaxSeq]
    /\ ctx \in [Senders -> [Seqs -> Ctx]]
    /\ job \in {NoJob} \cup [sender : Senders, rest : (SUBSET Seqs) \ {{}}]
    /\ rpcTasks \subseteq [sender : Senders, msgs : (SUBSET Seqs) \ {{}}]
    /\ doSyncs \subseteq [sender : Senders, msgs : (SUBSET Seqs) \ {{}},
                          next : 0..MaxSeq \cup {NoSeq}]
    /\ submits \in [Senders -> [Seqs -> Nat]]
    /\ waits \in [Senders -> [Seqs -> Nat]]
    /\ sentAt \in [Senders -> [Seqs -> Heights]]

-----------------------------------------------------------------------------
(* Safety.                                                                 *)

(* The loop's node_next_sequence of a sender is never ahead of the chain,  *)
(* although it is written from RPC answers that may be stale by the time   *)
(* their DoSyncMessages is handled, and out of order with each other.      *)
NodeNextBehindChain ==
    \A s \in known : nodeNext[s] <= chainNext[s]

(* A context marked Successful is on chain.  Admission filters such a     *)
(* message out for good, so a Successful context for a message that is    *)
(* not on chain would lose that message.                                  *)
SuccessfulIsIncluded ==
    \A s \in Senders, q \in Seqs :
        ctx[s][q].state = "Successful" => q < chainNext[s]

(* Whenever the loop spawns a submission of message q, every earlier      *)
(* message of the sender is on chain or has a pending or successful       *)
(* context: calculate_next_sequence never lets a submission jump a gap.   *)
NoGapSubmission ==
    [][\A s \in Senders, q \in Seqs :
         submits'[s][q] > submits[s][q] =>
            \A p \in 0..(q - 1) :
                p < chainNext[s] \/ IsPendingOrSuccess(ctx[s][p], height)]_vars

(* Once the loop has marked a message Successful, its context stays       *)
(* Successful for as long as the sender is known (the admission filter    *)
(* relies on it to never offer the message again).                        *)
SuccessIsFinal ==
    [][\A s \in known \cap known', q \in Seqs :
         ctx[s][q].state = "Successful" => ctx'[s][q].state = "Successful"]_vars

(* A message is resubmitted while an earlier submission of it is still in *)
(* flight only after more than TX_TIMEOUT_IN_BLOCKS blocks have passed on *)
(* chain since that submission (the grace window of is_pending).          *)
NoPrematureRetry ==
    [][\A s \in Senders, q \in Seqs :
         /\ submits'[s][q] > submits[s][q]
         /\ submits[s][q] + waits[s][q] > 0
         => chainHeight - sentAt[s][q] > TxTimeout]_vars

=============================================================================
