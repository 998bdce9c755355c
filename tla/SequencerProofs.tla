-------------------------- MODULE SequencerProofs --------------------------
(***************************************************************************)
(* Proofs about the Sequencer module, for every value of its constants.   *)
(***************************************************************************)
EXTENDS Sequencer, TLAPS

USE SendersAssumption, MaxSeqAssumption, TxTimeoutAssumption,
    HeightAssumption, MaxTasksAssumption, MaxInFlightAssumption,
    MaxLagAssumption
USE DEF chainVars, loopVars, taskVars

-----------------------------------------------------------------------------
(* Type correctness.                                                       *)

(* Every result the node can return maps to a MessageState.               *)
LEMMA ResultStateType ==
    ASSUME NEW r \in {"Ok", "TxTimedOut", "Err"}
    PROVE  ResultState(r) \in States
BY DEF ResultState, States

(* Recording a result keeps a context well-formed.                       *)
LEMMA CtxStateUpdate ==
    ASSUME NEW c \in Ctx, NEW x \in States
    PROVE  [c EXCEPT !.state = x] \in Ctx
BY DEF Ctx

(* The loop's batch, without the message just handled, is either done or *)
(* still non-empty.                                                       *)
LEMMA NextBatchJobType ==
    ASSUME job \in [sender : Senders, rest : (SUBSET Seqs) \ {{}}],
           NEW m, NextBatchJob(m)
    PROVE  job' \in {NoJob} \cup [sender : Senders, rest : (SUBSET Seqs) \ {{}}]
BY DEF NextBatchJob

(* Every step of the loop, its tasks and the chain keeps the state        *)
(* well-typed.                                                            *)
LEMMA TypeOKStep == TypeOK /\ [Next]_vars => TypeOK'
<1> SUFFICES ASSUME TypeOK, [Next]_vars PROVE TypeOK'
  OBVIOUS
<1>1. ASSUME NEW s \in Senders, NEW lo \in Seqs, SyncMessages(s, lo)
      PROVE  TypeOK'
  <2> DEFINE msgs == IF s \in known
                     THEN {q \in lo..(MaxSeq - 1) :
                             IsTimeoutOrFailure(ctx[s][q], height)}
                     ELSE lo..(MaxSeq - 1)
  <2>1. msgs \in (SUBSET Seqs) \ {{}}
    BY <1>1 DEF SyncMessages, Seqs
  <2>2. rpcTasks' = rpcTasks \cup {[sender |-> s, msgs |-> msgs]}
    BY <1>1 DEF SyncMessages
  <2>3. rpcTasks' \subseteq [sender : Senders, msgs : (SUBSET Seqs) \ {{}}]
    <3>1. [sender |-> s, msgs |-> msgs]
            \in [sender : Senders, msgs : (SUBSET Seqs) \ {{}}]
      BY <2>1
    <3>2. rpcTasks \subseteq [sender : Senders, msgs : (SUBSET Seqs) \ {{}}]
      BY DEF TypeOK
    <3>. QED  BY <2>2, <3>1, <3>2, Zenon
  <2>. QED  BY <1>1, <2>3 DEF SyncMessages, TypeOK
<1>2. ASSUME NEW t \in rpcTasks, UpdateNextSequence(t) PROVE TypeOK'
  BY <1>2 DEF UpdateNextSequence, TypeOK, NoSeq
<1>3. ASSUME NEW e \in doSyncs, DoSyncDrop(e) PROVE TypeOK'
  BY <1>3 DEF DoSyncDrop, TypeOK
<1>4. ASSUME NEW e \in doSyncs, DoSyncStart(e) PROVE TypeOK'
  BY <1>4 DEF DoSyncStart, TypeOK, NoSeq
<1>5. ASSUME NEW m \in Seqs, DoSyncSkip(m) PROVE TypeOK'
  <2>1. job \in [sender : Senders, rest : (SUBSET Seqs) \ {{}}]
    BY <1>5 DEF DoSyncSkip, TypeOK, NoJob
  <2>2. job' \in {NoJob} \cup [sender : Senders, rest : (SUBSET Seqs) \ {{}}]
    BY <2>1, <1>5, NextBatchJobType DEF DoSyncSkip
  <2>. QED  BY <2>2, <1>5 DEF DoSyncSkip, TypeOK
<1>6. ASSUME NEW m \in Seqs, DoSyncSubmit(m) PROVE TypeOK'
  <2>1. job \in [sender : Senders, rest : (SUBSET Seqs) \ {{}}]
    BY <1>6 DEF DoSyncSubmit, TypeOK, NoJob
  <2>2. job' \in {NoJob} \cup [sender : Senders, rest : (SUBSET Seqs) \ {{}}]
    BY <2>1, <1>6, NextBatchJobType DEF DoSyncSubmit
  <2>3. [state |-> "Pending", at |-> height] \in Ctx
    BY DEF TypeOK, Ctx, States
  <2>0. job.sender \in Senders
    BY <2>1
  <2>4. ctx' \in [Senders -> [Seqs -> Ctx]]
    BY <2>0, <2>3, <1>6 DEF DoSyncSubmit, TypeOK
  <2>5. submits' \in [Senders -> [Seqs -> Nat]]
    BY <2>0, <1>6 DEF DoSyncSubmit, TypeOK, Bump
  <2>6. sentAt' \in [Senders -> [Seqs -> Heights]]
    BY <2>0, <1>6 DEF DoSyncSubmit, TypeOK
  <2>. QED  BY <2>2, <2>4, <2>5, <2>6, <1>6 DEF DoSyncSubmit, TypeOK
<1>7. ASSUME NEW s \in Senders, NEW q \in Seqs, SubmitRejected(s, q)
      PROVE  TypeOK'
  <2>1. ResultState("Err") \in States
    BY ResultStateType
  <2>2. ctx' \in [Senders -> [Seqs -> Ctx]]
    <3>0. ctx[s][q] \in Ctx
      BY DEF TypeOK
    <3>1. [ctx[s][q] EXCEPT !.state = ResultState("Err")] \in Ctx
      BY <2>1, <3>0, CtxStateUpdate
    <3>. QED  BY <1>7, <3>1 DEF SubmitRejected, Completed, TypeOK
  <2>3. submits' \in [Senders -> [Seqs -> Nat]]
    BY <1>7 DEF SubmitRejected, TypeOK, Bump
  <2>. QED  BY <1>7, <2>2, <2>3 DEF SubmitRejected, TypeOK
<1>8. ASSUME NEW s \in Senders, NEW q \in Seqs, SubmitAccepted(s, q)
      PROVE  TypeOK'
  <2>1. submits' \in [Senders -> [Seqs -> Nat]]
    BY <1>8 DEF SubmitAccepted, TypeOK, Bump
  <2>2. waits' \in [Senders -> [Seqs -> Nat]]
    BY <1>8 DEF SubmitAccepted, TypeOK, Bump
  <2>3. pool' \in [Senders -> SUBSET Seqs]
    BY <1>8 DEF SubmitAccepted, TypeOK
  <2>. QED  BY <1>8, <2>1, <2>2, <2>3 DEF SubmitAccepted, TypeOK
<1>9. ASSUME NEW s \in Senders, NEW q \in Seqs, Complete(s, q)
      PROVE  TypeOK'
  <2>1. PICK r \in Results(s, q) : Completed(s, q, r)
    BY <1>9 DEF Complete
  <2>2. ResultState(r) \in States
    BY ResultStateType DEF Results
  <2>3. ctx' \in [Senders -> [Seqs -> Ctx]]
    <3>0. ctx[s][q] \in Ctx
      BY DEF TypeOK
    <3>1. [ctx[s][q] EXCEPT !.state = ResultState(r)] \in Ctx
      BY <2>2, <3>0, CtxStateUpdate
    <3>. QED  BY <2>1, <3>1 DEF Completed, TypeOK
  <2>4. waits' \in [Senders -> [Seqs -> Nat]]
    BY <1>9 DEF Complete, TypeOK, Bump
  <2>. QED  BY <1>9, <2>3, <2>4 DEF Complete, TypeOK
<1>10. ASSUME NEW s \in Senders, NEW q \in Seqs, PoolDrop(s, q)
       PROVE  TypeOK'
  BY <1>10 DEF PoolDrop, TypeOK
<1>11. ASSUME NEW s \in Senders, RemoveSender(s) PROVE TypeOK'
  BY <1>11 DEF RemoveSender, TypeOK, NoCtx, Ctx, States, Heights
<1>12. ASSUME NEW s \in Senders, Include(s) PROVE TypeOK'
  <2>1. chainNext[s] \in Seqs
    BY <1>12 DEF Include, TypeOK
  <2>2. chainNext' \in [Senders -> 0..MaxSeq]
    <3>1. chainNext[s] + 1 \in 0..MaxSeq
      BY <2>1 DEF Seqs
    <3>2. chainNext' = [chainNext EXCEPT ![s] = chainNext[s] + 1]
      BY <1>12 DEF Include
    <3>. QED  BY <3>1, <3>2 DEF TypeOK
  <2>3. pool' \in [Senders -> SUBSET Seqs]
    BY <1>12 DEF Include, TypeOK
  <2>. QED  BY <1>12, <2>2, <2>3 DEF Include, TypeOK
<1>13. ASSUME NEW h \in ReportedHeights, CurrentHeight(h) PROVE TypeOK'
  BY <1>13 DEF CurrentHeight, ReportedHeights, TypeOK
<1>14. CASE NewBlock
  BY <1>14 DEF NewBlock, TypeOK, Heights
<1>15. CASE UNCHANGED vars
  BY <1>15 DEF vars, chainVars, loopVars, taskVars, TypeOK
<1>. QED
  BY <1>1, <1>2, <1>3, <1>4, <1>5, <1>6, <1>7, <1>8, <1>9, <1>10,
     <1>11, <1>12, <1>13, <1>14, <1>15 DEF Next

(* master_loop's state is well-typed in every reachable state: contexts   *)
(* hold a MessageState and a height, the batch and the events carry      *)
(* non-empty sets of existing sequences, and task counters are naturals.  *)
THEOREM TypeCorrect == Spec => []TypeOK
<1>1. Init => TypeOK
  BY DEF Init, TypeOK, NoCtx, Ctx, States, Heights, NoJob
<1>. QED  BY <1>1, TypeOKStep, PTL DEF Spec



-----------------------------------------------------------------------------
(* The chain only grows: no step lowers a sender's next sequence on chain. *)
LEMMA ChainNextMonotone ==
    ASSUME TypeOK, [Next]_vars
    PROVE  \A s \in Senders : chainNext[s] <= chainNext'[s]
<1>1. CASE \E s \in Senders : Include(s)
  <2>1. PICK s0 \in Senders : Include(s0)
    BY <1>1
  <2>. QED  BY <2>1 DEF Include, TypeOK
<1>2. CASE ~\E s \in Senders : Include(s)
  <2>1. chainNext' = chainNext
    BY <1>2 DEF Next, vars, SyncMessages, UpdateNextSequence, DoSyncDrop,
              DoSyncStart, DoSyncSkip, DoSyncSubmit, SubmitRejected,
              SubmitAccepted, Complete, PoolDrop, RemoveSender,
              CurrentHeight, NewBlock
  <2>. QED  BY <2>1 DEF TypeOK
<1>. QED  BY <1>1, <1>2

-----------------------------------------------------------------------------
(* NodeNextBehindChain.  A refresh task reads chainNext and its           *)
(* DoSyncMessages is handled later, so the invariant alone is not         *)
(* inductive: every answer still in the queue must be behind the chain    *)
(* too, which holds because the chain never goes back.                    *)
RefreshBehindChain ==
    \A e \in doSyncs : e.next # NoSeq => e.next <= chainNext[e.sender]

IInv == TypeOK /\ NodeNextBehindChain /\ RefreshBehindChain

LEMMA IInvStep == IInv /\ [Next]_vars => IInv'
<1> SUFFICES ASSUME IInv, [Next]_vars PROVE IInv'
  OBVIOUS
<1>0. TypeOK /\ NodeNextBehindChain /\ RefreshBehindChain
  BY DEF IInv
<1>1. TypeOK'
  BY <1>0, TypeOKStep
<1>2. \A s \in Senders : chainNext[s] <= chainNext'[s]
  BY <1>0, ChainNextMonotone
<1>3. CASE UNCHANGED <<known, nodeNext, doSyncs>>
  BY <1>0, <1>1, <1>2, <1>3 DEF IInv, NodeNextBehindChain, RefreshBehindChain,
                                TypeOK
<1>4. ASSUME NEW t \in rpcTasks, UpdateNextSequence(t) PROVE IInv'
  BY <1>0, <1>1, <1>4 DEF IInv, UpdateNextSequence, NodeNextBehindChain,
                          RefreshBehindChain, TypeOK
<1>5. ASSUME NEW e \in doSyncs, DoSyncDrop(e) PROVE IInv'
  BY <1>0, <1>1, <1>5 DEF IInv, DoSyncDrop, NodeNextBehindChain,
                          RefreshBehindChain
<1>6. ASSUME NEW e \in doSyncs, DoSyncStart(e) PROVE IInv'
  <2>1. NodeNextBehindChain'
    BY <1>0, <1>6 DEF DoSyncStart, NodeNextBehindChain, RefreshBehindChain,
                      TypeOK
  <2>2. RefreshBehindChain'
    BY <1>0, <1>6 DEF DoSyncStart, RefreshBehindChain
  <2>. QED  BY <1>1, <2>1, <2>2 DEF IInv
<1>7. ASSUME NEW s \in Senders, RemoveSender(s) PROVE IInv'
  BY <1>0, <1>1, <1>7 DEF IInv, RemoveSender, NodeNextBehindChain,
                          RefreshBehindChain, TypeOK
<1>. QED
  BY <1>3, <1>4, <1>5, <1>6, <1>7
     DEF Next, vars, SyncMessages, DoSyncSkip, DoSyncSubmit, SubmitRejected,
         SubmitAccepted, Complete, PoolDrop, Include, CurrentHeight, NewBlock

(* The loop's node_next_sequence never runs ahead of the chain, whatever  *)
(* the order in which stale refresh answers of do_update_next_sequence_   *)
(* and_sync_messages are applied by DoSyncMessages.                       *)
THEOREM NodeNextBehindChainHolds == Spec => []NodeNextBehindChain
<1>1. Init => IInv
  BY DEF Init, IInv, TypeOK, NoCtx, Ctx, States, Heights, NoJob,
         NodeNextBehindChain, RefreshBehindChain
<1>2. IInv => NodeNextBehindChain
  BY DEF IInv
<1>. QED  BY <1>1, <1>2, IInvStep, PTL DEF Spec

-----------------------------------------------------------------------------
(* SuccessfulIsIncluded is inductive together with TypeOK: only an "Ok"   *)
(* result marks a context Successful, the node answers Ok only for an     *)
(* included transaction, and inclusion is never undone.                   *)
SInv == TypeOK /\ SuccessfulIsIncluded

LEMMA OkOnlyWhenIncluded ==
    ASSUME TypeOK, NEW s \in Senders, NEW q \in Seqs, NEW r \in Results(s, q),
           ResultState(r) = "Successful"
    PROVE  q < chainNext[s]
BY DEF Results, ResultState

LEMMA SInvStep == SInv /\ [Next]_vars => SInv'
<1> SUFFICES ASSUME SInv, [Next]_vars PROVE SInv'
  OBVIOUS
<1>0. TypeOK /\ SuccessfulIsIncluded
  BY DEF SInv
<1>1. TypeOK'
  BY <1>0, TypeOKStep
<1>2. \A s \in Senders : chainNext[s] <= chainNext'[s]
  BY <1>0, ChainNextMonotone
<1>3. CASE ctx' = ctx
  <2> SUFFICES ASSUME NEW s \in Senders, NEW q \in Seqs,
                      ctx'[s][q].state = "Successful"
               PROVE  q < chainNext'[s]
    BY <1>1 DEF SInv, SuccessfulIsIncluded
  <2>1. q < chainNext[s]
    BY <1>0, <1>3 DEF SuccessfulIsIncluded
  <2>2. chainNext[s] <= chainNext'[s] /\ chainNext[s] \in Nat
                                      /\ chainNext'[s] \in Nat
    BY <1>0, <1>1, <1>2 DEF TypeOK
  <2>. QED  BY <2>1, <2>2 DEF Seqs
<1>4. ASSUME NEW m \in Seqs, DoSyncSubmit(m) PROVE SInv'
  <2> SUFFICES ASSUME NEW s \in Senders, NEW q \in Seqs,
                      ctx'[s][q].state = "Successful"
               PROVE  q < chainNext'[s]
    BY <1>1 DEF SInv, SuccessfulIsIncluded
  <2>1. ctx'[s][q] = ctx[s][q]
    BY <1>0, <1>4 DEF DoSyncSubmit, TypeOK
  <2>. QED  BY <1>0, <1>4, <2>1 DEF DoSyncSubmit, SuccessfulIsIncluded
<1>5. ASSUME NEW s \in Senders, NEW q \in Seqs, SubmitRejected(s, q)
      PROVE  SInv'
  <2>1. ResultState("Err") = "Failure"
    BY DEF ResultState
  <2>. QED  BY <1>0, <1>1, <1>5, <2>1
            DEF SInv, SubmitRejected, Completed, SuccessfulIsIncluded, TypeOK
<1>6. ASSUME NEW s \in Senders, NEW q \in Seqs, Complete(s, q)
      PROVE  SInv'
  <2>1. PICK r \in Results(s, q) : Completed(s, q, r)
    BY <1>6 DEF Complete
  <2>2. ResultState(r) = "Successful" => q < chainNext[s]
    BY <1>0, <2>1, OkOnlyWhenIncluded
  <2> SUFFICES ASSUME NEW s2 \in Senders, NEW q2 \in Seqs,
                      ctx'[s2][q2].state = "Successful"
               PROVE  q2 < chainNext'[s2]
    BY <1>1 DEF SInv, SuccessfulIsIncluded
  <2>3. chainNext' = chainNext
    BY <1>6 DEF Complete
  <2>4. CASE s2 = s /\ q2 = q /\ s \in known /\ ctx[s][q].state # "Absent"
    <3>1. ctx'[s2][q2].state = ResultState(r)
      BY <1>0, <2>1, <2>4 DEF Completed, TypeOK
    <3>. QED  BY <2>2, <2>3, <2>4, <3>1
  <2>5. CASE ~(s2 = s /\ q2 = q /\ s \in known /\ ctx[s][q].state # "Absent")
    <3>1. ctx'[s2][q2] = ctx[s2][q2]
      BY <1>0, <2>1, <2>5 DEF Completed, TypeOK
    <3>. QED  BY <1>0, <2>3, <3>1 DEF SuccessfulIsIncluded
  <2>. QED  BY <2>4, <2>5
<1>7. ASSUME NEW s \in Senders, RemoveSender(s) PROVE SInv'
  BY <1>0, <1>1, <1>7
     DEF SInv, RemoveSender, SuccessfulIsIncluded, TypeOK, NoCtx
<1>. QED
  BY <1>3, <1>4, <1>5, <1>6, <1>7
     DEF Next, vars, SyncMessages, UpdateNextSequence, DoSyncDrop,
         DoSyncStart, DoSyncSkip, SubmitAccepted, PoolDrop, Include,
         CurrentHeight, NewBlock

(* A context the loop marks Successful belongs to a message that is on    *)
(* chain: the stale-completion overwrite can demote a success, but no     *)
(* interleaving of results promotes a message that was never included.    *)
THEOREM SuccessfulIsIncludedHolds == Spec => []SuccessfulIsIncluded
<1>1. Init => SInv
  BY DEF Init, SInv, TypeOK, NoCtx, Ctx, States, Heights, NoJob,
         SuccessfulIsIncluded
<1>2. SInv => SuccessfulIsIncluded
  BY DEF SInv
<1>. QED  BY <1>1, <1>2, SInvStep, PTL DEF Spec


=============================================================================
