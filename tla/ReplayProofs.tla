---------------------------- MODULE ReplayProofs ----------------------------
(***************************************************************************)
(* Proofs about the Replay module: without a fork the replay never meets  *)
(* a state root mismatch, for every start, stop, launch, interval, event  *)
(* counts and number of restarts.                                         *)
(***************************************************************************)
EXTENDS Replay, TLAPS

\* The record of a ReplayFactory, with the storage's block.
Factories ==
    [cur : Nat, seq : Int, launched : BOOLEAN,
     tip : [n : Blocks, b : Branches]]

\* A factory whose storage is at canonical block n, as replaying up to n
\* leaves it (current_block is 0 at genesis).
AtCanon(f, n) ==
    /\ f \in Factories
    /\ f.tip = [n |-> n, b |-> "canon"]
    /\ f.cur = IF n = StartAt THEN 0 ELSE n

(* The inductive invariant: the node stays on the canonical branch, every *)
(* checkpoint file holds the factory of its own block, checkpoint.latest  *)
(* names one of them, and the live factory's storage is at the block      *)
(* before block_number (at block_number while a checkpoint is taken).     *)
RInv ==
    /\ onFork = FALSE
    /\ fetched = "canon" /\ header = "canon"
    /\ exitCause # "panic"
    /\ blockNumber \in (StartAt + 1)..StopAt
    /\ DOMAIN files \subseteq (StartAt + 1)..(StopAt - 1)
    /\ \A m \in DOMAIN files : AtCanon(files[m], m)
    /\ link # NoLink => link \in DOMAIN files
    /\ pc \in {"fetch", "header", "dispatch", "send", "dump", "unlink",
              "symlink"} => blockNumber < StopAt
    /\ pc \in {"wait", "fetch", "header", "dispatch"}
         => AtCanon(fac, blockNumber - 1)
    /\ pc \in {"send", "dump", "unlink", "symlink"} => AtCanon(fac, blockNumber)
    /\ pc \in {"unlink", "symlink"} => blockNumber \in DOMAIN files

(* The invariant the refinement rests on: checkpoint files are named by  *)
(* their factory's block, checkpoint.latest names one of them, a fork     *)
(* block is fetched only above the fork base, and while a checkpoint is  *)
(* taken the factory is at the block being checkpointed.                  *)
CInv ==
    /\ blockNumber \in (StartAt + 1)..StopAt
    /\ fetched \in Branches
    /\ DOMAIN files \subseteq (StartAt + 1)..(StopAt - 1)
    /\ \A m \in DOMAIN files : files[m].tip.n = m /\ files[m].cur = m
    /\ link # NoLink => link \in DOMAIN files
    /\ pc \in {"header", "dispatch"} /\ fetched = "fork" => blockNumber > ForkBase
    /\ pc \in {"fetch", "header", "dispatch", "send", "dump", "unlink",
              "symlink"} => blockNumber < StopAt
    /\ pc \in {"send", "dump", "unlink", "symlink"}
         => fac.tip.n = blockNumber /\ fac.cur = blockNumber
    /\ pc \in {"unlink", "symlink"} => blockNumber \in DOMAIN files

USE StartAtAssumption, StopAtAssumption, AssumeFinalizedAssumption,
    IntervalAssumption, ForkBaseAssumption, LaunchAtAssumption,
    MessagesAssumption, EvCountAssumption, ChanCapAssumption,
    MaxRestartsAssumption
USE DEF nodeVars, procVars, diskVars

\* No fork block lies below stop_at: Reorg is never enabled.
NoForks == ForkBase + 1 >= StopAt

-----------------------------------------------------------------------------
(* Lemmas on the ReplayFactory operators.                                  *)

(* A fresh factory is the replay of nothing: storage at genesis.          *)
LEMMA NewFactoryAtGenesis == AtCanon(NewFactory, StartAt)
BY DEF AtCanon, NewFactory, Factories, Genesis, Blocks, Branches

(* The block after a canonical factory's tip passes the root check.       *)
LEMMA RootMatchesNext ==
    ASSUME NEW f, NEW n \in Int, AtCanon(f, n - 1)
    PROVE  RootMatches(f.tip, n, "canon", "canon")
BY DEF AtCanon, RootMatches, Parent

(* dispatch_block advances a canonical factory to the block dispatched.   *)
LEMMA DispatchedAtCanon ==
    ASSUME NEW f, NEW n \in (StartAt + 1)..StopAt, AtCanon(f, n - 1)
    PROVE  AtCanon(Dispatched(f, n, "canon"), n)
<1>1. EventCount(f, n, "canon") \in Nat
  BY DEF EventCount, Blocks, Branches
<1>2. f.seq + EventCount(f, n, "canon") \in Int
  BY <1>1 DEF AtCanon, Factories
<1>3. Launched(f, n) \in BOOLEAN
  BY DEF Launched, AtCanon, Factories
<1>4. n \in Blocks /\ n # StartAt /\ n \in Nat
  BY DEF Blocks
<1>. QED  BY <1>2, <1>3, <1>4 DEF AtCanon, Factories, Dispatched, Branches

(* A start resumes right after the block its factory is at: the restored *)
(* checkpoint's block, or start_at for a fresh factory.                   *)
LEMMA RestoredResumes ==
    ASSUME RInv
    PROVE  /\ AtCanon(Restored, FirstBlock(Restored) - 1)
           /\ FirstBlock(Restored) \in (StartAt + 1)..StopAt
<1>1. CASE link # NoLink
  <2>1. link \in DOMAIN files /\ link \in (StartAt + 1)..(StopAt - 1)
    BY <1>1 DEF RInv
  <2>2. AtCanon(files[link], link)
    BY <2>1 DEF RInv
  <2>3. Restored = files[link]
    BY <1>1 DEF Restored
  <2>4. files[link].cur = link /\ link # 0
    BY <2>1, <2>2 DEF AtCanon
  <2>5. FirstBlock(Restored) = link + 1
    BY <2>3, <2>4 DEF FirstBlock
  <2>. QED  BY <2>1, <2>2, <2>3, <2>5
<1>2. CASE link = NoLink
  <2>1. Restored = NewFactory /\ FirstBlock(Restored) = StartAt + 1
    BY <1>2 DEF Restored, FirstBlock, NewFactory
  <2>. QED  BY <2>1, NewFactoryAtGenesis
<1>. QED  BY <1>1, <1>2

-----------------------------------------------------------------------------
(* The invariant.                                                          *)

LEMMA RInvInit == Init => RInv
<1> SUFFICES ASSUME Init PROVE RInv
  OBVIOUS
<1>1. AtCanon(fac, blockNumber - 1)
  BY NewFactoryAtGenesis DEF Init
<1>. QED  BY <1>1 DEF Init, RInv

LEMMA RInvStep == NoForks /\ RInv /\ [Next]_vars => RInv'
<1> SUFFICES ASSUME NoForks, RInv, [Next]_vars PROVE RInv'
  OBVIOUS
<1>0. /\ onFork = FALSE /\ fetched = "canon" /\ header = "canon"
      /\ blockNumber \in (StartAt + 1)..StopAt
  BY DEF RInv
<1>1. CASE Finish
  BY <1>1 DEF Finish, RInv
<1>2. CASE WaitDone
  BY <1>2 DEF WaitDone, RInv
<1>3. CASE WaitError
  BY <1>3 DEF WaitError, RInv
<1>4. CASE FetchChanges
  <2>1. NodeBranch(blockNumber) = "canon"
    BY <1>0 DEF NodeBranch
  <2>. QED  BY <1>4, <2>1 DEF FetchChanges, RInv
<1>5. CASE FetchHeader
  <2>1. NodeBranch(blockNumber) = "canon"
    BY <1>0 DEF NodeBranch
  <2>. QED  BY <1>5, <2>1 DEF FetchHeader, RInv
<1>6. CASE Dispatch
  <2>1. pc = "dispatch" /\ AtCanon(fac, blockNumber - 1)
        /\ blockNumber < StopAt
    BY <1>6 DEF Dispatch, RInv
  <2>2. RootMatches(fac.tip, blockNumber, fetched, header)
    BY <1>0, <2>1, RootMatchesNext
  <2>3. AtCanon(fac', blockNumber)
    BY <1>0, <1>6, <2>1, <2>2, DispatchedAtCanon DEF Dispatch
  <2>. QED  BY <1>6, <2>1, <2>2, <2>3 DEF Dispatch, RInv
<1>17. CASE Send
  BY <1>17 DEF Send, RInv
<1>18. CASE Sent
  <2>1. pc = "send" /\ AtCanon(fac, blockNumber) /\ blockNumber < StopAt
    BY <1>18 DEF Sent, RInv
  <2>2. CASE CheckpointDue(blockNumber)
    BY <1>18, <2>1, <2>2 DEF Sent, RInv
  <2>3. CASE ~CheckpointDue(blockNumber)
    BY <1>0, <1>18, <2>1, <2>3 DEF Sent, RInv
  <2>. QED  BY <2>2, <2>3
<1>7. CASE Dump
  <2>1. pc = "dump" /\ AtCanon(fac, blockNumber) /\ blockNumber < StopAt
    BY <1>7 DEF Dump, RInv
  <2>2. \A m \in DOMAIN files' : AtCanon(files'[m], m)
    BY <1>7, <2>1 DEF Dump, RInv
  <2>3. DOMAIN files' \subseteq (StartAt + 1)..(StopAt - 1)
    BY <1>0, <1>7, <2>1 DEF Dump, RInv
  <2>. QED  BY <1>7, <2>1, <2>2, <2>3 DEF Dump, RInv
<1>8. CASE Unlink
  BY <1>8 DEF Unlink, RInv
<1>9. CASE Symlink
  <2>1. pc = "symlink" /\ AtCanon(fac, blockNumber) /\ blockNumber < StopAt
        /\ blockNumber \in DOMAIN files
    BY <1>9 DEF Symlink, RInv
  <2>. QED  BY <1>0, <1>9, <2>1 DEF Symlink, RInv
<1>10. CASE Crash
  BY <1>10 DEF Crash, RInv
<1>11. CASE Restart
  <2>1. AtCanon(fac', blockNumber' - 1) /\ blockNumber' \in (StartAt + 1)..StopAt
    BY <1>11, RestoredResumes DEF Restart
  <2>. QED  BY <1>11, <2>1 DEF Restart, RInv
<1>12. CASE Persist
  BY <1>12 DEF Persist, RInv
<1>13. CASE NewBest
  BY <1>13 DEF NewBest, RInv
<1>14. CASE Finalize
  BY <1>14 DEF Finalize, RInv
<1>15. CASE Reorg
  BY <1>15 DEF Reorg, NoForks, Blocks
<1>16. CASE UNCHANGED vars
  BY <1>16 DEF vars, nodeVars, procVars, diskVars, RInv
<1>. QED  BY <1>1, <1>2, <1>3, <1>4, <1>5, <1>6, <1>7, <1>8, <1>9, <1>10,
             <1>11, <1>12, <1>13, <1>14, <1>15, <1>16, <1>17, <1>18 DEF Next

(* Without a fork below stop_at, dispatch_block's expect("Block is valid") *)
(* never fires: through crashes anywhere and restarts from                 *)
(* checkpoint.latest or from genesis, the storage is always at the parent *)
(* of the block the driver loop dispatches.                               *)
THEOREM NoRootMismatchHolds == NoForks => (Spec => []NoRootMismatch)
<1> SUFFICES ASSUME NoForks PROVE Spec => []NoRootMismatch
  OBVIOUS
<1>1. RInv => NoRootMismatch
  BY DEF RInv, NoRootMismatch
<1>. QED  BY <1>1, RInvInit, RInvStep, PTL DEF Spec
-----------------------------------------------------------------------------
(* Refinement of ReplayChain, with or without forks.                       *)

\* The abstract saved blocks under the refinement mapping.
Saved == {files[m].tip : m \in DOMAIN files}

LEMMA CInvInit == Init => CInv
BY DEF Init, CInv, Branches

LEMMA CInvStep == CInv /\ [Next]_vars => CInv'
<1> SUFFICES ASSUME CInv, [Next]_vars PROVE CInv'
  OBVIOUS
<1>1. CASE Finish
  BY <1>1 DEF Finish, CInv
<1>2. CASE WaitDone
  BY <1>2 DEF WaitDone, CInv
<1>3. CASE WaitError
  BY <1>3 DEF WaitError, CInv
<1>4. CASE FetchChanges
  BY <1>4 DEF FetchChanges, CInv, NodeBranch, Branches
<1>5. CASE FetchHeader
  BY <1>5 DEF FetchHeader, CInv
<1>6. CASE Dispatch
  <2>1. CASE RootMatches(fac.tip, blockNumber, fetched, header)
    <3>1. fac'.tip.n = blockNumber /\ fac'.cur = blockNumber
      BY <1>6, <2>1 DEF Dispatch, Dispatched
    <3>. QED  BY <1>6, <2>1, <3>1 DEF Dispatch, CInv
  <2>2. CASE ~RootMatches(fac.tip, blockNumber, fetched, header)
    BY <1>6, <2>2 DEF Dispatch, CInv
  <2>. QED  BY <2>1, <2>2
<1>17. CASE Send
  BY <1>17 DEF Send, CInv
<1>18. CASE Sent
  <2>1. CASE CheckpointDue(blockNumber)
    BY <1>18, <2>1 DEF Sent, CInv
  <2>2. CASE ~CheckpointDue(blockNumber)
    <3>1. blockNumber' = blockNumber + 1 /\ pc' = "wait" /\ pc = "send"
      BY <1>18, <2>2 DEF Sent
    <3>2. blockNumber < StopAt
      BY <3>1 DEF CInv
    <3>. QED  BY <1>18, <3>1, <3>2 DEF Sent, CInv
  <2>. QED  BY <2>1, <2>2
<1>7. CASE Dump
  BY <1>7 DEF Dump, CInv
<1>8. CASE Unlink
  BY <1>8 DEF Unlink, CInv
<1>9. CASE Symlink
  BY <1>9 DEF Symlink, CInv
<1>10. CASE Crash
  BY <1>10 DEF Crash, CInv
<1>11. CASE Restart
  <2>1. FirstBlock(Restored) \in (StartAt + 1)..StopAt
    <3>1. CASE link # NoLink
      <4>1. link \in (StartAt + 1)..(StopAt - 1) /\ files[link].cur = link
        BY <3>1 DEF CInv
      <4>. QED  BY <3>1, <4>1 DEF Restored, FirstBlock
    <3>2. CASE link = NoLink
      BY <3>2 DEF Restored, FirstBlock, NewFactory
    <3>. QED  BY <3>1, <3>2
  <2>. QED  BY <1>11, <2>1 DEF Restart, CInv
<1>12. CASE Persist
  BY <1>12 DEF Persist, CInv
<1>13. CASE NewBest
  BY <1>13 DEF NewBest, CInv
<1>14. CASE Finalize
  BY <1>14 DEF Finalize, CInv
<1>15. CASE Reorg
  BY <1>15 DEF Reorg, CInv
<1>16. CASE UNCHANGED vars
  BY <1>16 DEF vars, CInv
<1>. QED  BY <1>1, <1>2, <1>3, <1>4, <1>5, <1>6, <1>7, <1>8, <1>9, <1>10,
             <1>11, <1>12, <1>13, <1>14, <1>15, <1>16, <1>17, <1>18 DEF Next

(* The initial state maps to ReplayChain's: genesis, nothing saved.       *)
LEMMA ChainInit == Init => Chain!Init
BY DEF Init, Chain!Init, NewFactory, Genesis, Chain!Genesis

(* A dispatched block is a child of the block the storage was at.         *)
LEMMA DispatchAdvances ==
    ASSUME CInv, pc = "dispatch",
           RootMatches(fac.tip, blockNumber, fetched, header)
    PROVE  [n |-> blockNumber, b |-> fetched] \in Chain!Children(fac.tip)
<1> DEFINE y == [n |-> blockNumber, b |-> fetched]
<1>1. fac.tip = Parent(blockNumber, fetched)
  BY DEF RootMatches
<1>2. y \in Chain!BlockIds
  <2>1. blockNumber \in StartAt..StopAt /\ fetched \in Branches
    BY DEF CInv
  <2>2. fetched = "fork" => blockNumber \in (ForkBase + 1)..StopAt
    BY <2>1 DEF CInv, Blocks
  <2>. QED  BY <2>1, <2>2 DEF Chain!BlockIds, Branches
<1>3. y.n = fac.tip.n + 1 /\ (y.b = fac.tip.b \/ y.n = ForkBase + 1)
  <2>1. blockNumber \in Int /\ ForkBase \in Int
    BY DEF CInv, Blocks
  <2>2. CASE fetched = "canon"
    <3>1. fac.tip = [n |-> blockNumber - 1, b |-> "canon"]
      BY <1>1, <2>2 DEF Parent
    <3>. QED  BY <2>1, <2>2, <3>1
  <2>3. CASE fetched = "fork" /\ blockNumber - 1 > ForkBase
    <3>1. fac.tip = [n |-> blockNumber - 1, b |-> "fork"]
      BY <1>1, <2>3 DEF Parent
    <3>. QED  BY <2>1, <2>3, <3>1
  <2>4. CASE fetched = "fork" /\ ~(blockNumber - 1 > ForkBase)
    <3>1. blockNumber > ForkBase
      BY <2>4 DEF CInv
    <3>2. fac.tip = [n |-> blockNumber - 1, b |-> "canon"]
      BY <1>1, <2>4 DEF Parent
    <3>3. blockNumber = ForkBase + 1
      BY <2>1, <2>4, <3>1
    <3>. QED  BY <2>1, <3>2, <3>3
  <2>. QED  BY <2>2, <2>3, <2>4 DEF CInv, Branches
<1>. QED  BY <1>2, <1>3 DEF Chain!Children

(* A checkpoint of block n replaces the saved block of height n by the    *)
(* factory's block.                                                       *)
LEMMA DumpSaves ==
    ASSUME CInv, Dump
    PROVE  Saved' = {x \in Saved : x.n # fac.tip.n} \cup {fac.tip}
<1>1. /\ pc = "dump" /\ fac.tip.n = blockNumber
      /\ files' = [m \in DOMAIN files \cup {blockNumber} |->
                      IF m = blockNumber THEN fac ELSE files[m]]
  BY DEF Dump, CInv
<1>2. ASSUME NEW x \in Saved' PROVE x \in {x2 \in Saved : x2.n # fac.tip.n} \cup {fac.tip}
  <2>1. PICK m \in DOMAIN files' : x = files'[m].tip
    BY <1>2 DEF Saved
  <2>2. CASE m = blockNumber
    BY <1>1, <2>1, <2>2
  <2>3. CASE m # blockNumber
    <3>1. m \in DOMAIN files /\ x = files[m].tip
      BY <1>1, <2>1, <2>3
    <3>2. x.n = m
      BY <3>1 DEF CInv
    <3>. QED  BY <1>1, <2>3, <3>1, <3>2 DEF Saved
  <2>. QED  BY <2>2, <2>3
<1>3. ASSUME NEW x \in {x2 \in Saved : x2.n # fac.tip.n} \cup {fac.tip} PROVE x \in Saved'
  <2>1. CASE x = fac.tip
    BY <1>1, <2>1 DEF Saved
  <2>2. CASE x \in Saved /\ x.n # fac.tip.n
    <3>1. PICK m \in DOMAIN files : x = files[m].tip
      BY <2>2 DEF Saved
    <3>2. m # blockNumber
      BY <1>1, <2>2, <3>1 DEF CInv
    <3>. QED  BY <1>1, <3>1, <3>2 DEF Saved
  <2>. QED  BY <1>3, <2>1, <2>2
<1>. QED  BY <1>2, <1>3

LEMMA ChainStep == CInv /\ [Next]_vars => [Chain!Next]_Chain!vars
<1> SUFFICES ASSUME CInv, [Next]_vars PROVE [Chain!Next]_Chain!vars
  OBVIOUS
<1>0. UNCHANGED <<fac, files>> => UNCHANGED Chain!vars
  BY DEF Chain!vars
<1>1. CASE Dispatch /\ RootMatches(fac.tip, blockNumber, fetched, header)
  <2>1. pc = "dispatch" /\ fac'.tip = [n |-> blockNumber, b |-> fetched]
        /\ files' = files
    BY <1>1 DEF Dispatch, Dispatched
  <2>2. [n |-> blockNumber, b |-> fetched] \in Chain!Children(fac.tip)
    BY <1>1, <2>1, DispatchAdvances
  <2>3. Chain!Advance
    BY <2>1, <2>2 DEF Chain!Advance
  <2>. QED  BY <2>3 DEF Chain!Next
<1>2. CASE Dump
  <2>1. Saved' = {x \in Saved : x.n # fac.tip.n} \cup {fac.tip} /\ fac' = fac
    BY <1>2, DumpSaves DEF Dump
  <2>2. Chain!Save
    BY <2>1 DEF Chain!Save, Saved
  <2>. QED  BY <2>2 DEF Chain!Next
<1>3. CASE Restart
  <2>1. files' = files /\ fac' = Restored
    BY <1>3 DEF Restart
  <2>2. Restored.tip \in Saved \cup {Chain!Genesis}
    <3>1. CASE link # NoLink
      <4>1. link \in DOMAIN files
        BY <3>1 DEF CInv
      <4>. QED  BY <3>1, <4>1 DEF Restored, Saved
    <3>2. CASE link = NoLink
      BY <3>2 DEF Restored, NewFactory, Genesis, Chain!Genesis
    <3>. QED  BY <3>1, <3>2
  <2>3. Chain!Restore
    BY <2>1, <2>2 DEF Chain!Restore, Saved
  <2>. QED  BY <2>3 DEF Chain!Next
<1>4. CASE Dispatch /\ ~RootMatches(fac.tip, blockNumber, fetched, header)
  BY <1>0, <1>4 DEF Dispatch
<1>5. CASE \/ Finish \/ WaitDone \/ WaitError \/ FetchChanges \/ FetchHeader
           \/ Send \/ Sent \/ Unlink \/ Symlink \/ Crash \/ Persist
           \/ NewBest \/ Finalize \/ Reorg \/ UNCHANGED vars
  <2>1. UNCHANGED <<fac, files>>
    BY <1>5 DEF Finish, WaitDone, WaitError, FetchChanges, FetchHeader,
                Send, Sent, Unlink, Symlink, Crash, Persist, NewBest, Finalize, Reorg, vars
  <2>. QED  BY <1>0, <2>1
<1>. QED  BY <1>1, <1>2, <1>3, <1>4, <1>5 DEF Next

(* Replay implements ReplayChain for every value of the constants, forks *)
(* included: dispatch_block's root check only lets the storage move to a  *)
(* child of its block, a checkpoint saves the factory's block under its   *)
(* height, and a start (checkpoint.latest or a new factory) resumes from  *)
(* a saved block or from genesis.                                         *)
THEOREM ChainRefinementHolds == Spec => ChainRefinement
<1>1. Spec => []CInv
  BY CInvInit, CInvStep, PTL DEF Spec
<1>. QED  BY <1>1, ChainInit, ChainStep, PTL DEF Spec, ChainRefinement, Chain!Spec

=============================================================================
