-------------------------- MODULE ReplayStateProofs --------------------------
(***************************************************************************)
(* Proofs that the replay's state is always the replay of the chain it is *)
(* at (StateConsistent), through forks, crashes and restarts, for every   *)
(* start, stop, launch block, messages, event counts and interval.        *)
(* SeqAfter is a recursive function: SeqAfterDef shows that it satisfies  *)
(* its defining equation, by building the fixpoint on every prefix of the *)
(* block range (a least counterexample of Nat gives the induction).       *)
(***************************************************************************)
EXTENDS ReplayProofs, WellFoundedInduction

USE StartAtAssumption, StopAtAssumption, LaunchAtAssumption, EvCountAssumption,
    ForkBaseAssumption
USE DEF nodeVars, procVars, diskVars

-----------------------------------------------------------------------------
(* The canonical numbering.                                                *)

\* The body of SeqAfter's definition, for a candidate function g.
SeqStep(g, x) ==
    IF x.n = StartAt THEN 1
    ELSE g[Parent(x.n, x.b)] + (IF x.n >= LaunchAt THEN EvCount[x.b][x.n] ELSE 0)

\* The blocks up to height k.
BlocksTo(k) == [n : StartAt..k, b : Branches]

(* A non-empty set of naturals has a least element.                       *)
LEMMA NatSetHasLeast ==
    ASSUME NEW T \in SUBSET Nat, T # {}
    PROVE  \E m \in T : \A m2 \in T : m <= m2
<1>1. PICK x \in T : \A y \in T : ~(<<y, x>> \in OpToRel(<, Nat))
  BY NatLessThanWellFounded, WFMin
<1>2. \A y \in T : ~(y < x)
  BY <1>1 DEF OpToRel
<1>. QED  BY <1>2

(* The parent of a block above genesis is the block one lower.            *)
LEMMA ParentBelow ==
    ASSUME NEW x \in [n : Blocks, b : Branches], x.n # StartAt
    PROVE  /\ Parent(x.n, x.b) \in [n : Blocks, b : Branches]
           /\ Parent(x.n, x.b).n = x.n - 1
BY DEF Parent, Blocks, Branches

\* g satisfies SeqAfter's equation on the blocks up to height k.
PrefixFixpoint(g, k) ==
    /\ g \in [BlocksTo(k) -> Int]
    /\ \A x \in BlocksTo(k) : g[x] = SeqStep(g, x)

(* The equation has a solution on every prefix of the block range: the   *)
(* solution up to k - 1 extends to k, each block of height k reading only *)
(* its parent at height k - 1.                                            *)
LEMMA PrefixFixpointExists ==
    \A k \in Blocks : \E g : PrefixFixpoint(g, k)
<1> SUFFICES ASSUME NEW k0 \in Blocks, ~\E g : PrefixFixpoint(g, k0)
             PROVE  FALSE
  OBVIOUS
<1> DEFINE T == {k \in Blocks : ~\E g : PrefixFixpoint(g, k)}
<1>1. T \in SUBSET Nat
  BY DEF Blocks
<1>2. k0 \in T
  OBVIOUS
<1>3. PICK m \in T : \A m2 \in T : m <= m2
  BY <1>1, <1>2, NatSetHasLeast
<1>4. CASE m = StartAt
  <2> DEFINE g0 == [x \in BlocksTo(StartAt) |-> 1]
  <2>1. PrefixFixpoint(g0, StartAt)
    BY DEF PrefixFixpoint, SeqStep, BlocksTo
  <2>. QED  BY <2>1, <1>3, <1>4 DEF T
<1>5. CASE m # StartAt
  <2>0. m \in Blocks
    BY <1>3 DEF T
  <2>1. m - 1 \in Blocks /\ m - 1 \notin T
    <3>1. m - 1 \in Blocks
      BY <2>0, <1>5 DEF Blocks
    <3>2. ~(m <= m - 1)
      BY <2>0 DEF Blocks
    <3>. QED  BY <3>1, <3>2, <1>3
  <2>2. PICK g : PrefixFixpoint(g, m - 1)
    BY <2>1
  <2> DEFINE h == [x \in BlocksTo(m) |-> IF x.n < m THEN g[x] ELSE SeqStep(g, x)]
  <2>3. \A y \in BlocksTo(m - 1) : h[y] = g[y]
    BY <2>0 DEF h, BlocksTo, Blocks
  <2>4. ASSUME NEW x \in BlocksTo(m) PROVE SeqStep(h, x) = SeqStep(g, x)
    <3>1. CASE x.n = StartAt
      BY <3>1 DEF SeqStep
    <3>2. CASE x.n # StartAt
      <4>1. x \in [n : Blocks, b : Branches]
        BY <2>0 DEF BlocksTo, Blocks
      <4>2. Parent(x.n, x.b) \in BlocksTo(m - 1)
        BY <4>1, <3>2, ParentBelow DEF BlocksTo, Blocks
      <4>3. h[Parent(x.n, x.b)] = g[Parent(x.n, x.b)]
        BY <4>2, <2>3
      <4>. QED  BY <4>3, <3>2 DEF SeqStep
    <3>. QED  BY <3>1, <3>2
  <2>5. ASSUME NEW x \in BlocksTo(m) PROVE h[x] = SeqStep(g, x)
    <3>1. CASE x.n < m
      <4>1. x \in BlocksTo(m - 1)
        BY <3>1, <2>0 DEF BlocksTo, Blocks
      <4>. QED  BY <4>1, <2>3, <2>2 DEF PrefixFixpoint
    <3>2. CASE ~(x.n < m)
      BY <3>2 DEF h
    <3>. QED  BY <3>1, <3>2
  <2>6. ASSUME NEW x \in BlocksTo(m) PROVE SeqStep(g, x) \in Int
    <3>1. CASE x.n = StartAt
      BY <3>1 DEF SeqStep
    <3>2. CASE x.n # StartAt
      <4>1. x \in [n : Blocks, b : Branches]
        BY <2>0 DEF BlocksTo, Blocks
      <4>2. Parent(x.n, x.b) \in BlocksTo(m - 1)
        BY <4>1, <3>2, ParentBelow DEF BlocksTo, Blocks
      <4>3. g[Parent(x.n, x.b)] \in Int
        BY <4>2, <2>2 DEF PrefixFixpoint
      <4>4. EvCount[x.b][x.n] \in Nat
        BY <4>1
      <4>. QED  BY <4>3, <4>4, <3>2 DEF SeqStep
    <3>. QED  BY <3>1, <3>2
  <2>7. PrefixFixpoint(h, m)
    <3>1. h \in [BlocksTo(m) -> Int]
      BY <2>5, <2>6 DEF h
    <3>2. ASSUME NEW x \in BlocksTo(m) PROVE h[x] = SeqStep(h, x)
      BY <2>4, <2>5
    <3>. QED  BY <3>1, <3>2 DEF PrefixFixpoint
  <2>. QED  BY <2>7, <1>3 DEF T
<1>. QED  BY <1>4, <1>5

(* SeqAfter satisfies its defining equation at every block.               *)
LEMMA SeqAfterDef ==
    \A x \in [n : Blocks, b : Branches] : SeqAfter[x] = SeqStep(SeqAfter, x)
<1>1. PICK g : PrefixFixpoint(g, StopAt)
  BY PrefixFixpointExists DEF Blocks
<1>2. BlocksTo(StopAt) = [n : Blocks, b : Branches]
  BY DEF BlocksTo, Blocks
<1>3. g = [x \in [n : Blocks, b : Branches] |-> SeqStep(g, x)]
  BY <1>1, <1>2 DEF PrefixFixpoint
<1>4. SeqAfter = [x \in [n : Blocks, b : Branches] |-> SeqStep(SeqAfter, x)]
  BY <1>3 DEF SeqAfter, SeqStep
<1>. QED  BY <1>4
-----------------------------------------------------------------------------
(* The ReplayFactory operators keep a factory consistent.                  *)

(* A fresh factory is the replay of nothing.                              *)
LEMMA NewFactoryConsistent ==
    NewFactory \in Factories /\ Consistent(NewFactory)
<1>1. Genesis \in [n : Blocks, b : Branches] /\ Genesis.n = StartAt
  BY DEF Genesis, Blocks, Branches
<1>2. SeqAfter[Genesis] = 1
  BY <1>1, SeqAfterDef DEF SeqStep
<1>3. NewFactory \in Factories
  BY DEF NewFactory, Factories, Genesis, Blocks, Branches
<1>4. ~(StartAt >= LaunchAt)
  OBVIOUS
<1>5. NewFactory.seq = SeqAfter[NewFactory.tip]
  BY <1>2 DEF NewFactory
<1>6. NewFactory.launched = (NewFactory.tip.n >= LaunchAt)
  <2>1. NewFactory.launched = FALSE
    BY DEF NewFactory
  <2>2. (NewFactory.tip.n >= LaunchAt) = FALSE
    BY <1>1, <1>4 DEF NewFactory
  <2>. QED  BY <2>1, <2>2, Zenon
<1>7. NewFactory.cur = IF NewFactory.tip = Genesis THEN 0 ELSE NewFactory.tip.n
  BY DEF NewFactory
<1>. QED  BY <1>3, <1>5, <1>6, <1>7 DEF Consistent

\* The launch message as is_gk_launch recognises it.
LaunchMsg ==
    [sender |-> "pallet", topic |-> "GatekeeperLaunch", payload |-> "MasterPubkeyOnChain"]

(* is_gk_launch recognises exactly the launch message, so a block holds a *)
(* launch exactly when the assumption on LaunchAt says it does.           *)
LEMMA HasLaunchIffMsg ==
    ASSUME NEW k \in Blocks
    PROVE  HasLaunch(k) <=> \E i \in DOMAIN Messages[k] : Messages[k][i] = LaunchMsg
<1>1. \A m \in Msg : IsGkLaunch(m) <=> m = LaunchMsg
  BY DEF Msg, IsGkLaunch, LaunchMsg
<1>2. \A i \in DOMAIN Messages[k] : Messages[k][i] \in Msg
  BY MessagesAssumption
<1>. QED  BY <1>1, <1>2 DEF HasLaunch

(* handle_inbound_messages leaves gk_launched set exactly from LaunchAt on: *)
(* a factory launched iff its block is at or above LaunchAt stays so     *)
(* after the next block.                                                  *)
LEMMA LaunchedAtHeight ==
    ASSUME NEW f, NEW n \in Blocks, n # StartAt, f.launched = (n - 1 >= LaunchAt)
    PROVE  Launched(f, n) = (n >= LaunchAt)
<1>1. HasLaunch(LaunchAt)
  BY HasLaunchIffMsg, LaunchAtFirstAssumption DEF LaunchMsg, Blocks
<1>2. ~(n >= LaunchAt) => ~HasLaunch(n)
  BY HasLaunchIffMsg, LaunchAtFirstAssumption DEF LaunchMsg
<1>3. CASE n - 1 >= LaunchAt
  <2>1. f.launched
    BY <1>3, Zenon
  <2>2. n >= LaunchAt
    BY <1>3 DEF Blocks
  <2>. QED  BY <2>1, <2>2, Zenon DEF Launched
<1>4. CASE n = LaunchAt
  BY <1>1, <1>4 DEF Launched
<1>5. CASE n < LaunchAt
  <2>1. ~(n - 1 >= LaunchAt) /\ ~(n >= LaunchAt)
    BY <1>5 DEF Blocks
  <2>2. ~f.launched
    BY <2>1, Zenon
  <2>3. ~HasLaunch(n)
    BY <2>1, <1>2, Zenon
  <2>4. Launched(f, n) = FALSE
    BY <2>2, <2>3, Zenon DEF Launched
  <2>5. (n >= LaunchAt) = FALSE
    BY <2>1
  <2>. QED  BY <2>4, <2>5, Zenon
<1>. QED  BY <1>3, <1>4, <1>5 DEF Blocks

(* dispatch_block on the child of a consistent factory's block gives the  *)
(* consistent factory of that child.                                      *)
LEMMA DispatchedConsistent ==
    ASSUME NEW f \in Factories, Consistent(f),
           NEW n \in (StartAt + 1)..StopAt, NEW b \in Branches,
           f.tip = Parent(n, b)
    PROVE  Dispatched(f, n, b) \in Factories /\ Consistent(Dispatched(f, n, b))
<1> DEFINE x == [n |-> n, b |-> b]
<1>1. x \in [n : Blocks, b : Branches] /\ x.n # StartAt /\ x # Genesis
  BY DEF Blocks, Genesis
<1>2. Parent(n, b).n = n - 1
  BY <1>1, ParentBelow
<1>3. SeqAfter[x] = SeqAfter[Parent(n, b)] + (IF n >= LaunchAt THEN EvCount[b][n] ELSE 0)
  BY <1>1, SeqAfterDef DEF SeqStep
<1>4. Launched(f, n) = (n >= LaunchAt)
  <2>1. f.launched = (n - 1 >= LaunchAt)
    BY <1>2 DEF Consistent
  <2>. QED  BY <2>1, LaunchedAtHeight DEF Blocks
<1>5. EventCount(f, n, b) = (IF n >= LaunchAt THEN EvCount[b][n] ELSE 0)
  BY <1>4 DEF EventCount
<1>6. f.seq + EventCount(f, n, b) = SeqAfter[x]
  BY <1>3, <1>5 DEF Consistent
<1>7. EventCount(f, n, b) \in Nat /\ Launched(f, n) \in BOOLEAN
  BY <1>4, <1>5 DEF Blocks
<1> DEFINE d == Dispatched(f, n, b)
<1>8. d.cur = n /\ d.seq = SeqAfter[x] /\ d.launched = (n >= LaunchAt) /\ d.tip = x
  BY <1>4, <1>6 DEF Dispatched
<1>9. d \in Factories
  <2>1. f.seq \in Int /\ n \in Nat
    BY DEF Factories, Blocks
  <2>. QED  BY <1>1, <1>7, <2>1 DEF Dispatched, Factories
<1>10. Consistent(d)
  <2>1. d.tip.n = n /\ d.tip # Genesis
    BY <1>1, <1>8
  <2>. QED  BY <1>8, <2>1 DEF Consistent
<1>. QED  BY <1>9, <1>10 DEF d


-----------------------------------------------------------------------------
(* The invariant.                                                          *)

(* StateConsistent strengthened by CInv (checkpoint files are named by    *)
(* their block, checkpoint.latest names one, the factory is at the block  *)
(* being checkpointed) and by the types of the factories.                 *)
SInv ==
    /\ CInv
    /\ fac \in Factories
    /\ \A m \in DOMAIN files : files[m] \in Factories
    /\ StateConsistent

LEMMA SInvInit == Init => SInv
<1> SUFFICES ASSUME Init PROVE SInv
  OBVIOUS
<1>1. CInv
  BY CInvInit
<1>2. fac \in Factories /\ Consistent(fac)
  BY NewFactoryConsistent DEF Init
<1>3. DOMAIN files = {}
  BY DEF Init
<1>. QED  BY <1>1, <1>2, <1>3 DEF SInv, StateConsistent

LEMMA SInvStep == SInv /\ [Next]_vars => SInv'
<1> SUFFICES ASSUME SInv, [Next]_vars PROVE SInv'
  OBVIOUS
<1>0. CInv'
  BY CInvStep DEF SInv
<1>1. CASE Dispatch
  <2>1. CASE RootMatches(fac.tip, blockNumber, fetched, header)
    <3>1. fac.tip = Parent(blockNumber, fetched)
      BY <2>1 DEF RootMatches
    <3>2. blockNumber \in (StartAt + 1)..StopAt /\ fetched \in Branches
      BY DEF SInv, CInv
    <3>3. fac \in Factories /\ Consistent(fac)
      BY DEF SInv, StateConsistent
    <3>4. fac' = Dispatched(fac, blockNumber, fetched)
      BY <1>1, <2>1 DEF Dispatch
    <3>5. fac' \in Factories /\ Consistent(fac')
      BY <3>1, <3>2, <3>3, <3>4, DispatchedConsistent
    <3>6. files' = files
      BY <1>1 DEF Dispatch
    <3>. QED  BY <1>0, <3>5, <3>6 DEF SInv, StateConsistent
  <2>2. CASE ~RootMatches(fac.tip, blockNumber, fetched, header)
    <3>1. fac' = fac /\ files' = files
      BY <1>1, <2>2 DEF Dispatch
    <3>. QED  BY <1>0, <3>1 DEF SInv, StateConsistent
  <2>. QED  BY <2>1, <2>2
<1>2. CASE Dump
  <2>1. fac' = fac /\ pc = "dump"
    BY <1>2 DEF Dump
  <2>2. files' = [m \in DOMAIN files \cup {blockNumber} |->
                     IF m = blockNumber THEN fac ELSE files[m]]
    BY <1>2 DEF Dump
  <2>3. fac \in Factories /\ Consistent(fac) /\ fac.cur = blockNumber
    BY <2>1 DEF SInv, StateConsistent, CInv
  <2>4. ASSUME NEW m \in DOMAIN files'
        PROVE  files'[m] \in Factories /\ Consistent(files'[m]) /\ files'[m].cur = m
    <3>1. CASE m = blockNumber
      BY <2>2, <2>3, <3>1
    <3>2. CASE m # blockNumber
      <4>1. m \in DOMAIN files /\ files'[m] = files[m]
        BY <2>2, <3>2
      <4>. QED  BY <4>1 DEF SInv, StateConsistent
    <3>. QED  BY <3>1, <3>2
  <2>. QED  BY <1>0, <2>1, <2>3, <2>4 DEF SInv, StateConsistent
<1>3. CASE Restart
  <2>1. fac' = Restored /\ files' = files
    BY <1>3 DEF Restart
  <2>2. CASE link # NoLink
    <3>1. link \in DOMAIN files /\ Restored = files[link]
      BY <2>2 DEF SInv, CInv, Restored
    <3>. QED  BY <1>0, <2>1, <3>1 DEF SInv, StateConsistent
  <2>3. CASE link = NoLink
    <3>1. Restored = NewFactory
      BY <2>3 DEF Restored
    <3>. QED  BY <1>0, <2>1, <3>1, NewFactoryConsistent DEF SInv, StateConsistent
  <2>. QED  BY <2>2, <2>3
<1>4. CASE \/ Finish \/ WaitDone \/ WaitError \/ FetchChanges \/ FetchHeader
           \/ Send \/ Sent \/ Unlink \/ Symlink \/ Crash \/ Persist
           \/ NewBest \/ Finalize \/ Reorg \/ UNCHANGED vars
  <2>1. fac' = fac /\ files' = files
    BY <1>4 DEF Finish, WaitDone, WaitError, FetchChanges, FetchHeader,
                Send, Sent, Unlink, Symlink, Crash, Persist, NewBest,
                Finalize, Reorg, vars
  <2>. QED  BY <1>0, <2>1 DEF SInv, StateConsistent
<1>. QED  BY <1>1, <1>2, <1>3, <1>4 DEF Next

(* Every value of the constants: the live ReplayFactory and every         *)
(* checkpoint file are the replay from genesis of the chain ending at     *)
(* their block (next_event_seq and gk_launched included), through forks,  *)
(* crashes, restarts and checkpoints (dispatch_block, dump_to_file and    *)
(* the restore from checkpoint.latest in replay()).                       *)
THEOREM StateConsistentHolds == Spec => []StateConsistent
<1>1. Init => SInv
  BY SInvInit
<1>2. SInv /\ [Next]_vars => SInv'
  BY SInvStep
<1>3. SInv => StateConsistent
  BY DEF SInv
<1>. QED  BY <1>1, <1>2, <1>3, PTL DEF Spec


-----------------------------------------------------------------------------
(* Canonical records.                                                      *)

(* The records dispatch_block collects for a canonical block below        *)
(* stop_at, from a consistent factory at its parent, are the canonical    *)
(* records of that block.                                                 *)
LEMMA RecordsCanonical ==
    ASSUME NEW f \in Factories, Consistent(f),
           NEW n \in (StartAt + 1)..(StopAt - 1), f.tip = Parent(n, "canon")
    PROVE  Records(f, n, "canon") \in Seq(CanonRecords)
<1> DEFINE k == EventCount(f, n, "canon")
<1>1. Consistent(Dispatched(f, n, "canon"))
  BY DispatchedConsistent DEF Branches
<1>2. f.seq + k = SeqAfter[CanonAt(n)]
  BY <1>1 DEF k, Consistent, Dispatched, CanonAt
<1>3. f.seq = SeqAfter[CanonAt(n - 1)]
  BY DEF Consistent, Parent, CanonAt
<1>4. k \in Nat /\ f.seq \in Int
  <2>1. n \in Blocks /\ EvCount["canon"][n] \in Nat
    BY DEF Blocks, Branches
  <2>2. k \in Nat
    BY <2>1 DEF k, EventCount
  <2>3. f.seq \in Int
    BY DEF Factories
  <2>. QED  BY <2>2, <2>3
<1>5. k = SeqAfter[CanonAt(n)] - SeqAfter[CanonAt(n - 1)]
  BY <1>2, <1>3, <1>4
<1>6. ASSUME NEW i \in 1..k
      PROVE  Records(f, n, "canon")[i] \in CanonRecords
  <2>1. Records(f, n, "canon")[i]
          = [seq |-> SeqAfter[CanonAt(n - 1)] + i - 1, block |-> n,
             branch |-> "canon", idx |-> i]
    BY <1>3 DEF Records
  <2>2. i \in 1..(SeqAfter[CanonAt(n)] - SeqAfter[CanonAt(n - 1)])
    BY <1>5
  <2>. QED  BY <2>1, <2>2 DEF CanonRecords
<1>. QED  BY <1>4, <1>6 DEF Records


(* Without forks, SInv and RInv strengthened by: the records waiting in   *)
(* the loop's outbox, those in the event channel and those in the sink    *)
(* are all canonical.                                                     *)
EInv ==
    /\ RInv
    /\ SInv
    /\ outbox \in Seq(CanonRecords)
    /\ chan \in Seq(CanonRecords)
    /\ sink \subseteq CanonRecords

LEMMA EInvInit == Init => EInv
<1> SUFFICES ASSUME Init PROVE EInv
  OBVIOUS
<1>1. RInv /\ SInv
  BY RInvInit, SInvInit
<1>2. outbox = <<>> /\ chan = <<>> /\ sink = {}
  BY DEF Init
<1>. QED  BY <1>1, <1>2 DEF EInv

LEMMA EInvStep == NoForks /\ EInv /\ [Next]_vars => EInv'
<1> SUFFICES ASSUME NoForks, EInv, [Next]_vars PROVE EInv'
  OBVIOUS
<1>0. RInv' /\ SInv'
  BY RInvStep, SInvStep DEF EInv
<1>1. CASE Dispatch
  <2>1. CASE RootMatches(fac.tip, blockNumber, fetched, header)
    <3>1. fac \in Factories /\ Consistent(fac)
      BY DEF EInv, SInv, StateConsistent
    <3>2. fetched = "canon" /\ fac.tip = Parent(blockNumber, "canon")
      BY <2>1 DEF EInv, RInv, RootMatches
    <3>3. blockNumber \in (StartAt + 1)..(StopAt - 1)
      BY <1>1 DEF EInv, RInv, Dispatch
    <3>4. outbox' = Records(fac, blockNumber, "canon")
      BY <1>1, <2>1, <3>2 DEF Dispatch
    <3>5. outbox' \in Seq(CanonRecords)
      BY <3>1, <3>2, <3>3, <3>4, RecordsCanonical
    <3>6. chan' = chan /\ sink' = sink
      BY <1>1 DEF Dispatch
    <3>. QED  BY <1>0, <3>5, <3>6 DEF EInv
  <2>2. CASE ~RootMatches(fac.tip, blockNumber, fetched, header)
    <3>1. outbox' = outbox /\ chan' = chan /\ sink' = sink
      BY <1>1, <2>2 DEF Dispatch
    <3>. QED  BY <1>0, <3>1 DEF EInv
  <2>. QED  BY <2>1, <2>2
<1>2. CASE Send
  <2>1. outbox # <<>> /\ outbox \in Seq(CanonRecords) /\ chan \in Seq(CanonRecords)
    BY <1>2 DEF Send, EInv
  <2>2. chan' = Append(chan, Head(outbox)) /\ outbox' = Tail(outbox) /\ sink' = sink
    BY <1>2 DEF Send
  <2>3. chan' \in Seq(CanonRecords) /\ outbox' \in Seq(CanonRecords)
    BY <2>1, <2>2
  <2>. QED  BY <1>0, <2>2, <2>3 DEF EInv
<1>3. CASE Persist
  <2>1. chan # <<>> /\ chan \in Seq(CanonRecords) /\ sink \subseteq CanonRecords
    BY <1>3 DEF Persist, EInv
  <2>2. sink' = sink \cup {Head(chan)} /\ chan' = Tail(chan) /\ outbox' = outbox
    BY <1>3 DEF Persist
  <2>3. sink' \subseteq CanonRecords /\ chan' \in Seq(CanonRecords)
    BY <2>1, <2>2
  <2>. QED  BY <1>0, <2>2, <2>3 DEF EInv
<1>4. CASE Restart
  <2>1. outbox' = <<>> /\ chan' = <<>> /\ sink' = sink
    BY <1>4 DEF Restart
  <2>. QED  BY <1>0, <2>1 DEF EInv
<1>5. CASE \/ Finish \/ WaitDone \/ WaitError \/ FetchChanges \/ FetchHeader
           \/ Sent \/ Dump \/ Unlink \/ Symlink \/ Crash
           \/ NewBest \/ Finalize \/ Reorg \/ UNCHANGED vars
  <2>1. outbox' = outbox /\ chan' = chan /\ sink' = sink
    BY <1>5 DEF Finish, WaitDone, WaitError, FetchChanges, FetchHeader,
                Sent, Dump, Unlink, Symlink, Crash, NewBest, Finalize,
                Reorg, vars
  <2>. QED  BY <1>0, <2>1 DEF EInv
<1>. QED  BY <1>1, <1>2, <1>3, <1>4, <1>5 DEF Next

(* Without a fork below stop_at, every value of the constants: every      *)
(* record run_persist stores is the canonical record of its sequence      *)
(* number, through crashes that lose the channel and restarts that replay *)
(* blocks again from checkpoint.latest or from genesis (dispatch_block's  *)
(* event numbering, tx.send and run_persist).                             *)
THEOREM EventsCanonicalHolds == NoForks => (Spec => []EventsCanonical)
<1> SUFFICES ASSUME NoForks PROVE Spec => []EventsCanonical
  OBVIOUS
<1>1. Init => EInv
  BY EInvInit
<1>2. EInv /\ [Next]_vars => EInv'
  BY EInvStep
<1>3. EInv => EventsCanonical
  BY DEF EInv, EventsCanonical
<1>. QED  BY <1>1, <1>2, <1>3, PTL DEF Spec

=============================================================================
