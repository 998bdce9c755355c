---------------------------- MODULE ReplayChain ----------------------------
(***************************************************************************)
(* What the replay promises about where its chain state is: it starts at *)
(* genesis, moves only to a child of the block it is at, may save the     *)
(* block it is at (one saved state per height, as the checkpoint files    *)
(* are named by height), and on a restart goes back to a saved block or   *)
(* to genesis.  Replay implements it (Replay!ChainRefinement).            *)
(***************************************************************************)
EXTENDS Integers

CONSTANTS StartAt, StopAt, ForkBase

\* Blocks: canonical ones from StartAt, fork ones above ForkBase.
BlockIds ==
    {[n |-> n, b |-> "canon"] : n \in StartAt..StopAt}
    \cup {[n |-> n, b |-> "fork"] : n \in (ForkBase + 1)..StopAt}

Genesis == [n |-> StartAt, b |-> "canon"]

\* The children of block x: the next block of its branch, and the first
\* fork block when x is the fork base.
Children(x) ==
    {y \in BlockIds : y.n = x.n + 1 /\ (y.b = x.b \/ y.n = ForkBase + 1)}

VARIABLES
    at,     \* the block the replay state is at
    saved   \* the blocks whose state is saved

vars == <<at, saved>>

Init ==
    /\ at = Genesis
    /\ saved = {}

Advance ==
    /\ \E y \in Children(at) : at' = y
    /\ UNCHANGED saved

\* A save replaces the saved state of the same height.
Save ==
    /\ saved' = {x \in saved : x.n # at.n} \cup {at}
    /\ UNCHANGED at

Restore ==
    /\ \E x \in saved \cup {Genesis} : at' = x
    /\ UNCHANGED saved

Next == Advance \/ Save \/ Restore

Spec == Init /\ [][Next]_vars

=============================================================================
