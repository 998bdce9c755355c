---------------------------- MODULE MC_Sequencer ----------------------------
(* Model-checking instance of Sequencer: one sender with two messages, a  *)
(* timeout of one block so that both sides of the grace window are met   *)
(* within a few blocks, and the chain already past the timeout when the   *)
(* loop starts with current_height = 0.                                   *)
EXTENDS Sequencer

CONSTANTS s1

MCSenders == {s1}
MCMaxSeq == 2
MCTxTimeout == 1
MCMaxHeight == 3
MCInitChainHeight == 2
MCMaxTasks == 2
MCMaxInFlight == 1
\* The removal run: two submissions of a message may be in flight when its
\* sender is removed, so a completion can arrive for a forgotten sender;
\* one refresh at a time keeps that run small.
MCMaxInFlightTwo == 2
MCMaxTasksOne == 1
\* The best block is reported exactly.
MCMaxLag == 0

=============================================================================
