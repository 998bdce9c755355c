------------------------------ MODULE MC_Replay ------------------------------
(* Blocks 1..3 replayed from genesis at 0 (stop_at 4); the gatekeeper is   *)
(* launched in block 2; a checkpoint every 2 blocks, so block 2 is         *)
(* checkpointed and blocks 1 and 3 are not; up to 2 restarts.  With forks, *)
(* blocks 2 and 3 also exist on a fork whose blocks emit two events where  *)
(* the canonical ones emit one, so a replayed fork block shows in the      *)
(* numbering.  Without forks, ForkBase is the last block.                  *)
EXTENDS Replay, TLC

MCStartAt == 0
MCStopAt == 4
MCAssumeFinalized == 0
MCInterval == 2
\* A checkpoint at every block, so that checkpoint.latest is relinked.
MCIntervalOne == 1
MCForkBase == 1
MCNoForkBase == 3
MCLaunchAt == 2
\* Block 1 holds a worker's message that looks like a launch and a pallet's
\* launch-topic message that does not decode; block 2 holds the launch
\* after another message; block 3 a pallet's RotateMasterKey.
MCMessages ==
    LET msg(s, t, p) == [sender |-> s, topic |-> t, payload |-> p]
    IN [n \in 0..4 |->
          CASE n = 1 -> <<msg("worker", "GatekeeperLaunch", "MasterPubkeyOnChain"),
                          msg("pallet", "GatekeeperLaunch", "undecodable")>>
            [] n = 2 -> <<msg("pallet", "other", "undecodable"),
                          msg("pallet", "GatekeeperLaunch", "MasterPubkeyOnChain")>>
            [] n = 3 -> <<msg("pallet", "GatekeeperLaunch", "RotateMasterKey")>>
            [] OTHER -> <<>>]
MCEvCount ==
    [b \in Branches |->
        [n \in 0..4 |-> IF n = 0 THEN 0 ELSE IF b = "canon" THEN 1 ELSE 2]]
MCMaxRestarts == 2
\* A single slot in the event channel, so that a send waits for run_persist.
MCChanCap == 1
==============================================================================
