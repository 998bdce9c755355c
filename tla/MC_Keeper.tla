------------------------------ MODULE MC_Keeper ------------------------------
(* A scaled instance: two contracts, 3-bit weights and 6-bit products      *)
(* (u32 and u64 narrowed alike), TOTAL_MEMORY just below the weight width  *)
(* as 20 MiB is below 2^32.  The contracts are in key order a1 < a2 and    *)
(* a1's sidevm never restarts, so a sweep meets an error before a2.       *)
EXTENDS KeeperSidevm

CONSTANTS a1, a2

MCAccounts == {a1, a2}
MCHalfWord == 8
MCWord == 64
MCTotalMemory == 5
MCKeyOrder == [a \in MCAccounts |-> IF a = a1 THEN 1 ELSE 2]
MCFaulty == {a1}
==============================================================================
