------------------------------- MODULE Keeper -------------------------------
(***************************************************************************)
(* ContractsKeeper and calc_cache_quotas (src/crates/phactory/src/         *)
(* contracts/support/keeper.rs).  The keeper holds an ordered map from     *)
(* contract address to contract; a contract matters here only through its  *)
(* u32 weight.  apply_local_cache_quotas hands the local cache one quota   *)
(* per contract: TOTAL_MEMORY * weight / max(1, sum of weights), computed  *)
(* in u64.                                                                 *)
(*                                                                         *)
(* Machine integers keep their width: HalfWord is 2^32 (u32, the weights), *)
(* Word is 2^64 (u64, the products and the sum).  TLC runs a scaled        *)
(* instance with narrower words; KeeperProofs shows that the real widths   *)
(* never wrap.                                                             *)
(***************************************************************************)
EXTENDS Integers, FiniteSets, Functions

CONSTANTS
    Accounts,     \* contract addresses (AccountId)
    HalfWord,     \* 2^32: u32 values are 0..HalfWord-1
    Word,         \* 2^64: u64 values are 0..Word-1
    TotalMemory   \* TOTAL_MEMORY

ASSUME HalfWordAssumption == HalfWord \in Nat \ {0}
ASSUME WordAssumption == Word = HalfWord * HalfWord
\* TOTAL_MEMORY is a u64 constant of 20 MiB, below 2^32.
ASSUME TotalMemoryAssumption == TotalMemory \in 1..(HalfWord - 1)

Weights == 0..(HalfWord - 1)

\* The OrdMap from address to weight: a function on the addresses present.
ContractMaps == UNION {[D -> Weights] : D \in SUBSET Accounts}

EmptyMap == [a \in {} |-> 0]

-----------------------------------------------------------------------------
(* calc_cache_quotas.                                                      *)

\* Mutant: the product computed in u32 (weight * TOTAL_MEMORY as u32).
ProductU32(w) == (TotalMemory * w) % HalfWord

\* TOTAL_MEMORY * weight as u64.
Product(w) == (TotalMemory * w) % Word

\* Mutant: one added to the sum instead of clamping it to at least one.
TotalWeightPlusOne(c) == (SumFunction(c) + 1) % Word

\* The u64 sum of the weights, at least 1 (.sum::<u64>().max(1)).
TotalWeight(c) ==
    LET sum == SumFunction(c) % Word
    IN IF sum < 1 THEN 1 ELSE sum

\* Mutant: the quota rounded up instead of down.
QuotaRoundUp(c, a) ==
    (Product(c[a]) + TotalWeight(c) - 1) \div TotalWeight(c)

\* One contract's quota (the `as usize` is the identity on a 64-bit target).
Quota(c, a) == Product(c[a]) \div TotalWeight(c)

CalcCacheQuotas(c) == [a \in DOMAIN c |-> Quota(c, a)]

-----------------------------------------------------------------------------
VARIABLES
    contracts,    \* ContractsKeeper.contracts, as address -> weight
    cache,        \* the quotas the local cache was last given
    appliedFor    \* history: the weights those quotas were computed from

vars == <<contracts, cache, appliedFor>>

Init ==
    /\ contracts = EmptyMap
    /\ cache = EmptyMap
    /\ appliedFor = EmptyMap

(* insert: a contract with a new address is added, one with a present    *)
(* address replaces the old one.                                          *)
Insert(a, w) ==
    /\ contracts' = [x \in DOMAIN contracts \cup {a} |->
                        IF x = a THEN w ELSE contracts[x]]
    /\ UNCHANGED <<cache, appliedFor>>

(* get_mut: the caller changes a present contract's weight in place.      *)
SetWeight(a, w) ==
    /\ a \in DOMAIN contracts
    /\ contracts' = [contracts EXCEPT ![a] = w]
    /\ UNCHANGED <<cache, appliedFor>>

(* drain: every contract is taken out of the keeper.                      *)
Drain ==
    /\ contracts' = EmptyMap
    /\ UNCHANGED <<cache, appliedFor>>

(* apply_local_cache_quotas: the cache receives calc_cache_quotas of the  *)
(* current map; apply_quotas replaces the previous quota table.           *)
ApplyLocalCacheQuotas ==
    /\ cache' = CalcCacheQuotas(contracts)
    /\ appliedFor' = contracts
    /\ UNCHANGED contracts

Next ==
    \/ \E a \in Accounts, w \in Weights : Insert(a, w) \/ SetWeight(a, w)
    \/ Drain
    \/ ApplyLocalCacheQuotas

Spec == Init /\ [][Next]_vars

-----------------------------------------------------------------------------
TypeOK ==
    /\ contracts \in ContractMaps
    /\ appliedFor \in ContractMaps
    /\ DOMAIN cache = DOMAIN appliedFor

(* Safety.                                                                 *)

(* The quotas the cache was given never add up to more than TOTAL_MEMORY, *)
(* whatever the weights: each quota is rounded down from an exact share.  *)
QuotaWithinBudget ==
    SumFunction(cache) <= TotalMemory

(* Rounding down loses less than one byte per contract with a positive    *)
(* weight: when some weight is positive, the memory left unassigned is    *)
(* below the number of such contracts, so the residue the code discards   *)
(* stays small.                                                           *)
ResidueBelowCount ==
    LET positive == {a \in DOMAIN appliedFor : appliedFor[a] > 0}
    IN positive # {} => TotalMemory - SumFunction(cache) < Cardinality(positive)

(* No u64 product TOTAL_MEMORY * weight of applied quotas wraps around.   *)
ProductNoWrap ==
    \A a \in DOMAIN appliedFor : Product(appliedFor[a]) = TotalMemory * appliedFor[a]

=============================================================================
