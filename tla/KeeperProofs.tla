---------------------------- MODULE KeeperProofs ----------------------------
(***************************************************************************)
(* Proofs about the Keeper module, for every set of contracts and every    *)
(* word width that satisfies its assumptions, the real u32/u64 included.   *)
(***************************************************************************)
EXTENDS Keeper, TLAPS

USE HalfWordAssumption, WordAssumption, TotalMemoryAssumption

-----------------------------------------------------------------------------
(* The code's TOTAL_MEMORY = 1024 * 1024 * 20 is a positive u32 value,   *)
(* so TotalMemoryAssumption holds for it with HalfWord = 2^32 (and Word   *)
(* = 2^32 * 2^32 = 2^64).                                                 *)
LEMMA RealTotalMemory == 1024 * 1024 * 20 \in 1..(2^32 - 1)
<1>1. 2^32 = 4294967296
  BY SMT
<1>. QED  BY <1>1, SMT

(* TOTAL_MEMORY * weight fits in u64 for every u32 weight.                 *)
LEMMA ProductFits ==
    ASSUME NEW w \in Weights
    PROVE  Product(w) = TotalMemory * w
<1>1. w \in 0..(HalfWord - 1) /\ TotalMemory \in 1..(HalfWord - 1)
  BY DEF Weights
<1>2. TotalMemory * w <= TotalMemory * (HalfWord - 1)
  BY <1>1, SMT
<1>3. TotalMemory * (HalfWord - 1) <= (HalfWord - 1) * (HalfWord - 1)
  BY <1>1, SMT
<1>4. (HalfWord - 1) * (HalfWord - 1) < Word
  BY <1>1, SMT
<1>5. TotalMemory * w \in 0..(Word - 1)
  BY <1>1, <1>2, <1>3, <1>4, SMT
<1>. QED  BY <1>5, SMT DEF Product

(* A weight map has its weights in u32.                                    *)
LEMMA ContractMapWeights ==
    ASSUME NEW c \in ContractMaps
    PROVE  /\ DOMAIN c \subseteq Accounts
           /\ \A a \in DOMAIN c : c[a] \in Weights
BY DEF ContractMaps

-----------------------------------------------------------------------------
(* Type correctness.                                                       *)

LEMMA TypeOKStep == TypeOK /\ [Next]_vars => TypeOK'
<1> SUFFICES ASSUME TypeOK, [Next]_vars PROVE TypeOK'
  OBVIOUS
<1>0. /\ DOMAIN contracts \subseteq Accounts
      /\ \A a \in DOMAIN contracts : contracts[a] \in Weights
  BY ContractMapWeights DEF TypeOK
<1>1. ASSUME NEW a \in Accounts, NEW w \in Weights, Insert(a, w)
      PROVE  TypeOK'
  <2>1. contracts' \in [DOMAIN contracts \cup {a} -> Weights]
    BY <1>0, <1>1 DEF Insert
  <2>2. DOMAIN contracts \cup {a} \in SUBSET Accounts
    BY <1>0
  <2>3. contracts' \in ContractMaps
    BY <2>1, <2>2 DEF ContractMaps
  <2>. QED  BY <1>1, <2>3 DEF Insert, TypeOK
<1>2. ASSUME NEW a \in Accounts, NEW w \in Weights, SetWeight(a, w)
      PROVE  TypeOK'
  <2>1. contracts' \in [DOMAIN contracts -> Weights]
    BY <1>0, <1>2 DEF SetWeight
  <2>2. contracts' \in ContractMaps
    BY <1>0, <2>1 DEF ContractMaps
  <2>. QED  BY <1>2, <2>2 DEF SetWeight, TypeOK
<1>3. CASE Drain
  <2>1. EmptyMap \in [{} -> Weights]
    BY DEF EmptyMap
  <2>2. EmptyMap \in ContractMaps
    BY <2>1 DEF ContractMaps
  <2>. QED  BY <1>3, <2>2 DEF Drain, TypeOK
<1>4. CASE ApplyLocalCacheQuotas
  <2>1. DOMAIN cache' = DOMAIN contracts
    BY <1>4 DEF ApplyLocalCacheQuotas, CalcCacheQuotas
  <2>. QED  BY <1>4, <2>1 DEF ApplyLocalCacheQuotas, TypeOK
<1>5. CASE UNCHANGED vars
  BY <1>5 DEF vars, TypeOK
<1>. QED  BY <1>1, <1>2, <1>3, <1>4, <1>5 DEF Next

(* The keeper's map and the map the cache quotas were computed from are   *)
(* always maps from addresses to u32 weights, and the cache holds exactly *)
(* one quota per contract of the map it was computed from.                *)
THEOREM TypeCorrect == Spec => []TypeOK
<1>1. Init => TypeOK
  <2>1. EmptyMap \in ContractMaps
    BY DEF EmptyMap, ContractMaps
  <2>. QED  BY <2>1 DEF Init, TypeOK, EmptyMap
<1>. QED  BY <1>1, TypeOKStep, PTL DEF Spec

-----------------------------------------------------------------------------
(* calc_cache_quotas never wraps TOTAL_MEMORY * weight around u64, for any *)
(* contracts and any u32 weights, whenever TOTAL_MEMORY is a u32 value    *)
(* and u64 is twice as wide (RealConstants: the code's values are).       *)
THEOREM ProductNoWrapHolds == Spec => []ProductNoWrap
<1>1. TypeOK => ProductNoWrap
  <2> SUFFICES ASSUME TypeOK, NEW a \in DOMAIN appliedFor
               PROVE  Product(appliedFor[a]) = TotalMemory * appliedFor[a]
    BY DEF ProductNoWrap
  <2>1. appliedFor[a] \in Weights
    BY ContractMapWeights DEF TypeOK
  <2>. QED  BY <2>1, ProductFits
<1>. QED  BY <1>1, TypeCorrect, PTL
=============================================================================
