--------------------------- MODULE KeeperSumProofs ---------------------------
(***************************************************************************)
(* Proofs about the sums of calc_cache_quotas (Keeper): the quotas never  *)
(* add up to more than TOTAL_MEMORY, and rounding loses less than one     *)
(* byte per contract with a positive weight, for every word width and     *)
(* TOTAL_MEMORY, as long as the keeper holds at most HalfWord + 1         *)
(* contracts (beyond that the u64 sum of the u32 weights can wrap, and    *)
(* both fail).                                                            *)
(*                                                                         *)
(* SumFunction is the Functions module's fold, MapThenFoldSet of Folds: a *)
(* recursive function on the subsets of the domain that takes out one     *)
(* CHOOSEn element at a time.  The proofs show that this iterator         *)
(* satisfies its recursive equation on every finite domain (a fixpoint is *)
(* built on the subsets of at most k elements, by least counterexample on *)
(* k), then bound the quotas' and the weights' sums together, by least    *)
(* counterexample on the cardinality of a subset: both folds take out the *)
(* same element of the same subset, so no order-independence is needed.   *)
(***************************************************************************)
EXTENDS KeeperProofs, KeeperSidevm, FiniteSetTheorems, WellFoundedInduction

USE HalfWordAssumption, WordAssumption, TotalMemoryAssumption

-----------------------------------------------------------------------------
(* The fold.                                                               *)

\* The element MapThenFoldSet takes out of a non-empty set.
Ch(s) == CHOOSE x \in s : TRUE

\* One step of the fold's iterator: the chosen element's value plus the
\* sum over the rest.
SumStep(fun, it, s) == IF s = {} THEN 0 ELSE fun[Ch(s)] + it[s \ {Ch(s)}]

\* The iterator of SumFunction(fun), on the subsets of its domain.
SumIter(fun) == CHOOSE it : it = [s \in SUBSET DOMAIN fun |-> SumStep(fun, it, s)]

(* SumFunction is its iterator applied to the whole domain.                *)
LEMMA SumFunctionIter ==
    ASSUME NEW fun
    PROVE  SumFunction(fun) = SumIter(fun)[DOMAIN fun]
BY DEF SumFunction, SumFunctionOnSet, FoldFunctionOnSet, MapThenFoldSet,
       SumIter, SumStep, Ch

(* Every non-empty set of naturals has a least element.                    *)
LEMMA NatSetHasLeast ==
    ASSUME NEW T \in SUBSET Nat, T # {}
    PROVE  \E m \in T : \A m2 \in T : m <= m2
<1>1. PICK x \in T : \A y \in T : ~(<<y, x>> \in OpToRel(<, Nat))
  BY NatLessThanWellFounded, WFMin
<1>2. \A y \in T : ~(y < x)
  BY <1>1 DEF OpToRel
<1>. QED  BY <1>2

\* The subsets of D with at most k elements.
SubsUpTo(D, k) == {s \in SUBSET D : Cardinality(s) <= k}

(* Taking the chosen element out of a non-empty finite set leaves one     *)
(* element fewer.                                                          *)
LEMMA RemoveChosen ==
    ASSUME NEW D, IsFiniteSet(D), NEW s \in SUBSET D, s # {}
    PROVE  /\ Ch(s) \in s
           /\ s \ {Ch(s)} \in SUBSET D
           /\ Cardinality(s) \in Nat \ {0}
           /\ Cardinality(s \ {Ch(s)}) = Cardinality(s) - 1
<1>1. Ch(s) \in s
  BY DEF Ch
<1>2. IsFiniteSet(s) /\ Cardinality(s) \in Nat
  BY FS_Subset, FS_CardinalityType
<1>3. Cardinality(s) # 0
  BY <1>2, FS_EmptySet
<1>4. Cardinality(s \ {Ch(s)}) = Cardinality(s) - 1
  BY <1>1, <1>2, FS_RemoveElement
<1>. QED  BY <1>1, <1>2, <1>3, <1>4

\* g is the fold's iterator on the subsets of at most k elements.
IterFix(fun, g, k) ==
    /\ g \in [SubsUpTo(DOMAIN fun, k) -> Int]
    /\ \A s \in SubsUpTo(DOMAIN fun, k) : g[s] = SumStep(fun, g, s)

(* The iterator has a fixpoint on the subsets of every size.              *)
LEMMA IterFixExists ==
    ASSUME NEW D, IsFiniteSet(D), NEW fun \in [D -> Int]
    PROVE  \A k \in Nat : \E g : IterFix(fun, g, k)
<1> DOMAIN fun = D
  OBVIOUS
<1>0. \A s \in SUBSET D : Cardinality(s) \in Nat
  BY FS_Subset, FS_CardinalityType
<1>1. SUFFICES ASSUME NEW k0 \in Nat, ~\E g : IterFix(fun, g, k0) PROVE FALSE
  OBVIOUS
<1> DEFINE Bad == {k \in Nat : ~\E g : IterFix(fun, g, k)}
<1>2. PICK m \in Bad : \A m2 \in Bad : m <= m2
  BY <1>1, NatSetHasLeast
<1>3. CASE m = 0
  <2> DEFINE g0 == [s \in SubsUpTo(D, 0) |-> 0]
  <2>1. \A s \in SubsUpTo(D, 0) : s = {}
    BY FS_Subset, FS_EmptySet, FS_CardinalityType DEF SubsUpTo
  <2>2. IterFix(fun, g0, 0)
    BY <2>1 DEF IterFix, SumStep, g0
  <2>. QED  BY <1>2, <1>3, <2>2
<1>4. CASE m # 0
  <2>1. m - 1 \in Nat /\ m - 1 \notin Bad
    BY <1>2, <1>4
  <2>2. PICK g : IterFix(fun, g, m - 1)
    BY <2>1
  <2> DEFINE h == [s \in SubsUpTo(D, m) |->
                     IF Cardinality(s) <= m - 1 THEN g[s] ELSE SumStep(fun, g, s)]
  <2>3. \A y \in SubsUpTo(D, m - 1) : h[y] = g[y]
    <3>1. SubsUpTo(D, m - 1) \subseteq SubsUpTo(D, m)
      BY <1>0, <2>1 DEF SubsUpTo
    <3>. QED  BY <3>1 DEF h, SubsUpTo
  <2>4. \A s \in SubsUpTo(D, m) : s # {} => s \ {Ch(s)} \in SubsUpTo(D, m - 1)
    BY RemoveChosen DEF SubsUpTo
  <2>5. \A s \in SubsUpTo(D, m) : SumStep(fun, h, s) = SumStep(fun, g, s)
    <3> SUFFICES ASSUME NEW s \in SubsUpTo(D, m)
                 PROVE  SumStep(fun, h, s) = SumStep(fun, g, s)
      OBVIOUS
    <3>1. CASE s = {}
      BY <3>1 DEF SumStep
    <3>2. CASE s # {}
      <4>1. h[s \ {Ch(s)}] = g[s \ {Ch(s)}]
        BY <3>2, <2>3, <2>4
      <4>. QED  BY <3>2, <4>1 DEF SumStep
    <3>. QED  BY <3>1, <3>2
  <2>6. \A s \in SubsUpTo(D, m) : h[s] = SumStep(fun, g, s)
    BY <2>2 DEF h, IterFix, SubsUpTo
  <2>7. \A s \in SubsUpTo(D, m) : SumStep(fun, g, s) \in Int
    <3> SUFFICES ASSUME NEW s \in SubsUpTo(D, m), s # {}
                 PROVE  fun[Ch(s)] + g[s \ {Ch(s)}] \in Int
      BY DEF SumStep
    <3>1. Ch(s) \in D
      BY RemoveChosen DEF SubsUpTo
    <3>2. g[s \ {Ch(s)}] \in Int
      BY <2>2, <2>4 DEF IterFix
    <3>. QED  BY <3>1, <3>2
  <2>8. IterFix(fun, h, m)
    BY <2>5, <2>6, <2>7 DEF IterFix, h
  <2>. QED  BY <1>2, <2>8
<1>. QED  BY <1>3, <1>4

(* The fold's iterator: the sum over a non-empty set is the chosen       *)
(* element's value plus the sum over the rest.                          *)
LEMMA SumIterDef ==
    ASSUME NEW D, IsFiniteSet(D), NEW fun \in [D -> Int]
    PROVE  SumIter(fun) = [s \in SUBSET D |-> SumStep(fun, SumIter(fun), s)]
<1>1. Cardinality(D) \in Nat
  BY FS_CardinalityType
<1>2. PICK g : IterFix(fun, g, Cardinality(D))
  BY <1>1, IterFixExists
<1>3. SubsUpTo(D, Cardinality(D)) = SUBSET D
  BY FS_Subset DEF SubsUpTo
<1>4. g = [s \in SUBSET D |-> SumStep(fun, g, s)]
  BY <1>2, <1>3 DEF IterFix
<1>. QED  BY <1>4 DEF SumIter


\* The elements of s with a positive weight.
Positive(w, s) == {a \in s : w[a] > 0}

(* Rounding down x / W loses less than W.                                  *)
LEMMA DivBounds ==
    ASSUME NEW x \in Nat, NEW W \in Nat \ {0}
    PROVE  /\ x \div W \in Nat
           /\ W * (x \div W) <= x
           /\ x - W * (x \div W) <= W - 1
BY SMT

(* Rounding down each of a family of shares of TOTAL_MEMORY: summed over *)
(* any subset s, the quotas times the divisor stay within TOTAL_MEMORY   *)
(* times the weights, and lose less than the divisor per positive weight. *)
LEMMA SumBounds ==
    ASSUME NEW D, IsFiniteSet(D), NEW w \in [D -> Nat], NEW q \in [D -> Nat],
           NEW W \in Nat \ {0}, NEW B \in Nat,
           \A a \in D : /\ W * q[a] <= TotalMemory * w[a]
                        /\ TotalMemory * w[a] - W * q[a]
                             <= IF w[a] > 0 THEN W - 1 ELSE 0
                        /\ w[a] <= B
    PROVE  \A s \in SUBSET D :
             LET sw == SumIter(w)[s]
                 sq == SumIter(q)[s]
             IN  /\ sw \in Nat /\ sq \in Nat
                 /\ W * sq <= TotalMemory * sw
                 /\ TotalMemory * sw - W * sq <= (W - 1) * Cardinality(Positive(w, s))
                 /\ Cardinality(Positive(w, s)) <= sw
                 /\ sw <= B * Cardinality(s)
<1> DEFINE P(s) ==
             /\ SumIter(w)[s] \in Nat /\ SumIter(q)[s] \in Nat
             /\ W * SumIter(q)[s] <= TotalMemory * SumIter(w)[s]
             /\ TotalMemory * SumIter(w)[s] - W * SumIter(q)[s]
                  <= (W - 1) * Cardinality(Positive(w, s))
             /\ Cardinality(Positive(w, s)) <= SumIter(w)[s]
             /\ SumIter(w)[s] <= B * Cardinality(s)
<1>1. SUFFICES \A s \in SUBSET D : P(s)
  OBVIOUS
<1>2. SumIter(w) = [s \in SUBSET D |-> SumStep(w, SumIter(w), s)]
      /\ SumIter(q) = [s \in SUBSET D |-> SumStep(q, SumIter(q), s)]
  <2>1. w \in [D -> Int] /\ q \in [D -> Int]
    OBVIOUS
  <2>2. SumIter(w) = [s \in SUBSET D |-> SumStep(w, SumIter(w), s)]
    BY <2>1, SumIterDef
  <2>3. SumIter(q) = [s \in SUBSET D |-> SumStep(q, SumIter(q), s)]
    BY <2>1, SumIterDef
  <2>. QED  BY <2>2, <2>3
<1>3. \A s \in SUBSET D : /\ IsFiniteSet(s) /\ Cardinality(s) \in Nat
                          /\ IsFiniteSet(Positive(w, s))
                          /\ Cardinality(Positive(w, s)) \in Nat
  BY FS_Subset, FS_CardinalityType DEF Positive
<1>4. SUFFICES ASSUME NEW s0 \in SUBSET D, ~P(s0) PROVE FALSE
  OBVIOUS
<1> DEFINE Bad == {Cardinality(s) : s \in {s \in SUBSET D : ~P(s)}}
<1>5. PICK m \in Bad : \A m2 \in Bad : m <= m2
  <2>1. Bad \in SUBSET Nat /\ Bad # {}
    BY <1>3, <1>4
  <2>. QED  BY <2>1, NatSetHasLeast
<1>5a. m \in Nat
  BY <1>3, <1>5
<1>6. PICK s \in SUBSET D : ~P(s) /\ Cardinality(s) = m
  BY <1>5
<1>7. \A r \in SUBSET D : Cardinality(r) < m => P(r)
  <2> SUFFICES ASSUME NEW r \in SUBSET D, Cardinality(r) < m PROVE P(r)
    OBVIOUS
  <2>1. Cardinality(r) \notin Bad
    <3>1. Cardinality(r) \in Nat
      BY <1>3
    <3>. QED  BY <1>5, <1>5a, <3>1
  <2>. QED  BY <2>1, Zenon DEF Bad
<1>8. CASE s = {}
  <2>1. SumIter(w)[s] = 0 /\ SumIter(q)[s] = 0
    BY <1>2, <1>8 DEF SumStep
  <2>2. Positive(w, s) = {} /\ Cardinality(s) = 0
    BY <1>8, FS_EmptySet DEF Positive
  <2>3. P(s)
    BY <2>1, <2>2, FS_EmptySet DEF P
  <2>. QED  BY <1>6, <2>3
<1>9. CASE s # {}
  <2> DEFINE x == Ch(s)
             r == s \ {x}
  <2>1. x \in s /\ r \in SUBSET D /\ Cardinality(r) = Cardinality(s) - 1
        /\ Cardinality(s) \in Nat \ {0}
    BY <1>9, RemoveChosen
  <2>2. P(r)
    <3>1. Cardinality(r) < m
      BY <1>6, <2>1
    <3>. QED  BY <1>7, <2>1, <3>1, Zenon
  <2>3. SumIter(w)[s] = w[x] + SumIter(w)[r] /\ SumIter(q)[s] = q[x] + SumIter(q)[r]
    BY <1>2, <1>9 DEF SumStep, x, r
  <2>4. Cardinality(Positive(w, s))
          = Cardinality(Positive(w, r)) + (IF w[x] > 0 THEN 1 ELSE 0)
    <3>1. IsFiniteSet(Positive(w, r)) /\ x \notin Positive(w, r)
      BY <1>3, <2>1 DEF Positive
    <3>2. CASE w[x] > 0
      <4>1. Positive(w, s) = Positive(w, r) \cup {x}
        BY <2>1, <3>2 DEF Positive
      <4>. QED  BY <3>1, <3>2, <4>1, FS_AddElement
    <3>3. CASE ~(w[x] > 0)
      <4>1. Positive(w, s) = Positive(w, r)
        BY <2>1, <3>3 DEF Positive
      <4>2. Cardinality(Positive(w, r)) \in Nat
        BY <1>3, <2>1
      <4>. QED  BY <3>3, <4>1, <4>2
    <3>. QED  BY <3>2, <3>3
  <2>5. /\ W * q[x] <= TotalMemory * w[x]
        /\ TotalMemory * w[x] - W * q[x] <= IF w[x] > 0 THEN W - 1 ELSE 0
        /\ w[x] <= B /\ w[x] \in Nat /\ q[x] \in Nat
    BY <2>1
  <2> DEFINE swr == SumIter(w)[r]
             sqr == SumIter(q)[r]
             cr == Cardinality(Positive(w, r))
             ws == SumIter(w)[s]
             qs == SumIter(q)[s]
             cs == Cardinality(Positive(w, s))
  <2>6. /\ swr \in Nat /\ sqr \in Nat /\ cr \in Nat
        /\ W * sqr <= TotalMemory * swr
        /\ TotalMemory * swr - W * sqr <= (W - 1) * cr
        /\ cr <= swr
        /\ swr <= B * Cardinality(r)
    BY <1>3, <2>1, <2>2 DEF P, swr, sqr, cr
  <2>7. ws = w[x] + swr /\ qs = q[x] + sqr
        /\ cs = cr + (IF w[x] > 0 THEN 1 ELSE 0)
        /\ Cardinality(r) = Cardinality(s) - 1
    BY <2>1, <2>3, <2>4 DEF ws, qs, cs, swr, sqr, cr
  <2>8. ws \in Nat /\ qs \in Nat
    BY <2>5, <2>6, <2>7
  <2>9. W * qs <= TotalMemory * ws
    <3>1. W * qs = W * q[x] + W * sqr /\ TotalMemory * ws = TotalMemory * w[x] + TotalMemory * swr
      BY <2>5, <2>6, <2>7
    <3>. QED  BY <2>5, <2>6, <3>1
  <2>10. TotalMemory * ws - W * qs <= (W - 1) * cs
    <3>1. TotalMemory * ws - W * qs = (TotalMemory * w[x] - W * q[x]) + (TotalMemory * swr - W * sqr)
      BY <2>5, <2>6, <2>7
    <3>2. (W - 1) * cs = (W - 1) * cr + (IF w[x] > 0 THEN W - 1 ELSE 0)
      <4>1. CASE w[x] > 0
        <5>1. cs = cr + 1
          BY <2>7, <4>1
        <5>. QED  BY <2>6, <4>1, <5>1
      <4>2. CASE ~(w[x] > 0)
        <5>1. cs = cr
          <6>1. cr \in Nat /\ w[x] \in Nat
            BY <2>5, <2>6
          <6>2. cs = cr + (IF w[x] > 0 THEN 1 ELSE 0)
            BY <2>7
          <6>. QED  BY <4>2, <6>1, <6>2
        <5>. QED  BY <2>6, <4>2, <5>1
      <4>. QED  BY <4>1, <4>2
    <3>. QED  BY <2>5, <2>6, <3>1, <3>2
  <2>11. cs <= ws
    BY <2>5, <2>6, <2>7
  <2>12. ws <= B * Cardinality(s)
    <3>1. B * Cardinality(s) = B * Cardinality(r) + B
      BY <2>1, <2>7
    <3>2. ws <= B + B * Cardinality(r)
      BY <2>1, <2>5, <2>6, <2>7
    <3>. QED  BY <2>1, <2>7, <2>8, <3>1, <3>2
  <2>13. P(s)
    BY <2>8, <2>9, <2>10, <2>11, <2>12 DEF P, ws, qs, cs
  <2>. QED  BY <1>6, <2>13
<1>. QED  BY <1>8, <1>9



(* SumBounds over the whole domain.                                        *)
LEMMA SumBoundsTop ==
    ASSUME NEW D, IsFiniteSet(D), NEW w \in [D -> Nat], NEW q \in [D -> Nat],
           NEW W \in Nat \ {0}, NEW B \in Nat,
           \A a \in D : /\ W * q[a] <= TotalMemory * w[a]
                        /\ TotalMemory * w[a] - W * q[a]
                             <= IF w[a] > 0 THEN W - 1 ELSE 0
                        /\ w[a] <= B
    PROVE  /\ SumIter(w)[D] \in Nat /\ SumIter(q)[D] \in Nat
           /\ W * SumIter(q)[D] <= TotalMemory * SumIter(w)[D]
           /\ TotalMemory * SumIter(w)[D] - W * SumIter(q)[D]
                <= (W - 1) * Cardinality(Positive(w, D))
           /\ Cardinality(Positive(w, D)) <= SumIter(w)[D]
           /\ SumIter(w)[D] <= B * Cardinality(D)
<1>1. D \in SUBSET D
  OBVIOUS
<1>. QED  BY <1>1, SumBounds

-----------------------------------------------------------------------------
(* The invariant.                                                          *)

\* At most 2^32 + 1 contracts (HalfWord + 1): the u64 sum of their u32
\* weights cannot wrap.
FewContracts == Cardinality(DOMAIN appliedFor) <= HalfWord + 1

(* The keeper's map and the applied one are finite, and the cache holds   *)
(* exactly calc_cache_quotas of the map it was last computed from.         *)
KInv ==
    /\ TypeOK
    /\ IsFiniteSet(DOMAIN contracts)
    /\ IsFiniteSet(DOMAIN appliedFor)
    /\ cache = CalcCacheQuotas(appliedFor)


(* KInv holds of the empty keeper and is kept by every operation.         *)
LEMMA KInvInit == Init => KInv
<1> SUFFICES ASSUME Init PROVE KInv
  OBVIOUS
<1>1. EmptyMap \in ContractMaps /\ DOMAIN EmptyMap = {}
  BY DEF EmptyMap, ContractMaps
<1>2. CalcCacheQuotas(EmptyMap) = EmptyMap
  BY DEF CalcCacheQuotas, EmptyMap
<1>. QED  BY <1>1, <1>2, FS_EmptySet DEF Init, KInv, TypeOK

LEMMA KInvStep == KInv /\ [Next]_vars => KInv'
<1> SUFFICES ASSUME KInv, [Next]_vars PROVE KInv'
  OBVIOUS
<1>0. TypeOK'
  BY TypeOKStep DEF KInv
<1>1. ASSUME NEW a \in Accounts, NEW w \in Weights, Insert(a, w)
      PROVE  KInv'
  <2>1. DOMAIN contracts' = DOMAIN contracts \cup {a}
    BY <1>1 DEF Insert
  <2>2. IsFiniteSet(DOMAIN contracts \cup {a})
    BY FS_AddElement DEF KInv
  <2>. QED  BY <1>0, <1>1, <2>1, <2>2 DEF Insert, KInv
<1>2. ASSUME NEW a \in Accounts, NEW w \in Weights, SetWeight(a, w)
      PROVE  KInv'
  <2>1. DOMAIN contracts' = DOMAIN contracts
    BY <1>2 DEF SetWeight
  <2>. QED  BY <1>0, <1>2, <2>1 DEF SetWeight, KInv
<1>3. CASE Drain
  <2>1. DOMAIN contracts' = {}
    BY <1>3 DEF Drain, EmptyMap
  <2>. QED  BY <1>0, <1>3, <2>1, FS_EmptySet DEF Drain, KInv
<1>4. CASE ApplyLocalCacheQuotas
  BY <1>0, <1>4 DEF ApplyLocalCacheQuotas, KInv
<1>5. CASE UNCHANGED vars
  BY <1>0, <1>5 DEF vars, KInv
<1>. QED  BY <1>1, <1>2, <1>3, <1>4, <1>5 DEF Next

-----------------------------------------------------------------------------
(* calc_cache_quotas on a finite map of at most HalfWord + 1 contracts.    *)

(* The quotas add up to at most TOTAL_MEMORY, and when some weight is      *)
(* positive they leave unassigned less memory than there are positive      *)
(* weights.                                                               *)
LEMMA QuotaBounds ==
    ASSUME NEW c \in ContractMaps, IsFiniteSet(DOMAIN c),
           Cardinality(DOMAIN c) <= HalfWord + 1
    PROVE  LET pos == {a \in DOMAIN c : c[a] > 0}
           IN  /\ SumFunction(CalcCacheQuotas(c)) <= TotalMemory
               /\ pos # {} =>
                    TotalMemory - SumFunction(CalcCacheQuotas(c)) < Cardinality(pos)
<1> DEFINE D == DOMAIN c
           q == CalcCacheQuotas(c)
           sw == SumIter(c)[D]
           sq == SumIter(q)[D]
           W == TotalWeight(c)
           B == HalfWord - 1
           cp == Cardinality(Positive(c, D))
<1> USE DEF D, q, sw, sq, W, B, cp
<1>0. c \in [D -> Weights]
  BY DEF ContractMaps
<1>1. c \in [D -> Nat] /\ \A a \in D : c[a] <= B /\ c[a] \in Weights
  BY <1>0 DEF Weights
<1>2. Cardinality(D) \in Nat /\ B \in Nat
  BY FS_CardinalityType DEF D, B
<1>3. /\ sw \in Nat /\ cp <= sw /\ sw <= B * Cardinality(D)
  <2> DEFINE q1 == [a \in D |-> TotalMemory * c[a]]
  <2>1. q1 \in [D -> Nat]
    BY <1>1 DEF q1
  <2>2. \A a \in D : /\ 1 * q1[a] <= TotalMemory * c[a]
                     /\ TotalMemory * c[a] - 1 * q1[a] <= IF c[a] > 0 THEN 1 - 1 ELSE 0
                     /\ c[a] <= B
    BY <1>1 DEF q1
  <2>3. 1 \in Nat \ {0}
    OBVIOUS
  <2>4. /\ SumIter(c)[D] \in Nat /\ SumIter(q1)[D] \in Nat
        /\ 1 * SumIter(q1)[D] <= TotalMemory * SumIter(c)[D]
        /\ TotalMemory * SumIter(c)[D] - 1 * SumIter(q1)[D]
             <= (1 - 1) * Cardinality(Positive(c, D))
        /\ Cardinality(Positive(c, D)) <= SumIter(c)[D]
        /\ SumIter(c)[D] <= B * Cardinality(D)
    BY <1>1, <1>2, <2>1, <2>2, <2>3, SumBoundsTop, Zenon
  <2>. QED  BY <2>4
<1>4. sw < Word
  <2>1. B * Cardinality(D) <= B * (HalfWord + 1)
    BY <1>2 DEF D
  <2>2. B * (HalfWord + 1) = HalfWord * HalfWord - 1
    BY DEF B
  <2>. QED  BY <1>2, <1>3, <2>1, <2>2
<1>5. SumFunction(c) = sw /\ sw % Word = sw
  BY <1>3, <1>4, SumFunctionIter DEF sw, D
<1>6. W = (IF sw < 1 THEN 1 ELSE sw) /\ W \in Nat \ {0}
  BY <1>3, <1>5 DEF W, TotalWeight
<1>7. q = [a \in D |-> (TotalMemory * c[a]) \div W]
  BY <1>1, ProductFits DEF q, CalcCacheQuotas, Quota, W, D
<1>8. \A a \in D : /\ q[a] \in Nat
                   /\ W * q[a] <= TotalMemory * c[a]
                   /\ TotalMemory * c[a] - W * q[a] <= IF c[a] > 0 THEN W - 1 ELSE 0
  <2> SUFFICES ASSUME NEW a \in D
               PROVE  /\ q[a] \in Nat
                      /\ W * q[a] <= TotalMemory * c[a]
                      /\ TotalMemory * c[a] - W * q[a] <= IF c[a] > 0 THEN W - 1 ELSE 0
    OBVIOUS
  <2>1. q[a] = (TotalMemory * c[a]) \div W /\ TotalMemory * c[a] \in Nat
    BY <1>1, <1>7
  <2>2. CASE c[a] > 0
    BY <1>6, <2>1, <2>2, DivBounds
  <2>3. CASE ~(c[a] > 0)
    <3>1. c[a] = 0
      BY <1>1, <2>3
    <3>2. q[a] = 0
      BY <1>6, <2>1, <3>1
    <3>. QED  BY <1>6, <2>3, <3>1, <3>2
  <2>. QED  BY <2>2, <2>3, Zenon
<1>9. /\ W * sq <= TotalMemory * sw
      /\ TotalMemory * sw - W * sq <= (W - 1) * cp
      /\ sq \in Nat
  <2>1. q \in [D -> Nat]
    BY <1>7, <1>8
  <2>2. /\ SumIter(c)[D] \in Nat /\ SumIter(q)[D] \in Nat
        /\ W * SumIter(q)[D] <= TotalMemory * SumIter(c)[D]
        /\ TotalMemory * SumIter(c)[D] - W * SumIter(q)[D]
             <= (W - 1) * Cardinality(Positive(c, D))
        /\ Cardinality(Positive(c, D)) <= SumIter(c)[D]
        /\ SumIter(c)[D] <= B * Cardinality(D)
    BY <1>1, <1>2, <1>6, <1>8, <2>1, SumBoundsTop, Zenon
  <2>. QED  BY <2>2
<1>10. SumFunction(q) = sq
  BY <1>7, SumFunctionIter DEF sq
<1>11. /\ IsFiniteSet(Positive(c, D)) /\ cp \in Nat
       /\ Positive(c, D) = {a \in DOMAIN c : c[a] > 0}
  BY FS_Subset, FS_CardinalityType DEF Positive
<1>14. sw \in Nat /\ sq \in Nat /\ cp \in Nat /\ W \in Nat \ {0}
  BY <1>3, <1>6, <1>9, <1>11
<1>12. CASE sw = 0
  <2>1. W = 1
    BY <1>6, <1>12
  <2>2. sq <= 0 /\ cp = 0
    <3>1. W * sq = sq /\ TotalMemory * sw = 0
      BY <1>12, <1>14, <2>1
    <3>. QED  BY <1>3, <1>9, <1>12, <1>14, <3>1
  <2>3. {a \in DOMAIN c : c[a] > 0} = {}
    <3>1. Cardinality(Positive(c, D)) = 0 => Positive(c, D) = {}
      BY <1>11, FS_EmptySet
    <3>. QED  BY <1>11, <2>2, <3>1
  <2>. QED  BY <1>10, <1>14, <2>2, <2>3
<1>13. CASE sw # 0
  <2>1. W = sw /\ sw > 0
    BY <1>6, <1>13, <1>14
  <2>2. sq <= TotalMemory
    <3>1. W * sq <= W * TotalMemory
      BY <1>9, <1>14, <2>1
    <3>. QED  BY <1>14, <3>1
  <2>3. cp > 0 => TotalMemory - sq < cp
    <3> SUFFICES ASSUME cp > 0 PROVE TotalMemory - sq < cp
      OBVIOUS
    <3>1. W * (TotalMemory - sq) <= (W - 1) * cp
      BY <1>9, <1>14, <2>1
    <3>2. (W - 1) * cp < W * cp
      BY <1>14
    <3>3. W * (TotalMemory - sq) < W * cp
      BY <1>14, <3>1, <3>2
    <3>. QED  BY <1>14, <3>3
  <2>4. {a \in DOMAIN c : c[a] > 0} # {} => cp > 0
    BY <1>11, FS_EmptySet
  <2>. QED  BY <1>10, <1>11, <2>2, <2>3, <2>4
<1>. QED  BY <1>12, <1>13


-----------------------------------------------------------------------------
(* The theorems.                                                           *)

(* KInv and the bound on the contracts give both properties.              *)
LEMMA KInvQuotas == KInv /\ FewContracts => QuotaWithinBudget /\ ResidueBelowCount
<1> SUFFICES ASSUME KInv, FewContracts PROVE QuotaWithinBudget /\ ResidueBelowCount
  OBVIOUS
<1>1. /\ appliedFor \in ContractMaps /\ IsFiniteSet(DOMAIN appliedFor)
      /\ Cardinality(DOMAIN appliedFor) <= HalfWord + 1
      /\ cache = CalcCacheQuotas(appliedFor)
  BY DEF KInv, TypeOK, FewContracts
<1>2. LET pos == {a \in DOMAIN appliedFor : appliedFor[a] > 0}
      IN  /\ SumFunction(CalcCacheQuotas(appliedFor)) <= TotalMemory
          /\ pos # {} =>
               TotalMemory - SumFunction(CalcCacheQuotas(appliedFor)) < Cardinality(pos)
  BY <1>1, QuotaBounds
<1>. QED  BY <1>1, <1>2 DEF QuotaWithinBudget, ResidueBelowCount

(* For every word width, TOTAL_MEMORY and set of contracts: as long as the *)
(* keeper holds at most 2^32 + 1 contracts, the quotas                     *)
(* apply_local_cache_quotas hands the local cache add up to at most       *)
(* TOTAL_MEMORY (calc_cache_quotas rounds each share down).               *)
THEOREM QuotaWithinBudgetHolds == Spec => [](FewContracts => QuotaWithinBudget)
<1>1. KInv => (FewContracts => QuotaWithinBudget)
  BY KInvQuotas
<1>. QED  BY <1>1, KInvInit, KInvStep, PTL DEF Spec

(* Under the same bound, calc_cache_quotas leaves unassigned less memory  *)
(* than there are contracts with a positive weight.                       *)
THEOREM ResidueBelowCountHolds == Spec => [](FewContracts => ResidueBelowCount)
<1>1. KInv => (FewContracts => ResidueBelowCount)
  BY KInvQuotas
<1>. QED  BY <1>1, KInvInit, KInvStep, PTL DEF Spec


-----------------------------------------------------------------------------
(* The keeper with its sidevm sweep.                                       *)

(* Every step of the whole keeper is a step of Keeper or leaves its       *)
(* weights and quotas alone.                                              *)
LEMMA KeeperNextIsNext == [KeeperNext]_keeperVars => [Next]_vars
<1> SUFFICES ASSUME [KeeperNext]_keeperVars PROVE [Next]_vars
  OBVIOUS
<1>1. ASSUME NEW a \in Accounts, NEW w \in Weights, NEW st \in {"none", "running"},
             InsertContract(a, w, st)
      PROVE  Next
  BY <1>1 DEF InsertContract, Next
<1>2. ASSUME NEW a \in Accounts, NEW w \in Weights, SetWeight(a, w)
      PROVE  Next
  BY <1>2 DEF Next
<1>3. CASE DrainContracts
  BY <1>3 DEF DrainContracts, Next
<1>4. CASE ApplyLocalCacheQuotas
  BY <1>4 DEF Next
<1>5. ASSUME NEW a \in Accounts, SidevmExit(a) PROVE UNCHANGED vars
  BY <1>5 DEF SidevmExit
<1>6. ASSUME NEW fails \in SUBSET Accounts, TryRestartSidevms(fails)
      PROVE  UNCHANGED vars
  BY <1>6 DEF TryRestartSidevms
<1>7. CASE UNCHANGED keeperVars
  BY <1>7 DEF keeperVars, vars
<1>. QED  BY <1>1, <1>2, <1>3, <1>4, <1>5, <1>6, <1>7 DEF KeeperNext

(* The keeper with its sidevm sweep (KeeperSpec, which MC_Keeper checks)  *)
(* implements Keeper's Spec: try_restart_sidevms and sidevm exits never   *)
(* touch the weights, the quota cache or the applied map.                 *)
THEOREM KeeperSpecImplementsSpec == KeeperSpec => Spec
<1>1. KeeperInit => Init
  BY DEF KeeperInit
<1>. QED  BY <1>1, KeeperNextIsNext, PTL DEF KeeperSpec, Spec

(* Hence both quota theorems hold of the whole keeper too.                 *)
THEOREM KeeperQuotasHold ==
    KeeperSpec => [](FewContracts => QuotaWithinBudget /\ ResidueBelowCount)
BY KeeperSpecImplementsSpec, QuotaWithinBudgetHolds, ResidueBelowCountHolds, PTL

=============================================================================
