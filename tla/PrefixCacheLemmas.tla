-------------------------- MODULE PrefixCacheLemmas --------------------------
(***************************************************************************)
(* What the methods of prefix_cache.rs do to a cache, for every set of     *)
(* prompts, every compaction floor and every budget: each preserves        *)
(* CacheInv, evict_to meets its budget exactly and takes the oldest, and   *)
(* the heap stays in proportion to the map.  The lemmas are about the      *)
(* operators of PrefixCache and no behaviour, so that the proofs about one *)
(* cache (PrefixCacheProofs), the scheduler's caches (SchedulerProofs) and *)
(* the router's (RouterProofs) share them.                                 *)
(*                                                                         *)
(* The hashes are those of a prompt, or none at all: a prompt shorter than *)
(* one block hashes to nothing, whether or not Chains has it.              *)
(***************************************************************************)
EXTENDS PrefixCache, FiniteSetTheorems, WellFoundedInduction, TLAPS

\* The least element that stands in for induction on the natural numbers.
LEMMA LeastNat ==
    ASSUME NEW S \in SUBSET Nat, S # {}
    PROVE  \E n \in S : \A m \in S : n <= m
  <1> DEFINE R == {p \in Nat \X Nat : p[1] < p[2]}
  <1>1. IsWellFoundedOn(R, Nat)
    BY NatLessThanWellFounded DEF OpToRel
  <1>2. PICK n \in S : \A m \in S : ~(<<m, n>> \in R)
    <2> HIDE DEF R
    <2>1. S \subseteq Nat
      OBVIOUS
    <2> QED BY <1>1, <2>1, WFMin
  <1>3. ASSUME NEW m \in S PROVE n <= m
    <2>1. m \in Nat /\ n \in Nat
      OBVIOUS
    <2>2. m < n => <<m, n>> \in R
      BY <2>1
    <2> HIDE DEF R
    <2> QED BY <1>2, <2>1, <2>2
  <1> QED BY <1>3

\* What a loop computes exists: each turn takes a value of V to a value of V,
\* n times.

Steps(n, V) == [1..n -> [V -> V]]

LoopOf(n, V, first, Step, f) ==
    f \in [0..n -> V] /\ f[0] = first /\ \A k \in 1..n : f[k] = Step[k][f[k - 1]]

LEMMA LoopExists ==
    ASSUME NEW n \in Nat, NEW V, NEW first \in V, NEW Step \in Steps(n, V)
    PROVE  \E f : LoopOf(n, V, first, Step, f)
  <1> USE DEF Steps, LoopOf
  <1> DEFINE Upto(m) == \E f \in [0..m -> V] :
                            f[0] = first /\ \A k \in 1..m : f[k] = Step[k][f[k - 1]]
             Bad == {m \in 0..n : ~Upto(m)}
  <1> SUFFICES ASSUME Bad # {} PROVE FALSE
    <2> HIDE DEF Upto
    <2>1. Upto(n)
      OBVIOUS
    <2> QED BY <2>1 DEF Upto
  <1>1. PICK m \in Bad : \A k \in Bad : m <= k
    <2>1. Bad \in SUBSET Nat
      OBVIOUS
    <2> HIDE DEF Bad
    <2> QED BY <2>1, LeastNat
  <1>2. m \in 0..n /\ ~Upto(m)
    BY <1>1
  <1>3. CASE m = 0
    <2> DEFINE one == [k \in 0..0 |-> first]
    <2>1. one \in [0..0 -> V] /\ one[0] = first /\ \A k \in 1..0 : one[k] = Step[k][one[k - 1]]
      OBVIOUS
    <2> HIDE DEF one
    <2>2. Upto(0)
      BY <2>1
    <2> HIDE DEF Upto
    <2> QED BY <1>2, <1>3, <2>2
  <1>4. CASE m # 0
    <2>1. m - 1 \in 0..n /\ m - 1 \notin Bad
      <3> HIDE DEF Bad
      <3> QED BY <1>1, <1>2, <1>4
    <2>2. PICK f \in [0..(m - 1) -> V] :
              f[0] = first /\ \A k \in 1..(m - 1) : f[k] = Step[k][f[k - 1]]
      BY <2>1
    <2> DEFINE g == [k \in 0..m |-> IF k = m THEN Step[m][f[m - 1]] ELSE f[k]]
    <2>3. f[m - 1] \in V /\ m \in 1..n
      BY <1>2, <1>4, <2>2
    <2>4. Step[m][f[m - 1]] \in V
      BY <2>3
    <2>5. g \in [0..m -> V]
      BY <1>2, <2>2, <2>4
    <2>6. g[0] = first
      BY <1>2, <1>4, <2>2
    <2>7. \A k \in 1..m : g[k] = Step[k][g[k - 1]]
      <3> SUFFICES ASSUME NEW k \in 1..m PROVE g[k] = Step[k][g[k - 1]]
        OBVIOUS
      <3>1. g[k - 1] = f[k - 1]
        BY <1>2, <1>4
      <3>2. CASE k = m
        BY <1>2, <3>1, <3>2
      <3>3. CASE k # m
        <4>1. k \in 1..(m - 1) /\ k \in 0..m
          BY <1>2, <3>3
        <4> QED BY <2>2, <3>1, <3>3, <4>1
      <3> QED BY <3>2, <3>3
    <2> HIDE DEF g
    <2> QED BY <1>2, <2>5, <2>6, <2>7
  <1> QED BY <1>3, <1>4

\* ChainsAssumption, the empty list of hashes included.
LEMMA PromptsAgree ==
    ASSUME NEW d \in Chains \cup {<<>>}, NEW e \in Chains \cup {<<>>},
           NEW i \in DOMAIN d, NEW j \in DOMAIN e, d[i] = e[j]
    PROVE  i = j /\ \A k \in 1..i : d[k] = e[k]
  <1>1. d \in Chains /\ e \in Chains
    OBVIOUS
  <1> QED BY <1>1, ChainsAssumption

\* A block occurs at one position of a chain, so CHOOSE finds that position.
LEMMA PositionUnique ==
    ASSUME NEW hashes \in Chains \cup {<<>>}, NEW k \in DOMAIN hashes
    PROVE  (CHOOSE i \in DOMAIN hashes : hashes[i] = hashes[k]) = k
  BY PromptsAgree

LEMMA ChainFacts ==
    ASSUME NEW hashes \in Chains \cup {<<>>}
    PROVE  /\ hashes \in Seq(Blocks)
           /\ DOMAIN hashes = 1..Len(hashes) /\ Len(hashes) \in Nat
           /\ \A i \in DOMAIN hashes : i \in Nat \ {0} /\ hashes[i] \in Blocks
  <1>1. Chains \subseteq Seq(Blocks) /\ <<>> \in Seq(Blocks)
    BY ChainsAssumption
  <1>2. hashes \in Seq(Blocks)
    BY <1>1
  <1> QED BY <1>2

\* The walk of touch covers a leading part of the chain, and its blocks with
\* what was present before leave no gap.
LEMMA WalkedFacts ==
    ASSUME NEW c, NEW hashes \in Chains \cup {<<>>}, NEW onlyPresent \in BOOLEAN
    PROVE  /\ Walked(c, hashes, onlyPresent) \subseteq DOMAIN hashes
           /\ IsFiniteSet(Walked(c, hashes, onlyPresent))
           /\ \A i \in Walked(c, hashes, onlyPresent) : \A j \in 1..i :
                  j \in Walked(c, hashes, onlyPresent)
  <1> DEFINE W == Walked(c, hashes, onlyPresent)
  <1>1. W \subseteq DOMAIN hashes
    BY DEF Walked, Leading
  <1>2. IsFiniteSet(W)
    BY <1>1, ChainFacts, FS_Interval, FS_Subset, 1 \in Int
  <1>3. ASSUME NEW i \in W, NEW j \in 1..i PROVE j \in W
    <2>1. i \in DOMAIN hashes /\ j \in DOMAIN hashes
      BY <1>1, ChainFacts
    <2>2. \A k \in 1..j : k \in 1..i
      BY <2>1, ChainFacts
    <2> QED BY <1>3, <2>1, <2>2 DEF Walked, Leading
  <1> QED BY <1>1, <1>2, <1>3

\* Rebuilding the heap from the map keeps every part of the invariant.
LEMMA CompactPreserves ==
    ASSUME NEW c, CacheInv(c)
    PROVE  CacheInv(CompactIfBloated(c))
  <1> DEFINE H == {CandidateOf(c.map, h) : h \in DOMAIN c.map}
             d == [c EXCEPT !.heap = H]
  <1>1. CASE Cardinality(c.heap) > CompactThreshold(c)
    <2>1. CompactIfBloated(c) = d
      BY <1>1 DEF CompactIfBloated
    <2>0. c = [map |-> c.map, heap |-> c.heap, clock |-> c.clock, seq |-> c.seq]
      BY DEF CacheInv, CacheTypeOK
    <2>2. /\ d.map = c.map /\ d.heap = H /\ d.clock = c.clock /\ d.seq = c.seq
          /\ d = [map |-> d.map, heap |-> d.heap, clock |-> d.clock, seq |-> d.seq]
      BY <2>0
    <2>3. IsFiniteSet(H)
      <3>1. IsFiniteSet(DOMAIN c.map)
        BY BlocksAssumption, FS_Subset DEF CacheInv, CacheTypeOK
      <3> DEFINE f == [h \in DOMAIN c.map |-> CandidateOf(c.map, h)]
      <3>2. f \in Surjection(DOMAIN c.map, H)
        BY DEF Surjection
      <3> QED BY <3>1, <3>2, FS_Surjection
    <2>4. H \subseteq Candidate
      BY DEF CacheInv, CacheTypeOK, CandidateOf, Candidate, Stamp
    <2>10. \A e \in H : e.access <= c.clock /\ e.seq <= c.seq
      BY DEF CacheInv, CacheTypeOK, CandidateOf
    <2>5. CacheTypeOK(d)
      BY <2>2, <2>3, <2>4, <2>10 DEF CacheInv, CacheTypeOK
    <2>6. \A h \in DOMAIN c.map : CandidateOf(d.map, h) = CandidateOf(c.map, h)
      BY <2>2 DEF CandidateOf
    <2>7. HeapCoversMap(d)
      BY <2>2, <2>6 DEF HeapCoversMap
    <2>8. PrefixClosed(d) /\ SeqsDistinct(d)
      BY <2>2 DEF CacheInv, PrefixClosed, SeqsDistinct
    <2>9. DeeperGoesFirst(d)
      BY <2>2 DEF CacheInv, DeeperGoesFirst, CandidateOf
    <2> QED BY <2>1, <2>5, <2>7, <2>8, <2>9 DEF CacheInv
  <1>2. CASE ~(Cardinality(c.heap) > CompactThreshold(c))
    BY <1>2 DEF CompactIfBloated
  <1> QED BY <1>1, <1>2

\* What touch does to the map, before compaction: the walked blocks have new
\* stamps, whose seq grows along the chain; the others keep theirs.
LEMMA StampFacts ==
    ASSUME NEW c, CacheInv(c), NEW hashes \in Chains \cup {<<>>}, NEW W \in SUBSET (DOMAIN hashes),
           IsFiniteSet(W)
    PROVE  LET touched == {hashes[i] : i \in W}
               map == TouchedMap(c, hashes, touched)
           IN  /\ DOMAIN map = DOMAIN c.map \cup touched
               /\ touched \subseteq Blocks
               /\ \A i \in W : map[hashes[i]].access = c.clock + 1
               /\ \A i \in W : map[hashes[i]].seq = c.seq + i
               /\ \A h \in DOMAIN c.map \ touched : map[h] = c.map[h]
               /\ map \in [DOMAIN map -> Stamp]
  <1> DEFINE touched == {hashes[i] : i \in W}
             map == TouchedMap(c, hashes, touched)
  <1>1. DOMAIN map = DOMAIN c.map \cup touched
    BY DEF TouchedMap
  <1>2. touched \subseteq Blocks
    BY ChainFacts
  <1>3. ASSUME NEW i \in W
        PROVE  /\ map[hashes[i]] = [access |-> c.clock + 1, seq |-> c.seq + i]
               /\ map[hashes[i]].access = c.clock + 1
               /\ map[hashes[i]].seq = c.seq + i
    <2>1. (CHOOSE k \in DOMAIN hashes : hashes[k] = hashes[i]) = i
      BY PositionUnique
    <2>2. map[hashes[i]] = [access |-> c.clock + 1, seq |-> c.seq + i]
      BY <2>1 DEF TouchedMap, NewStamp
    <2> HIDE DEF map
    <2> QED BY <2>2
  <1>4. \A h \in DOMAIN c.map \ touched : map[h] = c.map[h]
    BY DEF TouchedMap
  <1>5. map = [h \in DOMAIN map |-> map[h]]
    BY DEF TouchedMap
  <1> HIDE DEF map, touched
  <1>6. ASSUME NEW h \in DOMAIN map PROVE map[h] \in Stamp
    <2>1. CASE h \in touched
      <3>1. PICK i \in W : h = hashes[i]
        BY <2>1 DEF touched
      <3>2. c.clock + 1 \in Nat /\ c.seq + i \in Nat
        BY ChainFacts DEF CacheInv, CacheTypeOK
      <3>3. map[h] = [access |-> c.clock + 1, seq |-> c.seq + i]
        BY <1>3, <3>1
      <3> QED BY <3>2, <3>3 DEF Stamp
    <2>2. CASE h \notin touched
      BY <1>1, <1>4, <1>6, <2>2 DEF CacheInv, CacheTypeOK
    <2> QED BY <2>1, <2>2
  <1>7. map \in [DOMAIN map -> Stamp]
    BY <1>5, <1>6
  <1>8. \A i \in W : map[hashes[i]].access = c.clock + 1
    BY <1>3
  <1>9. \A i \in W : map[hashes[i]].seq = c.seq + i
    BY <1>3
  <1> QED BY <1>1, <1>2, <1>4, <1>7, <1>8, <1>9 DEF map, touched

\* The largest position walked is the number of positions walked.
LEMMA WalkedCount ==
    ASSUME NEW hashes \in Chains \cup {<<>>}, NEW W \in SUBSET (DOMAIN hashes), IsFiniteSet(W),
           \A i \in W : \A j \in 1..i : j \in W
    PROVE  Cardinality(W) \in Nat /\ \A i \in W : i <= Cardinality(W)
  <1>1. Cardinality(W) \in Nat
    BY FS_CardinalityType
  <1>2. ASSUME NEW i \in W PROVE i <= Cardinality(W)
    <2>1. i \in Nat \ {0}
      BY ChainFacts
    <2>2. 1..i \in SUBSET W
      OBVIOUS
    <2>3. Cardinality(1..i) <= Cardinality(W)
      BY <2>2, FS_Subset
    <2>4. Cardinality(1..i) = i
      BY <2>1, FS_Interval
    <2> QED BY <2>3, <2>4
  <1> QED BY <1>1, <1>2

\* The cache a touch leaves before it compacts the heap.
Pushed(c, hashes, onlyPresent) ==
    LET walked == Walked(c, hashes, onlyPresent)
        touched == {hashes[i] : i \in walked}
        map == TouchedMap(c, hashes, touched)
    IN  [map |-> map,
         heap |-> c.heap \cup {CandidateOf(map, h) : h \in touched},
         clock |-> c.clock + 1,
         seq |-> c.seq + Cardinality(walked)]

LEMMA PushPreserves ==
    ASSUME NEW c, CacheInv(c), NEW hashes \in Chains \cup {<<>>}, NEW onlyPresent \in BOOLEAN
    PROVE  CacheInv(Pushed(c, hashes, onlyPresent))
  <1> DEFINE W == Walked(c, hashes, onlyPresent)
             touched == {hashes[i] : i \in W}
             map == TouchedMap(c, hashes, touched)
             pushed == {CandidateOf(map, h) : h \in touched}
             d == [map |-> map, heap |-> c.heap \cup pushed, clock |-> c.clock + 1,
                   seq |-> c.seq + Cardinality(W)]
  <1>1. Pushed(c, hashes, onlyPresent) = d
    BY DEF Pushed
  <1>2. /\ W \in SUBSET (DOMAIN hashes) /\ IsFiniteSet(W)
        /\ \A i \in W : \A j \in 1..i : j \in W
    BY WalkedFacts
  <1>3. Cardinality(W) \in Nat /\ \A i \in W : i <= Cardinality(W)
    BY <1>2, WalkedCount
  <1>4. /\ DOMAIN map = DOMAIN c.map \cup touched
        /\ touched \subseteq Blocks
        /\ \A i \in W : map[hashes[i]].access = c.clock + 1
        /\ \A i \in W : map[hashes[i]].seq = c.seq + i
        /\ \A h \in DOMAIN c.map \ touched : map[h] = c.map[h]
        /\ map \in [DOMAIN map -> Stamp]
    BY <1>2, StampFacts
  <1>5. /\ c.clock \in Nat /\ c.seq \in Nat
        /\ c = [map |-> c.map, heap |-> c.heap, clock |-> c.clock, seq |-> c.seq]
        /\ DOMAIN c.map \subseteq Blocks
        /\ c.map \in [DOMAIN c.map -> Stamp]
        /\ c.heap \subseteq Candidate /\ IsFiniteSet(c.heap)
        /\ \A h \in DOMAIN c.map : c.map[h].access <= c.clock /\ c.map[h].seq <= c.seq
    BY DEF CacheInv, CacheTypeOK
  <1>8. /\ d.map = map /\ d.heap = c.heap \cup pushed
        /\ d.clock = c.clock + 1 /\ d.seq = c.seq + Cardinality(W)
        /\ d = [map |-> d.map, heap |-> d.heap, clock |-> d.clock, seq |-> d.seq]
    OBVIOUS
  <1> HIDE DEF d, pushed, map, W
  <1>11. CacheTypeOK(d)
    <2>1. pushed \subseteq Candidate
      BY <1>4 DEF pushed, CandidateOf, Candidate, Stamp
    <2>2. IsFiniteSet(pushed)
      <3>1. IsFiniteSet(touched)
        BY <1>4, BlocksAssumption, FS_Subset
      <3> DEFINE f == [h \in touched |-> CandidateOf(map, h)]
      <3>2. f \in Surjection(touched, pushed)
        BY DEF Surjection, pushed
      <3> QED BY <3>1, <3>2, FS_Surjection
    <2>3. IsFiniteSet(c.heap \cup pushed) /\ c.heap \cup pushed \subseteq Candidate
      BY <1>5, <2>1, <2>2, FS_Union
    <2>4. DOMAIN map \subseteq Blocks
      BY <1>4, <1>5
    <2>5. ASSUME NEW h \in DOMAIN map
          PROVE  map[h].access <= c.clock + 1 /\ map[h].seq <= c.seq + Cardinality(W)
      <3>1. CASE h \in touched
        <4>1. PICK i \in W : h = hashes[i]
          BY <3>1
        <4>2. map[h].access = c.clock + 1 /\ map[h].seq = c.seq + i /\ i \in Nat
          BY <1>2, <1>4, <4>1, ChainFacts
        <4> QED BY <1>3, <1>5, <4>1, <4>2
      <3>2. CASE h \notin touched
        <4>1. h \in DOMAIN c.map /\ map[h] = c.map[h] /\ c.map[h] \in Stamp
          BY <1>4, <1>5, <2>5, <3>2
        <4> QED BY <1>3, <1>5, <4>1 DEF Stamp
      <3> QED BY <3>1, <3>2
    <2>6. \A h \in touched : h \in DOMAIN map
      BY <1>4
    <2>7. ASSUME NEW e \in c.heap \cup pushed
          PROVE  e.access <= c.clock + 1 /\ e.seq <= c.seq + Cardinality(W)
      <3>1. CASE e \in c.heap
        <4>1. e.access <= c.clock /\ e.seq <= c.seq /\ e.access \in Nat /\ e.seq \in Nat
          BY <1>5, <3>1 DEF Candidate, CacheInv, CacheTypeOK
        <4> QED BY <1>3, <1>5, <4>1
      <3>2. CASE e \in pushed
        BY <2>5, <2>6, <3>2 DEF pushed, CandidateOf
      <3> QED BY <3>1, <3>2
    <2> QED BY <1>3, <1>4, <1>5, <1>8, <2>3, <2>4, <2>5, <2>7 DEF CacheTypeOK
  \* A touched block of any chain has the whole chain up to it touched: the
  \* chain agrees with hashes there.
  <1>12. ASSUME NEW e \in Chains, NEW i \in DOMAIN e, e[i] \in touched
         PROVE  i \in W /\ \A j \in 1..i : j \in W /\ e[j] = hashes[j] /\ e[j] \in touched
    <2>1. PICK k \in W : e[i] = hashes[k]
      BY <1>12
    <2>2. i = k /\ \A j \in 1..i : e[j] = hashes[j]
      BY <1>2, <2>1, PromptsAgree
    <2> QED BY <1>2, <2>1, <2>2
  <1>13. PrefixClosed(d)
    <2> SUFFICES ASSUME NEW e \in Chains, NEW i \in DOMAIN e, e[i] \in DOMAIN map,
                        NEW j \in 1..i
                 PROVE  e[j] \in DOMAIN map
      BY <1>8 DEF PrefixClosed
    <2>1. CASE e[i] \in touched
      BY <1>4, <1>12, <2>1
    <2>2. CASE e[i] \notin touched
      BY <1>4, <2>2 DEF CacheInv, PrefixClosed
    <2> QED BY <2>1, <2>2
  <1>14. HeapCoversMap(d)
    <2> SUFFICES ASSUME NEW h \in DOMAIN map PROVE CandidateOf(d.map, h) \in c.heap \cup pushed
      BY <1>8 DEF HeapCoversMap
    <2>1. CASE h \in touched
      BY <1>8, <2>1 DEF pushed
    <2>2. CASE h \notin touched
      <3>1. h \in DOMAIN c.map /\ map[h] = c.map[h]
        BY <1>4, <2>2
      <3>2. CandidateOf(d.map, h) = CandidateOf(c.map, h)
        BY <1>8, <3>1 DEF CandidateOf
      <3> QED BY <3>1, <3>2 DEF CacheInv, HeapCoversMap
    <2> QED BY <2>1, <2>2
  <1>15. DeeperGoesFirst(d)
    <2> SUFFICES ASSUME NEW e \in Chains, NEW i \in DOMAIN e, NEW j \in 1..(i - 1),
                        e[i] \in DOMAIN map
                 PROVE  PopsBefore(CandidateOf(d.map, e[i]), CandidateOf(d.map, e[j]))
      BY <1>8 DEF DeeperGoesFirst
    <2>1. i \in Nat /\ j \in Nat /\ j < i /\ j \in 1..i /\ j \in DOMAIN e
      BY ChainFacts
    <2>2. CASE e[i] \in touched
      <3>1. /\ i \in W /\ j \in W /\ e[i] = hashes[i] /\ e[j] = hashes[j]
        BY <1>12, <2>1, <2>2
      <3>2. /\ map[e[i]].access = c.clock + 1 /\ map[e[i]].seq = c.seq + i
            /\ map[e[j]].access = c.clock + 1 /\ map[e[j]].seq = c.seq + j
        BY <1>4, <3>1
      <3> QED BY <1>5, <1>8, <2>1, <3>2 DEF PopsBefore, CandidateOf
    <2>3. CASE e[i] \notin touched
      <3>1. e[i] \in DOMAIN c.map /\ map[e[i]] = c.map[e[i]]
        BY <1>4, <2>3
      <3>2. e[j] \in DOMAIN c.map
        BY <2>1, <3>1 DEF CacheInv, PrefixClosed
      <3>3. CASE e[j] \in touched
        <4>1. PICK k \in W : e[j] = hashes[k]
          BY <3>3
        <4>2. map[e[j]].access = c.clock + 1
          BY <1>4, <4>1
        <4>3. map[e[i]].access <= c.clock /\ map[e[i]].access \in Nat
          BY <1>5, <3>1 DEF Stamp
        <4> QED BY <1>5, <1>8, <4>2, <4>3 DEF PopsBefore, CandidateOf
      <3>4. CASE e[j] \notin touched
        <4>1. map[e[j]] = c.map[e[j]]
          BY <1>4, <3>2, <3>4
        <4>2. PopsBefore(CandidateOf(c.map, e[i]), CandidateOf(c.map, e[j]))
          BY <3>1 DEF CacheInv, DeeperGoesFirst
        <4> QED BY <1>8, <3>1, <4>1, <4>2 DEF PopsBefore, CandidateOf
      <3> QED BY <3>3, <3>4
    <2> QED BY <2>2, <2>3
  <1>16. SeqsDistinct(d)
    <2> SUFFICES ASSUME NEW g \in DOMAIN map, NEW h \in DOMAIN map, map[g].seq = map[h].seq
                 PROVE  g = h
      BY <1>8 DEF SeqsDistinct
    <2>1. \A b \in touched : \E i \in W : b = hashes[i] /\ map[b].seq = c.seq + i /\ i \in Nat \ {0}
      BY <1>2, <1>4, ChainFacts
    <2>2. \A b \in DOMAIN map \ touched :
              b \in DOMAIN c.map /\ map[b] = c.map[b] /\ map[b].seq <= c.seq /\ map[b].seq \in Nat
      BY <1>4, <1>5 DEF Stamp
    <2>3. CASE g \in touched /\ h \in touched
      BY <1>5, <2>1, <2>3
    <2>4. CASE g \notin touched /\ h \notin touched
      BY <2>2, <2>4 DEF CacheInv, SeqsDistinct
    <2>5. CASE ~(g \in touched <=> h \in touched)
      BY <1>5, <2>1, <2>2, <2>5
    <2> QED BY <2>3, <2>4, <2>5
  <1>17. CacheInv(d)
    BY <1>11, <1>13, <1>14, <1>15, <1>16 DEF CacheInv
  <1> QED BY <1>1, <1>17

\* One call of insert or match_prefix preserves the invariant.
LEMMA TouchPreserves ==
    ASSUME NEW c, CacheInv(c), NEW hashes \in Chains \cup {<<>>}, NEW onlyPresent \in BOOLEAN
    PROVE  CacheInv(Touch(c, hashes, onlyPresent))
  <1>1. Touch(c, hashes, onlyPresent) = CompactIfBloated(Pushed(c, hashes, onlyPresent))
    BY DEF Touch, Pushed
  <1> QED BY <1>1, PushPreserves, CompactPreserves

\* The order of the heap is transitive.
LEMMA PopsBeforeTransitive ==
    ASSUME NEW e \in Candidate, NEW f \in Candidate, NEW g \in Candidate,
           PopsBefore(e, f), PopsBefore(f, g)
    PROVE  PopsBefore(e, g)
  BY DEF PopsBefore, Candidate

\* Of two live entries, whatever pops before the first pops before the second.
LEMMA PoppedIsInitial ==
    ASSUME NEW c, CacheInv(c), NEW budget \in Nat,
           NEW e \in c.heap, NEW f \in c.heap,
           PopsBefore(e, f), f \in Popped(c, budget)
    PROVE  e \in Popped(c, budget)
  <1> DEFINE Before(x) == {g \in c.heap : IsLive(c, g) /\ PopsBefore(g, x)}
  <1>1. c.heap \subseteq Candidate /\ IsFiniteSet(c.heap)
    BY DEF CacheInv, CacheTypeOK
  <1>2. Before(e) \in SUBSET Before(f)
    BY <1>1, PopsBeforeTransitive
  <1>3. IsFiniteSet(Before(f)) /\ IsFiniteSet(Before(e))
    BY <1>1, FS_Subset
  <1>4. Cardinality(Before(e)) <= Cardinality(Before(f))
    BY <1>2, <1>3, FS_Subset
  <1>5. Cardinality(Before(e)) \in Nat /\ Cardinality(Before(f)) \in Nat
    BY <1>3, FS_CardinalityType
  <1>6. NumBlocks(c) \in Nat
    BY BlocksAssumption, FS_Subset, FS_CardinalityType DEF NumBlocks, CacheInv, CacheTypeOK
  <1>7. Cardinality(Before(f)) < NumBlocks(c) - budget
    BY DEF Popped
  <1>8. Cardinality(Before(e)) < NumBlocks(c) - budget
    BY <1>4, <1>5, <1>6, <1>7
  <1> QED BY <1>8 DEF Popped

\* Eviction preserves the invariant: what it keeps of a chain is a prefix,
\* because the deeper block pops first.
LEMMA EvictPreserves ==
    ASSUME NEW c, CacheInv(c), NEW budget \in Nat
    PROVE  CacheInv(EvictTo(c, budget))
  <1> DEFINE P == Popped(c, budget)
             keep == {h \in DOMAIN c.map : CandidateOf(c.map, h) \notin P}
             map == Restrict(c.map, keep)
             d == EvictTo(c, budget)
  <1>1. /\ c.clock \in Nat /\ c.seq \in Nat
        /\ c = [map |-> c.map, heap |-> c.heap, clock |-> c.clock, seq |-> c.seq]
        /\ DOMAIN c.map \subseteq Blocks
        /\ c.map \in [DOMAIN c.map -> Stamp]
        /\ c.heap \subseteq Candidate /\ IsFiniteSet(c.heap)
        /\ \A h \in DOMAIN c.map : c.map[h].access <= c.clock /\ c.map[h].seq <= c.seq
    BY DEF CacheInv, CacheTypeOK
  <1>2. d = [map |-> map, heap |-> c.heap \ P, clock |-> c.clock, seq |-> c.seq]
    BY DEF EvictTo
  <1>3. DOMAIN map = keep /\ \A h \in keep : map[h] = c.map[h]
    BY DEF Restrict
  <1>4. map = [h \in keep |-> map[h]]
    BY DEF Restrict
  <1> HIDE DEF d, map, P
  <1>5. /\ d.map = map /\ d.heap = c.heap \ P /\ d.clock = c.clock /\ d.seq = c.seq
        /\ d = [map |-> d.map, heap |-> d.heap, clock |-> d.clock, seq |-> d.seq]
    BY <1>2
  <1>6. \A h \in keep : CandidateOf(map, h) = CandidateOf(c.map, h)
    BY <1>3 DEF CandidateOf
  <1>7. CacheTypeOK(d)
    <2>1. map \in [keep -> Stamp]
      BY <1>1, <1>3, <1>4
    <2>2. IsFiniteSet(c.heap \ P)
      BY <1>1, FS_Subset
    <2>3. \A e \in c.heap \ P : e.access <= c.clock /\ e.seq <= c.seq
      BY DEF CacheInv, CacheTypeOK
    <2> QED BY <1>1, <1>3, <1>5, <2>1, <2>2, <2>3 DEF CacheTypeOK
  <1>8. PrefixClosed(d)
    <2> SUFFICES ASSUME NEW e \in Chains, NEW i \in DOMAIN e, e[i] \in keep, NEW j \in 1..i
                 PROVE  e[j] \in keep
      BY <1>3, <1>5 DEF PrefixClosed
    <2>1. e[j] \in DOMAIN c.map
      BY DEF CacheInv, PrefixClosed
    <2>2. CASE j = i
      BY <2>2
    <2>3. CASE j # i
      <3>1. j \in 1..(i - 1)
        BY <2>3, ChainFacts
      <3>2. PopsBefore(CandidateOf(c.map, e[i]), CandidateOf(c.map, e[j]))
        BY <3>1 DEF CacheInv, DeeperGoesFirst
      <3>3. CandidateOf(c.map, e[i]) \in c.heap /\ CandidateOf(c.map, e[j]) \in c.heap
        BY <2>1 DEF CacheInv, HeapCoversMap
      <3> QED BY <2>1, <3>2, <3>3, PoppedIsInitial DEF P
    <2> QED BY <2>2, <2>3
  <1>9. HeapCoversMap(d)
    BY <1>3, <1>5, <1>6 DEF CacheInv, HeapCoversMap
  <1>10. DeeperGoesFirst(d)
    <2> SUFFICES ASSUME NEW e \in Chains, NEW i \in DOMAIN e, NEW j \in 1..(i - 1), e[i] \in keep
                 PROVE  PopsBefore(CandidateOf(map, e[i]), CandidateOf(map, e[j]))
      BY <1>3, <1>5 DEF DeeperGoesFirst
    <2>1. j \in 1..i
      BY ChainFacts
    <2>2. e[j] \in keep
      BY <1>3, <1>5, <1>8, <2>1 DEF PrefixClosed
    <2>3. PopsBefore(CandidateOf(c.map, e[i]), CandidateOf(c.map, e[j]))
      BY DEF CacheInv, DeeperGoesFirst
    <2> QED BY <1>6, <2>2, <2>3
  <1>11. SeqsDistinct(d)
    BY <1>3, <1>5 DEF CacheInv, SeqsDistinct
  <1> QED BY <1>7, <1>8, <1>9, <1>10, <1>11 DEF CacheInv, d

LEMMA NewCacheInv == CacheInv(NewCache)
  <1>1. /\ DOMAIN NewCache.map = {} /\ NewCache.heap = {}
        /\ NewCache.clock = 0 /\ NewCache.seq = 0
    BY DEF NewCache
  <1>2. NewCache.map \in [{} -> Stamp]
    BY DEF NewCache
  <1>3. NewCache = [map |-> NewCache.map, heap |-> NewCache.heap,
                    clock |-> NewCache.clock, seq |-> NewCache.seq]
    BY DEF NewCache
  <1>4. CacheTypeOK(NewCache)
    BY <1>1, <1>2, <1>3, FS_EmptySet DEF CacheTypeOK
  <1> QED BY <1>1, <1>4
          DEF CacheInv, PrefixClosed, HeapCoversMap, DeeperGoesFirst, SeqsDistinct
-----------------------------------------------------------------------------
\* The blocks whose current entries pop before that of h.
Ahead(c, h) ==
    {g \in DOMAIN c.map : PopsBefore(CandidateOf(c.map, g), CandidateOf(c.map, h))}

Rank(c) == [h \in DOMAIN c.map |-> Cardinality(Ahead(c, h))]

\* What the heap holds for the blocks of the map.
LEMMA CurrentEntries ==
    ASSUME NEW c, CacheInv(c), NEW h \in DOMAIN c.map
    PROVE  /\ CandidateOf(c.map, h) \in c.heap
           /\ CandidateOf(c.map, h).hash = h
           /\ CandidateOf(c.map, h).access = c.map[h].access /\ c.map[h].access \in Nat
           /\ CandidateOf(c.map, h).seq = c.map[h].seq /\ c.map[h].seq \in Nat
           /\ CandidateOf(c.map, h) \in Candidate
           /\ IsLive(c, CandidateOf(c.map, h))
  <1>1. c.map[h] \in Stamp /\ h \in Blocks
    BY DEF CacheInv, CacheTypeOK
  <1> QED BY <1>1 DEF CacheInv, HeapCoversMap, CandidateOf, Stamp, Candidate, IsLive

LEMMA MapFinite ==
    ASSUME NEW c, CacheInv(c)
    PROVE  IsFiniteSet(DOMAIN c.map) /\ NumBlocks(c) \in Nat
  BY BlocksAssumption, FS_Subset, FS_CardinalityType DEF NumBlocks, CacheInv, CacheTypeOK

\* Counting the live entries ahead of h is counting the blocks ahead of it.
LEMMA LiveAhead ==
    ASSUME NEW c, CacheInv(c), NEW h \in DOMAIN c.map
    PROVE  Cardinality({f \in c.heap : IsLive(c, f) /\ PopsBefore(f, CandidateOf(c.map, h))})
             = Rank(c)[h]
  <1> DEFINE A == Ahead(c, h)
             L == {f \in c.heap : IsLive(c, f) /\ PopsBefore(f, CandidateOf(c.map, h))}
             e == [g \in A |-> CandidateOf(c.map, g)]
  <1>1. IsFiniteSet(A)
    BY MapFinite, FS_Subset DEF Ahead
  <1>2. \A g \in A : e[g] \in L /\ e[g].hash = g
    BY CurrentEntries DEF Ahead
  <1>3. \A f \in L : f.hash \in A /\ e[f.hash] = f
    BY DEF IsLive, Ahead
  <1> HIDE DEF A, L
  <1>4. e \in Surjection(A, L)
    BY <1>2, <1>3 DEF Surjection
  <1>5. e \in Injection(A, L)
    BY <1>2 DEF Injection, IsInjective
  <1>6. Cardinality(L) = Cardinality(A)
    BY <1>1, <1>4, <1>5, FS_Surjection
  <1> QED BY <1>6 DEF A, L, Rank

\* The order of the heap is total on the blocks of the map.
LEMMA EntriesComparable ==
    ASSUME NEW c, CacheInv(c), NEW g \in DOMAIN c.map, NEW h \in DOMAIN c.map, g # h
    PROVE  \/ PopsBefore(CandidateOf(c.map, g), CandidateOf(c.map, h))
           \/ PopsBefore(CandidateOf(c.map, h), CandidateOf(c.map, g))
  <1>1. c.map[g].seq # c.map[h].seq
    BY DEF CacheInv, SeqsDistinct
  <1> QED BY <1>1, CurrentEntries DEF PopsBefore

\* A block ahead of another has the smaller rank.
LEMMA RankIncreases ==
    ASSUME NEW c, CacheInv(c), NEW g \in DOMAIN c.map, NEW h \in DOMAIN c.map,
           PopsBefore(CandidateOf(c.map, g), CandidateOf(c.map, h))
    PROVE  Rank(c)[g] < Rank(c)[h]
  <1>1. IsFiniteSet(Ahead(c, g)) /\ IsFiniteSet(Ahead(c, h))
    BY MapFinite, FS_Subset DEF Ahead
  <1>2. g \notin Ahead(c, g)
    BY CurrentEntries DEF Ahead, PopsBefore
  <1>3. Ahead(c, g) \cup {g} \in SUBSET Ahead(c, h)
    BY CurrentEntries, PopsBeforeTransitive DEF Ahead
  <1>4. Cardinality(Ahead(c, g) \cup {g}) = Cardinality(Ahead(c, g)) + 1
    BY <1>1, <1>2, FS_AddElement
  <1>5. Cardinality(Ahead(c, g) \cup {g}) <= Cardinality(Ahead(c, h))
    BY <1>1, <1>3, FS_Subset
  <1>6. Cardinality(Ahead(c, g)) \in Nat /\ Cardinality(Ahead(c, h)) \in Nat
    BY <1>1, FS_CardinalityType
  <1> QED BY <1>4, <1>5, <1>6 DEF Rank

\* So the ranks number the blocks from 0, without a gap.
LEMMA RankBijective ==
    ASSUME NEW c, CacheInv(c)
    PROVE  /\ Rank(c) \in Injection(DOMAIN c.map, 0..(NumBlocks(c) - 1))
           /\ Rank(c) \in Surjection(DOMAIN c.map, 0..(NumBlocks(c) - 1))
  <1> DEFINE D == DOMAIN c.map
             n == NumBlocks(c)
  <1>1. IsFiniteSet(D) /\ n \in Nat /\ n = Cardinality(D)
    BY MapFinite DEF NumBlocks
  <1>2. ASSUME NEW h \in D PROVE Rank(c)[h] \in 0..(n - 1)
    <2>1. h \notin Ahead(c, h)
      BY CurrentEntries DEF Ahead, PopsBefore
    <2>2. Ahead(c, h) \in SUBSET (D \ {h})
      BY <2>1 DEF Ahead
    <2>3. IsFiniteSet(D \ {h}) /\ Cardinality(D \ {h}) = n - 1
      BY <1>1, FS_RemoveElement
    <2>4. IsFiniteSet(Ahead(c, h)) /\ Cardinality(Ahead(c, h)) <= n - 1
      BY <2>2, <2>3, FS_Subset
    <2>5. Cardinality(Ahead(c, h)) \in Nat
      BY <2>4, FS_CardinalityType
    <2> QED BY <1>1, <2>4, <2>5 DEF Rank
  <1>3. ASSUME NEW g \in D, NEW h \in D, Rank(c)[g] = Rank(c)[h] PROVE g = h
    <2>1. Rank(c)[g] \in Nat /\ Rank(c)[h] \in Nat
      BY <1>1, <1>2
    <2> QED BY <1>3, <2>1, EntriesComparable, RankIncreases
  <1>4. Rank(c) \in [D -> 0..(n - 1)]
    BY <1>2 DEF Rank
  <1> HIDE DEF D, n
  <1>5. Rank(c) \in Injection(D, 0..(n - 1))
    BY <1>3, <1>4 DEF Injection, IsInjective
  <1>6. IsFiniteSet(0..(n - 1)) /\ Cardinality(0..(n - 1)) = n
    BY <1>1, FS_Interval, 0 \in Int, n - 1 \in Int
  <1>7. Rank(c) \in Surjection(D, 0..(n - 1))
    BY <1>1, <1>5, <1>6, FS_Injection
  <1> QED BY <1>5, <1>7 DEF D, n

\* evict_to keeps exactly as many blocks as the budget allows.
LEMMA EvictKeeps ==
    ASSUME NEW c, CacheInv(c), NEW budget \in Nat
    PROVE  NumBlocks(EvictTo(c, budget))
             = (IF NumBlocks(c) > budget THEN budget ELSE NumBlocks(c))
  <1> DEFINE n == NumBlocks(c)
             keep == {h \in DOMAIN c.map : CandidateOf(c.map, h) \notin Popped(c, budget)}
  <1>1. NumBlocks(EvictTo(c, budget)) = Cardinality(keep)
    BY DEF NumBlocks, EvictTo, Restrict
  <1>2. n \in Nat /\ n = Cardinality(DOMAIN c.map) /\ IsFiniteSet(keep)
    BY MapFinite, FS_Subset DEF NumBlocks
  <1>3. \A h \in DOMAIN c.map : CandidateOf(c.map, h) \in Popped(c, budget)
                                   <=> Rank(c)[h] < n - budget
    BY CurrentEntries, LiveAhead DEF Popped
  <1>4. \A h \in DOMAIN c.map : Rank(c)[h] \in 0..(n - 1)
    BY RankBijective DEF Injection
  <1>5. CASE n <= budget
    <2>1. keep = DOMAIN c.map
      BY <1>2, <1>3, <1>4, <1>5
    <2> QED BY <1>1, <1>2, <1>5, <2>1
  <1>6. CASE n > budget
    <2> DEFINE T == (n - budget)..(n - 1)
               f == [h \in keep |-> Rank(c)[h]]
    <2>1. keep = {h \in DOMAIN c.map : Rank(c)[h] \in T}
      BY <1>2, <1>3, <1>4
    <2>2. \A h \in keep : f[h] \in T /\ f[h] = Rank(c)[h]
      BY <2>1
    <2>3. ASSUME NEW t \in T PROVE \E h \in keep : f[h] = t
      <3>1. t \in 0..(n - 1)
        BY <1>2, <1>6
      <3>2. PICK h \in DOMAIN c.map : Rank(c)[h] = t
        BY <3>1, RankBijective DEF Surjection
      <3> QED BY <2>1, <3>2
    <2>4. \A g, h \in keep : f[g] = f[h] => g = h
      BY <2>2, RankBijective DEF Injection, IsInjective
    <2> HIDE DEF keep, T
    <2>5. f \in Surjection(keep, T) /\ f \in Injection(keep, T)
      BY <2>2, <2>3, <2>4 DEF Surjection, Injection, IsInjective
    <2>6. Cardinality(T) = Cardinality(keep)
      BY <1>2, <2>5, FS_Surjection
    <2>7. n - budget \in Int /\ n - 1 \in Int
      BY <1>2
    <2>8. Cardinality(T) = budget
      BY <1>2, <1>6, <2>7, FS_Interval DEF T
    <2> QED BY <1>1, <1>6, <2>6, <2>8
  <1> QED BY <1>2, <1>5, <1>6

-----------------------------------------------------------------------------
\* Compaction does not show in the tree.
LEMMA CompactKeepsMap ==
    ASSUME NEW c
    PROVE  CompactIfBloated(c).map = c.map /\ CompactIfBloated(c).clock = c.clock
  <1> DEFINE H == {CandidateOf(c.map, h) : h \in DOMAIN c.map}
  <1>1. [c EXCEPT !.heap = H].map = c.map /\ [c EXCEPT !.heap = H].clock = c.clock
    OBVIOUS
  <1> QED BY <1>1 DEF CompactIfBloated

\* A touch stamps the walked blocks of the tree with the new tick.
LEMMA TouchOnTree ==
    ASSUME NEW c, CacheInv(c), NEW hashes \in Chains \cup {<<>>}, NEW onlyPresent \in BOOLEAN
    PROVE  LET touched == {hashes[i] : i \in Walked(c, hashes, onlyPresent)}
               d == Touch(c, hashes, onlyPresent)
           IN  /\ d.clock = c.clock + 1
               /\ DOMAIN d.map = DOMAIN c.map \cup touched
               /\ \A h \in touched : d.map[h].access = c.clock + 1
               /\ \A h \in DOMAIN c.map \ touched : d.map[h] = c.map[h]
  <1> DEFINE W == Walked(c, hashes, onlyPresent)
             touched == {hashes[i] : i \in W}
             map == TouchedMap(c, hashes, touched)
             d == Touch(c, hashes, onlyPresent)
  <1>1. d.map = map /\ d.clock = c.clock + 1
    BY CompactKeepsMap DEF Touch
  <1>2. W \in SUBSET (DOMAIN hashes) /\ IsFiniteSet(W)
    BY WalkedFacts
  <1>3. /\ DOMAIN map = DOMAIN c.map \cup touched
        /\ touched \subseteq Blocks
        /\ \A i \in W : map[hashes[i]].access = c.clock + 1
        /\ \A i \in W : map[hashes[i]].seq = c.seq + i
        /\ \A h \in DOMAIN c.map \ touched : map[h] = c.map[h]
        /\ map \in [DOMAIN map -> Stamp]
    BY <1>2, StampFacts
  <1> HIDE DEF d, map, W
  <1> QED BY <1>1, <1>3 DEF d, W

\* What eviction keeps was used no earlier than what it removes.
LEMMA EvictIsLru ==
    ASSUME NEW c, CacheInv(c), NEW budget \in Nat
    PROVE  LET keep == DOMAIN EvictTo(c, budget).map
           IN  /\ keep \subseteq DOMAIN c.map
               /\ \A h \in keep : EvictTo(c, budget).map[h] = c.map[h]
               /\ EvictTo(c, budget).clock = c.clock
               /\ \A h \in keep, g \in DOMAIN c.map \ keep :
                      c.map[g].access <= c.map[h].access
  <1> DEFINE P == Popped(c, budget)
             keep == {h \in DOMAIN c.map : CandidateOf(c.map, h) \notin P}
  <1>1. /\ DOMAIN EvictTo(c, budget).map = keep
        /\ \A h \in keep : EvictTo(c, budget).map[h] = c.map[h]
        /\ EvictTo(c, budget).clock = c.clock
    BY DEF EvictTo, Restrict
  <1>2. ASSUME NEW h \in keep, NEW g \in DOMAIN c.map \ keep
        PROVE  c.map[g].access <= c.map[h].access
    <2>1. CandidateOf(c.map, g) \in P /\ CandidateOf(c.map, h) \notin P
      OBVIOUS
    <2>2. ~PopsBefore(CandidateOf(c.map, h), CandidateOf(c.map, g))
      BY <2>1, CurrentEntries, PoppedIsInitial
    <2> QED BY <2>2, CurrentEntries DEF PopsBefore
  <1> QED BY <1>1, <1>2
-----------------------------------------------------------------------------
\* The size of the heap.  Compaction bounds it by the size of the map, and an
\* eviction that shrinks the map after a single insertion cannot leave much
\* more of it than that.

Larger(m, n) == IF m > n THEN m ELSE n

\* No more current entries than blocks.
LEMMA EntriesCount ==
    ASSUME NEW map, NEW S, IsFiniteSet(S)
    PROVE  LET H == {CandidateOf(map, h) : h \in S}
           IN  IsFiniteSet(H) /\ Cardinality(H) <= Cardinality(S)
  <1> DEFINE H == {CandidateOf(map, h) : h \in S}
             f == [h \in S |-> CandidateOf(map, h)]
  <1>1. f \in Surjection(S, H)
    BY DEF Surjection
  <1> QED BY <1>1, FS_Surjection

\* A prompt has as many blocks as positions.
LEMMA BlocksCount ==
    ASSUME NEW hashes \in Chains \cup {<<>>}
    PROVE  LET blocks == {hashes[i] : i \in DOMAIN hashes}
           IN  IsFiniteSet(blocks) /\ Cardinality(blocks) = Len(hashes)
  <1> DEFINE blocks == {hashes[i] : i \in DOMAIN hashes}
             f == [i \in DOMAIN hashes |-> hashes[i]]
  <1>1. f \in Surjection(DOMAIN hashes, blocks)
    BY DEF Surjection
  <1>2. \A i, j \in DOMAIN hashes : hashes[i] = hashes[j] => i = j
    BY PromptsAgree
  <1>3. f \in Injection(DOMAIN hashes, blocks)
    BY <1>2 DEF Injection, IsInjective
  <1>4. IsFiniteSet(DOMAIN hashes) /\ Cardinality(DOMAIN hashes) = Len(hashes)
    BY ChainFacts, FS_Interval, 1 \in Int
  <1> QED BY <1>1, <1>3, <1>4, FS_Surjection

\* compact_if_bloated leaves at most twice the blocks, or twice the floor.
LEMMA CompactBounds ==
    ASSUME NEW c, CacheInv(c)
    PROVE  Cardinality(CompactIfBloated(c).heap) <= 2 * Larger(NumBlocks(c), CompactFloor)
  <1> DEFINE H == {CandidateOf(c.map, h) : h \in DOMAIN c.map}
  <1>1. IsFiniteSet(DOMAIN c.map) /\ NumBlocks(c) \in Nat /\ CompactFloor \in Nat
    BY MapFinite, CompactFloorAssumption
  <1>2. IsFiniteSet(c.heap) /\ Cardinality(c.heap) \in Nat
    BY FS_CardinalityType DEF CacheInv, CacheTypeOK
  <1>3. IsFiniteSet(H) /\ Cardinality(H) <= NumBlocks(c) /\ Cardinality(H) \in Nat
    BY <1>1, EntriesCount, FS_CardinalityType DEF NumBlocks
  <1>4. CASE Cardinality(c.heap) > CompactThreshold(c)
    <2>1. CompactIfBloated(c) = [c EXCEPT !.heap = H]
      BY <1>4 DEF CompactIfBloated
    <2>2. CompactIfBloated(c).heap = H
      BY <2>1 DEF CacheInv, CacheTypeOK
    <2> HIDE DEF H
    <2> QED BY <1>1, <1>3, <2>2 DEF Larger
  <1>5. CASE ~(Cardinality(c.heap) > CompactThreshold(c))
    <2>1. CompactIfBloated(c) = c
      BY <1>5 DEF CompactIfBloated
    <2> QED BY <1>1, <1>2, <1>5, <2>1 DEF CompactThreshold, Larger
  <1> QED BY <1>4, <1>5

\* insert adds no more blocks than the prompt has, compacts the heap, and
\* leaves entries of its own tick for the blocks of the prompt only, all of
\* them current.
LEMMA InsertFacts ==
    ASSUME NEW c, CacheInv(c), NEW hashes \in Chains \cup {<<>>}
    PROVE  LET d == Insert(c, hashes)
               blocks == {hashes[i] : i \in DOMAIN hashes}
           IN  /\ CacheInv(d)
               /\ d.clock = c.clock + 1 /\ c.clock \in Nat
               /\ DOMAIN d.map = DOMAIN c.map \cup blocks
               /\ \A h \in blocks : d.map[h].access = d.clock
               /\ NumBlocks(d) <= NumBlocks(c) + Len(hashes)
               /\ Cardinality(d.heap) <= 2 * Larger(NumBlocks(d), CompactFloor)
               /\ \A e \in d.heap : e.access = d.clock => IsLive(d, e)
  <1> DEFINE d == Insert(c, hashes)
             blocks == {hashes[i] : i \in DOMAIN hashes}
             p == Pushed(c, hashes, FALSE)
             map == TouchedMap(c, hashes, blocks)
             pushed == {CandidateOf(map, h) : h \in blocks}
  <1>1. d = CompactIfBloated(p) /\ CacheInv(p) /\ CacheInv(d)
    BY PushPreserves, TouchPreserves DEF Insert, Touch, Pushed
  <1>2. p.map = map /\ p.heap = c.heap \cup pushed
    BY DEF Pushed, Walked
  <1>3. d.map = map
    BY <1>1, <1>2, CompactKeepsMap
  <1>4. blocks = {hashes[i] : i \in Walked(c, hashes, FALSE)}
    BY DEF Walked
  <1>5. /\ d.clock = c.clock + 1
        /\ DOMAIN d.map = DOMAIN c.map \cup blocks
        /\ \A h \in blocks : d.map[h].access = d.clock
    <2> HIDE DEF blocks, d
    <2>1. Touch(c, hashes, FALSE) = d
      BY DEF d, Insert
    <2> QED BY <1>4, <2>1, TouchOnTree
  <1>6. c.clock \in Nat /\ \A e \in c.heap : e.access \in Nat /\ e.access <= c.clock
    BY DEF CacheInv, CacheTypeOK, Candidate
  <1>7. NumBlocks(d) <= NumBlocks(c) + Len(hashes)
    <2>1. IsFiniteSet(DOMAIN c.map) /\ NumBlocks(c) \in Nat
      BY MapFinite
    <2>2. IsFiniteSet(blocks) /\ Cardinality(blocks) = Len(hashes)
      BY BlocksCount
    <2>3. IsFiniteSet(DOMAIN c.map \cap blocks) /\ Cardinality(DOMAIN c.map \cap blocks) \in Nat
      BY <2>1, FS_Subset, FS_CardinalityType
    <2>4. Cardinality(DOMAIN c.map \cup blocks)
            = Cardinality(DOMAIN c.map) + Cardinality(blocks) - Cardinality(DOMAIN c.map \cap blocks)
      BY <2>1, <2>2, FS_Union
    <2>5. Len(hashes) \in Nat
      BY ChainFacts
    <2> HIDE DEF d, blocks
    <2> QED BY <1>5, <2>1, <2>2, <2>3, <2>4, <2>5 DEF NumBlocks
  <1>8. Cardinality(d.heap) <= 2 * Larger(NumBlocks(d), CompactFloor)
    BY <1>1, <1>2, <1>3, CompactBounds DEF NumBlocks
  <1>9. ASSUME NEW e \in d.heap, e.access = d.clock PROVE IsLive(d, e)
    <2>1. CASE Cardinality(p.heap) > CompactThreshold(p)
      <3>1. d = [p EXCEPT !.heap = {CandidateOf(p.map, h) : h \in DOMAIN p.map}]
        BY <1>1, <2>1 DEF CompactIfBloated
      <3> HIDE DEF d, p
      <3>4. d.heap = {CandidateOf(p.map, h) : h \in DOMAIN p.map}
        BY <1>1, <3>1 DEF CacheInv, CacheTypeOK
      <3>5. p.map = d.map
        BY <1>2, <1>3
      <3> HIDE DEF map
      <3>2. d.heap = {CandidateOf(d.map, h) : h \in DOMAIN d.map}
        BY <3>4, <3>5
      <3>3. PICK h \in DOMAIN d.map : e = CandidateOf(d.map, h)
        BY <1>9, <3>2
      <3> QED BY <3>3 DEF IsLive, CandidateOf
    <2>2. CASE ~(Cardinality(p.heap) > CompactThreshold(p))
      <3>1. d.heap = c.heap \cup pushed
        BY <1>1, <1>2, <2>2 DEF CompactIfBloated
      <3> HIDE DEF d, pushed
      <3>5. e \notin c.heap
        BY <1>5, <1>6, <1>9
      <3>6. e \in pushed
        BY <3>1, <3>5
      <3>2. e \in {CandidateOf(map, h) : h \in blocks}
        BY <3>6 DEF pushed
      <3>3. PICK h \in blocks : e = CandidateOf(map, h)
        BY <3>2
      <3>4. e = CandidateOf(d.map, h) /\ h \in DOMAIN d.map
        BY <1>3, <1>5, <3>3
      <3> QED BY <3>4 DEF IsLive, CandidateOf
    <2> QED BY <2>1, <2>2
  <1> QED BY <1>1, <1>5, <1>6, <1>7, <1>8, <1>9

\* A prompt longer than the budget pushes everything older out of the heap.
LEMMA LongPromptFlushes ==
    ASSUME NEW c, CacheInv(c), NEW hashes \in Chains \cup {<<>>}, NEW budget \in Nat,
           budget < Len(hashes)
    PROVE  LET d == EvictTo(Insert(c, hashes), budget)
           IN  d.heap \subseteq {CandidateOf(d.map, h) : h \in DOMAIN d.map}
  <1> DEFINE f == Insert(c, hashes)
             d == EvictTo(f, budget)
             blocks == {hashes[i] : i \in DOMAIN hashes}
  <1>1. /\ CacheInv(f) /\ f.clock \in Nat
        /\ DOMAIN f.map = DOMAIN c.map \cup blocks
        /\ \A h \in blocks : f.map[h].access = f.clock
        /\ \A e \in f.heap : e.access = f.clock => IsLive(f, e)
    BY InsertFacts DEF CacheInv, CacheTypeOK
  <1> HIDE DEF f
  <1>2. /\ d.heap = f.heap \ Popped(f, budget)
        /\ DOMAIN d.map = {h \in DOMAIN f.map : CandidateOf(f.map, h) \notin Popped(f, budget)}
        /\ \A h \in DOMAIN d.map : d.map[h] = f.map[h]
    BY DEF EvictTo, Restrict
  <1>3. /\ f.heap \subseteq Candidate /\ IsFiniteSet(f.heap)
        /\ \A e \in f.heap : e.access <= f.clock /\ e.access \in Nat
    BY <1>1 DEF CacheInv, CacheTypeOK, Candidate
  <1>4. ASSUME NEW e \in d.heap PROVE e.access = f.clock
    <2> DEFINE Before == {g \in f.heap : IsLive(f, g) /\ PopsBefore(g, e)}
               old == DOMAIN f.map \ blocks
               entry == {CandidateOf(f.map, h) : h \in old}
    <2> SUFFICES ASSUME e.access < f.clock PROVE FALSE
      BY <1>1, <1>2, <1>3
    <2>1. ~(Cardinality(Before) < NumBlocks(f) - budget)
      BY <1>2 DEF Popped
    <2>2. Before \subseteq entry
      <3> SUFFICES ASSUME NEW g \in Before PROVE g \in entry
        OBVIOUS
      <3>1. g.hash \in DOMAIN f.map /\ g = CandidateOf(f.map, g.hash)
        BY DEF IsLive
      <3>2. g.access < f.clock
        BY <1>1, <1>2, <1>3 DEF PopsBefore
      <3>3. g.access = f.map[g.hash].access
        BY <3>1 DEF CandidateOf
      <3> QED BY <1>1, <3>1, <3>2, <3>3
    <2>3. /\ IsFiniteSet(DOMAIN f.map) /\ NumBlocks(f) \in Nat
          /\ Cardinality(DOMAIN f.map) = NumBlocks(f)
      BY <1>1, MapFinite DEF NumBlocks
    <2>4. IsFiniteSet(blocks) /\ Cardinality(blocks) = Len(hashes) /\ Len(hashes) \in Nat
      BY BlocksCount, ChainFacts
    <2>5. IsFiniteSet(old) /\ Cardinality(old) = NumBlocks(f) - Len(hashes)
      <3>1. IsFiniteSet(old) /\ Cardinality(old) \in Nat
        BY <2>3, FS_Subset, FS_CardinalityType
      <3>2. old \cup blocks = DOMAIN f.map /\ old \cap blocks = {}
        BY <1>1
      <3>3. Cardinality(old \cup blocks)
              = Cardinality(old) + Cardinality(blocks) - Cardinality(old \cap blocks)
        BY <2>4, <3>1, FS_Union
      <3>4. Cardinality(old \cap blocks) = 0
        BY <3>2, FS_EmptySet
      <3> HIDE DEF old, blocks
      <3>5. Cardinality(DOMAIN f.map)
              = Cardinality(old) + Cardinality(blocks) - Cardinality(old \cap blocks)
        BY <3>2, <3>3
      <3> QED BY <2>3, <2>4, <3>1, <3>4, <3>5
    <2>6. IsFiniteSet(entry) /\ Cardinality(entry) <= Cardinality(old)
      BY <2>5, EntriesCount
    <2>7. Cardinality(Before) <= Cardinality(entry)
      BY <2>2, <2>6, FS_Subset
    <2>8. Cardinality(Before) \in Nat /\ Cardinality(entry) \in Nat
      BY <2>2, <2>6, FS_Subset, FS_CardinalityType
    <2> HIDE DEF Before, entry, old
    <2> QED BY <2>1, <2>3, <2>4, <2>5, <2>6, <2>7, <2>8
  <1>5. ASSUME NEW e \in d.heap PROVE \E h \in DOMAIN d.map : e = CandidateOf(d.map, h)
    <2>1. e.hash \in DOMAIN f.map /\ e = CandidateOf(f.map, e.hash)
      BY <1>1, <1>2, <1>4 DEF IsLive
    <2>2. e.hash \in DOMAIN d.map
      BY <1>2, <2>1
    <2>3. CandidateOf(d.map, e.hash) = CandidateOf(f.map, e.hash)
      BY <1>2, <2>2 DEF CandidateOf
    <2> QED BY <2>1, <2>2, <2>3
  <1> QED BY <1>5 DEF f

\* What pick does to the picture of the replica it chooses.
LEMMA InsertEvictBounds ==
    ASSUME NEW c, CacheInv(c), NEW hashes \in Chains \cup {<<>>}, NEW budget \in Nat,
           NumBlocks(c) <= budget
    PROVE  LET d == EvictTo(Insert(c, hashes), budget)
           IN  /\ CacheInv(d)
               /\ NumBlocks(d) <= budget
               /\ Cardinality(d.heap) <=
                      (IF NumBlocks(d) < budget THEN 2 ELSE 4) * Larger(NumBlocks(d), CompactFloor)
  <1> DEFINE f == Insert(c, hashes)
             d == EvictTo(f, budget)
  <1>1. /\ CacheInv(f)
        /\ NumBlocks(f) <= NumBlocks(c) + Len(hashes)
        /\ Cardinality(f.heap) <= 2 * Larger(NumBlocks(f), CompactFloor)
    BY InsertFacts
  <1>2. CacheInv(d)
    BY <1>1, EvictPreserves
  <1>3. NumBlocks(d) = (IF NumBlocks(f) > budget THEN budget ELSE NumBlocks(f))
    BY <1>1, EvictKeeps
  <1>4. /\ NumBlocks(c) \in Nat /\ NumBlocks(f) \in Nat /\ NumBlocks(d) \in Nat
        /\ IsFiniteSet(DOMAIN d.map) /\ CompactFloor \in Nat
        /\ Len(hashes) \in Nat
    BY <1>1, <1>2, MapFinite, CompactFloorAssumption, ChainFacts
  <1>5. IsFiniteSet(f.heap) /\ Cardinality(f.heap) \in Nat
    BY <1>1, FS_CardinalityType DEF CacheInv, CacheTypeOK
  <1>6. d.heap \subseteq f.heap
    BY DEF EvictTo
  <1>7. IsFiniteSet(d.heap) /\ Cardinality(d.heap) <= Cardinality(f.heap)
    BY <1>5, <1>6, FS_Subset
  <1>8. Cardinality(d.heap) \in Nat
    BY <1>7, FS_CardinalityType
  <1> DEFINE bound == 2 * Larger(NumBlocks(d), CompactFloor)
  <1>9. /\ Cardinality(d.heap) <= 2 * bound
        /\ NumBlocks(d) < budget => Cardinality(d.heap) <= bound
    <2>1. CASE Len(hashes) <= budget
      <3> HIDE DEF d, f
      <3> QED BY <1>1, <1>3, <1>4, <1>5, <1>7, <1>8, <2>1 DEF Larger
    <2>2. CASE budget < Len(hashes)
      <3> DEFINE H == {CandidateOf(d.map, h) : h \in DOMAIN d.map}
      <3>1. d.heap \subseteq H
        BY <2>2, LongPromptFlushes
      <3>2. IsFiniteSet(H) /\ Cardinality(H) <= NumBlocks(d)
        BY <1>4, EntriesCount DEF NumBlocks
      <3>3. Cardinality(H) \in Nat /\ Cardinality(d.heap) <= Cardinality(H)
        BY <3>1, <3>2, FS_CardinalityType, FS_Subset
      <3> HIDE DEF d, f, H
      <3> QED BY <1>4, <1>8, <3>2, <3>3 DEF Larger
    <2> QED BY <1>4, <2>1, <2>2
  <1>10. Cardinality(d.heap) <=
            (IF NumBlocks(d) < budget THEN 2 ELSE 4) * Larger(NumBlocks(d), CompactFloor)
    <2>1. Larger(NumBlocks(d), CompactFloor) \in Nat
      BY <1>4 DEF Larger
    <2> HIDE DEF d
    <2> QED BY <1>9, <2>1
  <1>11. NumBlocks(d) <= budget
    BY <1>3, <1>4
  <1> QED BY <1>2, <1>10, <1>11
=============================================================================
