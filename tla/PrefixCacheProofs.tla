-------------------------- MODULE PrefixCacheProofs --------------------------
(***************************************************************************)
(* CacheInv holds of every cache the methods of prefix_cache.rs can build, *)
(* for every set of prompts, every compaction floor and every budget; such *)
(* a cache is a radix tree with leaf-first LRU eviction; and the loops of  *)
(* touch and evict_to leave what Touch and EvictTo say.                    *)
(***************************************************************************)
EXTENDS PrefixCacheLoops, PrefixCacheLemmas

\* The invariant holds in every reachable state of the cache's interface:
\* insert, match_prefix and evict_to (prefix_cache.rs:77-152) called in any
\* order.
THEOREM InvHolds == Spec => []Inv
  <1>1. Init => Inv
    BY NewCacheInv DEF Init, Inv
  <1>2. Inv /\ [Next]_cache => Inv'
    <2> SUFFICES ASSUME Inv, [Next]_cache PROVE Inv'
      OBVIOUS
    <2>1. ASSUME NEW hashes \in Chains, InsertChain(hashes) PROVE Inv'
      BY <2>1, TouchPreserves DEF InsertChain, Insert, Inv
    <2>2. ASSUME NEW hashes \in Chains, MatchChain(hashes) PROVE Inv'
      BY <2>2, TouchPreserves DEF MatchChain, MatchPrefix, Inv
    <2>3. ASSUME NEW budget \in Budgets, Evict(budget) PROVE Inv'
      BY <2>3, EvictPreserves, BoundsAssumption DEF Evict, Inv
    <2>4. CASE UNCHANGED cache
      BY <2>4 DEF Inv
    <2> QED BY <2>1, <2>2, <2>3, <2>4 DEF Next
  <1> QED BY <1>1, <1>2, PTL DEF Spec

\* The struct keeps its types: in particular no stamp is ever ahead of the
\* clock or of the sequence counter (prefix_cache.rs:38-50, 77-93).
THEOREM TypeCorrect == Spec => []TypeOK
  <1>1. Inv => TypeOK
    BY DEF Inv, CacheInv, TypeOK
  <1> QED BY <1>1, InvHolds, PTL

\* No block is ever cached without the blocks before it (prefix_cache.rs:3-17,
\* 214-219).
THEOREM NoOrphansEver == Spec => []NoOrphans
  <1>1. Inv => NoOrphans
    BY DEF Inv, CacheInv, NoOrphans
  <1> QED BY <1>1, InvHolds, PTL

\* Eviction meets its budget exactly, whatever stale entries the heap holds
\* (prefix_cache.rs:141-152).
THEOREM EvictionIsExact == Spec => []EvictionExact
  <1>1. Inv => EvictionExact
    BY EvictKeeps, BoundsAssumption DEF Inv, EvictionExact
  <1> QED BY <1>1, InvHolds, PTL
-----------------------------------------------------------------------------
\* The flat map with its lazily cleaned heap implements the radix tree with
\* leaf-first LRU eviction (prefix_cache.rs:3-17): each call is a step of the
\* tree, under the mapping that forgets seq and the heap.
THEOREM RefinesRadixLru == Spec => ImplementsRadixLru
  <1> DEFINE access == [h \in DOMAIN cache.map |-> cache.map[h].access]
  <1>1. Init => Radix!Init
    <2> SUFFICES ASSUME Init PROVE Radix!Init
      OBVIOUS
    <2>1. DOMAIN cache.map = {} /\ cache.clock = 0
      BY DEF Init, NewCache
    <2> QED BY <2>1 DEF Radix!Init
  <1>2. ASSUME NEW N,
               DOMAIN cache'.map = DOMAIN cache.map \cup N,
               \A h \in N : cache'.map[h].access = cache.clock + 1,
               \A h \in DOMAIN cache.map \ N : cache'.map[h] = cache.map[h]
        PROVE  access' = [h \in DOMAIN access \cup N |->
                             IF h \in N THEN cache.clock + 1 ELSE access[h]]
    <2>1. DOMAIN access = DOMAIN cache.map
      OBVIOUS
    <2> QED BY <1>2, <2>1
  <1>3. ASSUME Inv, NEW hashes \in Chains, InsertChain(hashes)
        PROVE  Radix!InsertChain(hashes)
    <2> DEFINE N == {hashes[i] : i \in DOMAIN hashes}
    <2>1. N = {hashes[i] : i \in Walked(cache, hashes, FALSE)}
      BY DEF Walked
    <2>2. cache.clock < MaxClock /\ cache' = Touch(cache, hashes, FALSE)
      BY <1>3 DEF InsertChain, Insert
    <2> HIDE DEF N
    <2>3. /\ cache'.clock = cache.clock + 1
          /\ DOMAIN cache'.map = DOMAIN cache.map \cup N
          /\ \A h \in N : cache'.map[h].access = cache.clock + 1
          /\ \A h \in DOMAIN cache.map \ N : cache'.map[h] = cache.map[h]
      <3>1. hashes \in Chains \cup {<<>>}
        OBVIOUS
      <3> QED BY <1>3, <2>1, <2>2, <3>1, TouchOnTree DEF Inv
    <2>4. access' = [h \in DOMAIN access \cup N |->
                        IF h \in N THEN cache.clock + 1 ELSE access[h]]
      BY <1>2, <2>3
    <2> QED BY <2>2, <2>3, <2>4 DEF Radix!InsertChain, Radix!Stamped, Radix!nodes, N
  <1>4. ASSUME Inv, NEW hashes \in Chains, MatchChain(hashes)
        PROVE  Radix!MatchChain(hashes)
    <2> DEFINE N == Radix!Path(hashes)
    <2>1. N = {hashes[i] : i \in Walked(cache, hashes, TRUE)}
      BY DEF Walked, Leading, Radix!Path, Radix!nodes
    <2>2. cache.clock < MaxClock /\ cache' = Touch(cache, hashes, TRUE)
      BY <1>4 DEF MatchChain, MatchPrefix
    <2> HIDE DEF N
    <2>3. /\ cache'.clock = cache.clock + 1
          /\ DOMAIN cache'.map = DOMAIN cache.map \cup N
          /\ \A h \in N : cache'.map[h].access = cache.clock + 1
          /\ \A h \in DOMAIN cache.map \ N : cache'.map[h] = cache.map[h]
      <3>1. hashes \in Chains \cup {<<>>}
        OBVIOUS
      <3> QED BY <1>4, <2>1, <2>2, <3>1, TouchOnTree DEF Inv
    <2>4. access' = [h \in DOMAIN access \cup N |->
                        IF h \in N THEN cache.clock + 1 ELSE access[h]]
      BY <1>2, <2>3
    <2> QED BY <2>2, <2>3, <2>4 DEF Radix!MatchChain, Radix!Stamped, Radix!nodes, N
  <1>5. ASSUME Inv, NEW budget \in Budgets, Evict(budget)
        PROVE  Radix!Evict(budget)
    <2> DEFINE keep == DOMAIN cache'.map
    <2>1. budget \in Nat
      BY BoundsAssumption
    <2>2. /\ keep \subseteq DOMAIN cache.map
          /\ \A h \in keep : cache'.map[h] = cache.map[h]
          /\ cache'.clock = cache.clock
          /\ \A h \in keep, g \in DOMAIN cache.map \ keep :
                 cache.map[g].access <= cache.map[h].access
      BY <1>5, <2>1, EvictIsLru DEF Evict, Inv
    <2>3. Cardinality(keep) = (IF Cardinality(DOMAIN cache.map) > budget
                               THEN budget ELSE Cardinality(DOMAIN cache.map))
      BY <1>5, <2>1, EvictKeeps DEF Evict, Inv, NumBlocks
    <2>4. Radix!IsTree(keep)
      BY <1>5, <2>1, EvictPreserves DEF Evict, Inv, CacheInv, PrefixClosed, Radix!IsTree
    <2>5. DOMAIN access = DOMAIN cache.map /\ \A h \in DOMAIN cache.map : access[h] = cache.map[h].access
      OBVIOUS
    <2>6. access' = [h \in keep |-> access[h]]
      BY <2>2, <2>5
    <2>7. \A h \in keep, g \in DOMAIN access \ keep : access[g] <= access[h]
      BY <2>2, <2>5
    <2>8. keep \in SUBSET DOMAIN access
      BY <2>2, <2>5
    <2>9. Cardinality(keep) = (IF Cardinality(DOMAIN access) > budget
                               THEN budget ELSE Cardinality(DOMAIN access))
      BY <2>3, <2>5
    <2>10. \E k \in SUBSET DOMAIN access :
              /\ Cardinality(k) = (IF Cardinality(DOMAIN access) > budget
                                   THEN budget ELSE Cardinality(DOMAIN access))
              /\ Radix!IsTree(k)
              /\ \A h \in k, g \in DOMAIN access \ k : access[g] <= access[h]
              /\ access' = [h \in k |-> access[h]]
              /\ cache'.clock = cache.clock
      <3> HIDE DEF keep, access
      <3> WITNESS keep \in SUBSET DOMAIN access
      <3> QED BY <2>2, <2>4, <2>6, <2>7, <2>9
    <2>11. \A S : Radix!Cardinality(S) = Cardinality(S)
      BY DEF Cardinality, Radix!Cardinality
    <2> QED BY <2>10, <2>11 DEF Radix!Evict, Radix!nodes
  <1>6. Inv /\ [Next]_cache => [Radix!Next]_(Radix!vars)
    <2> SUFFICES ASSUME Inv, [Next]_cache PROVE [Radix!Next]_(Radix!vars)
      OBVIOUS
    <2>1. CASE Next
      BY <1>3, <1>4, <1>5, <2>1 DEF Next, Radix!Next
    <2>2. CASE UNCHANGED cache
      BY <2>2 DEF Radix!vars
    <2> QED BY <2>1, <2>2
  <1> QED BY <1>1, <1>6, InvHolds, PTL DEF Spec, ImplementsRadixLru, Radix!Spec
-----------------------------------------------------------------------------
\* The loops.

\* A touch walks an initial segment: the whole prompt, or the leading blocks
\* that are present.
LEMMA WalkedIsSegment ==
    ASSUME NEW c, NEW hashes \in Chains \cup {<<>>}, NEW onlyPresent \in BOOLEAN
    PROVE  \E w \in 0..Len(hashes) :
              /\ Walked(c, hashes, onlyPresent) = 1..w /\ Cardinality(1..w) = w
              /\ \A k \in 1..Len(hashes) :
                    k <= w + 1 =>
                        (k > w <=> onlyPresent /\ hashes[k] \notin DOMAIN c.map)
  <1> DEFINE W == Walked(c, hashes, onlyPresent)
             w == Cardinality(W)
  <1>1. /\ W \in SUBSET (DOMAIN hashes) /\ IsFiniteSet(W)
        /\ \A i \in W : \A j \in 1..i : j \in W
    BY WalkedFacts
  <1>2. w \in Nat /\ \A i \in W : i <= w
    BY <1>1, WalkedCount
  <1>3. DOMAIN hashes = 1..Len(hashes) /\ Len(hashes) \in Nat
    BY ChainFacts
  <1> HIDE DEF W
  <1>4. IsFiniteSet(1..w) /\ Cardinality(1..w) = w
    BY <1>2, FS_Interval, 1 \in Int, w \in Int
  <1>5. W = 1..w
    <2>1. W \in SUBSET (1..w)
      BY <1>1, <1>2, <1>3
    <2> QED BY <1>4, <2>1, FS_Subset
  <1>6. w \in 0..Len(hashes)
    <2>1. CASE w = 0
      BY <1>3, <2>1
    <2>2. CASE w # 0
      BY <1>1, <1>2, <1>3, <1>5, <2>2
    <2> QED BY <2>1, <2>2
  <1>7. ASSUME NEW k \in 1..Len(hashes), k <= w + 1
        PROVE  k > w <=> onlyPresent /\ hashes[k] \notin DOMAIN c.map
    <2>1. k > w <=> k \notin W
      BY <1>2, <1>3, <1>5, <1>7
    <2>2. CASE onlyPresent
      <3>1. W = {i \in DOMAIN hashes : \A j \in 1..i : hashes[j] \in DOMAIN c.map}
        BY <2>2 DEF W, Walked, Leading
      <3>2. \A j \in 1..(k - 1) : j \in W
        BY <1>2, <1>3, <1>5, <1>7
      <3>3. \A j \in 1..(k - 1) : hashes[j] \in DOMAIN c.map
        <4> SUFFICES ASSUME NEW j \in 1..(k - 1) PROVE hashes[j] \in DOMAIN c.map
          OBVIOUS
        <4>1. j \in W /\ j \in 1..j
          BY <1>3, <3>2
        <4> QED BY <3>1, <4>1
      <3>4. hashes[k] \in DOMAIN c.map => k \in W
        <4>1. \A j \in 1..k : j = k \/ j \in 1..(k - 1)
          BY <1>3
        <4> QED BY <1>3, <3>1, <3>3, <4>1
      <3>5. k \in W => hashes[k] \in DOMAIN c.map
        <4>1. k \in 1..k
          BY <1>3
        <4> QED BY <3>1, <4>1
      <3> QED BY <2>1, <2>2, <3>4, <3>5
    <2>3. CASE ~onlyPresent
      BY <1>3, <2>1, <2>3 DEF W, Walked
    <2> QED BY <2>2, <2>3
  <1>8. Walked(c, hashes, onlyPresent) = 1..w /\ Cardinality(1..w) = w
    BY <1>4, <1>5 DEF W
  <1> HIDE DEF w
  <1> QED BY <1>6, <1>7, <1>8

\* The cache after the first j blocks of a prompt.
TouchedUpto(c, hashes, j) ==
    LET touched == {hashes[i] : i \in 1..j}
        map == TouchedMap(c, hashes, touched)
    IN  [map |-> map,
         heap |-> c.heap \cup {CandidateOf(map, h) : h \in touched},
         clock |-> c.clock + 1,
         seq |-> c.seq + j]

\* One block more is one turn of the loop more.
LEMMA TouchedUptoNext ==
    ASSUME NEW c, CacheInv(c), NEW hashes \in Chains \cup {<<>>}, NEW k \in 1..Len(hashes)
    PROVE  LET d == TouchedUpto(c, hashes, k - 1)
           IN  /\ TouchedUpto(c, hashes, k) = TouchBlock(d, hashes[k])
               /\ hashes[k] \in DOMAIN d.map <=> hashes[k] \in DOMAIN c.map
  <1> DEFINE h == hashes[k]
             old == {hashes[i] : i \in 1..(k - 1)}
             new == {hashes[i] : i \in 1..k}
             oldMap == TouchedMap(c, hashes, old)
             newMap == TouchedMap(c, hashes, new)
             d == TouchedUpto(c, hashes, k - 1)
  <1>1. DOMAIN hashes = 1..Len(hashes) /\ Len(hashes) \in Nat /\ c.seq \in Nat /\ c.clock \in Nat
    BY ChainFacts DEF CacheInv, CacheTypeOK
  <1>2. k \in DOMAIN hashes /\ k \in Nat
    BY <1>1
  <1>3. new = old \cup {h}
    BY <1>1
  <1>4. h \notin old
    <2> SUFFICES ASSUME NEW i \in 1..(k - 1), hashes[i] = h PROVE FALSE
      OBVIOUS
    <2>1. i \in DOMAIN hashes
      BY <1>1
    <2>2. i = k
      BY <1>2, <2>1, PromptsAgree
    <2> QED BY <1>1, <2>2
  <1>5. NewStamp(c, hashes, h) = [access |-> c.clock + 1, seq |-> c.seq + k]
    BY <1>2, PositionUnique DEF NewStamp
  <1>6. d.map = oldMap /\ d.clock = c.clock + 1 /\ d.seq = c.seq + (k - 1)
        /\ d.heap = c.heap \cup {CandidateOf(oldMap, g) : g \in old}
    BY DEF TouchedUpto
  <1>7. d.seq + 1 = c.seq + k
    BY <1>1, <1>2, <1>6
  <1> HIDE DEF old, new, d, h
  <1>8. DOMAIN oldMap = DOMAIN c.map \cup old /\ DOMAIN newMap = DOMAIN c.map \cup new
    BY DEF TouchedMap
  <1>9. newMap = [g \in DOMAIN oldMap \cup {h} |->
                     IF g = h THEN [access |-> d.clock, seq |-> d.seq + 1] ELSE oldMap[g]]
    <2>1. \A g \in DOMAIN newMap :
             newMap[g] = IF g = h THEN [access |-> d.clock, seq |-> d.seq + 1] ELSE oldMap[g]
      BY <1>3, <1>4, <1>5, <1>6, <1>7, <1>8 DEF TouchedMap
    <2>2. DOMAIN newMap = DOMAIN oldMap \cup {h}
      BY <1>3, <1>8
    <2>3. newMap = [g \in DOMAIN newMap |-> newMap[g]]
      BY DEF TouchedMap
    <2> HIDE DEF newMap, oldMap
    <2> QED BY <2>1, <2>2, <2>3
  <1>10. \A g \in old : CandidateOf(newMap, g) = CandidateOf(oldMap, g)
    BY <1>3, <1>4, <1>8, <1>9 DEF CandidateOf
  <1>11. CandidateOf(newMap, h) = [access |-> d.clock, seq |-> d.seq + 1, hash |-> h]
    BY <1>8, <1>9 DEF CandidateOf
  <1>12. {CandidateOf(newMap, g) : g \in new}
            = {CandidateOf(oldMap, g) : g \in old}
              \cup {[access |-> d.clock, seq |-> d.seq + 1, hash |-> h]}
    <2> HIDE DEF newMap, oldMap
    <2> QED BY <1>3, <1>10, <1>11
  <1>13. TouchedUpto(c, hashes, k) = [map |-> newMap,
              heap |-> c.heap \cup {CandidateOf(newMap, g) : g \in new},
              clock |-> c.clock + 1, seq |-> c.seq + k]
    BY DEF TouchedUpto, new
  <1>14. TouchBlock(d, h) =
           [map |-> [g \in DOMAIN oldMap \cup {h} |->
                     IF g = h THEN [access |-> d.clock, seq |-> d.seq + 1] ELSE oldMap[g]],
            heap |-> d.heap \cup {[access |-> d.clock, seq |-> d.seq + 1, hash |-> h]},
            clock |-> d.clock, seq |-> d.seq + 1]
    BY <1>6 DEF TouchBlock
  <1>15. h \in DOMAIN d.map <=> h \in DOMAIN c.map
    BY <1>4, <1>6, <1>8
  <1>16. c.heap \cup {CandidateOf(newMap, g) : g \in new}
           = d.heap \cup {[access |-> d.clock, seq |-> d.seq + 1, hash |-> h]}
    BY <1>6, <1>12
  <1>17. TouchedUpto(c, hashes, k) = TouchBlock(d, h)
    <2> HIDE DEF newMap, oldMap
    <2> QED BY <1>6, <1>7, <1>9, <1>13, <1>14, <1>16
  <1> QED BY <1>15, <1>17 DEF d, h

WalkEquation(c, hashes, onlyPresent, Walk) ==
    Walk = [k \in 0..Len(hashes) |->
              IF k = 0 THEN [cache |-> [c EXCEPT !.clock = @ + 1], broken |-> FALSE]
              ELSE TouchTurn(Walk[k - 1], hashes[k], onlyPresent)]

WalkFcn(c, hashes, onlyPresent) == CHOOSE Walk : WalkEquation(c, hashes, onlyPresent, Walk)

LEMMA TouchLoopIsFcn ==
    ASSUME NEW c, NEW hashes, NEW onlyPresent
    PROVE  TouchLoop(c, hashes, onlyPresent)
             = CompactIfBloated(WalkFcn(c, hashes, onlyPresent)[Len(hashes)].cache)
  BY DEF TouchLoop, WalkFcn, WalkEquation

\* The loop of touch leaves what Touch says.
LEMMA TouchIsItsLoop ==
    ASSUME NEW c, CacheInv(c), NEW hashes \in Chains \cup {<<>>}, NEW onlyPresent \in BOOLEAN
    PROVE  TouchLoop(c, hashes, onlyPresent) = Touch(c, hashes, onlyPresent)
  <1>1. PICK n \in Nat : n = Len(hashes)
    BY ChainFacts
  <1>2. PICK w \in 0..n :
            /\ Walked(c, hashes, onlyPresent) = 1..w /\ Cardinality(1..w) = w
            /\ \A k \in 1..n : k <= w + 1 => (k > w <=> onlyPresent /\ hashes[k] \notin DOMAIN c.map)
    BY <1>1, WalkedIsSegment
  <1> DEFINE After(k) == IF k <= w THEN [cache |-> TouchedUpto(c, hashes, k), broken |-> FALSE]
                         ELSE [cache |-> TouchedUpto(c, hashes, w), broken |-> TRUE]
             Walk == WalkFcn(c, hashes, onlyPresent)
             start == [cache |-> [c EXCEPT !.clock = @ + 1], broken |-> FALSE]
  <1>3. After(0) = start
    <2>1. /\ c = [map |-> c.map, heap |-> c.heap, clock |-> c.clock, seq |-> c.seq]
          /\ c.map \in [DOMAIN c.map -> Stamp] /\ c.seq \in Nat
      BY DEF CacheInv, CacheTypeOK
    <2>2. {hashes[i] : i \in 1..0} = {}
      OBVIOUS
    <2>3. TouchedMap(c, hashes, {}) = c.map
      BY <2>1 DEF TouchedMap
    <2>4. TouchedUpto(c, hashes, 0) = [map |-> c.map, heap |-> c.heap, clock |-> c.clock + 1, seq |-> c.seq + 0]
      BY <2>2, <2>3 DEF TouchedUpto
    <2>5. [c EXCEPT !.clock = @ + 1] = [map |-> c.map, heap |-> c.heap, clock |-> c.clock + 1, seq |-> c.seq]
      BY <2>1
    <2>6. c.seq + 0 = c.seq
      BY <2>1
    <2>7. After(0) = [cache |-> TouchedUpto(c, hashes, 0), broken |-> FALSE]
      BY <1>2
    <2> HIDE DEF After
    <2> QED BY <2>4, <2>5, <2>6, <2>7
  <1>4. ASSUME NEW k \in 1..n PROVE After(k) = TouchTurn(After(k - 1), hashes[k], onlyPresent)
    <2>1. /\ TouchedUpto(c, hashes, k) = TouchBlock(TouchedUpto(c, hashes, k - 1), hashes[k])
          /\ hashes[k] \in DOMAIN TouchedUpto(c, hashes, k - 1).map <=> hashes[k] \in DOMAIN c.map
      BY <1>1, TouchedUptoNext
    <2>2. CASE k <= w
      <3>1. ~(onlyPresent /\ hashes[k] \notin DOMAIN c.map)
        BY <1>2, <2>2
      <3>2. After(k - 1) = [cache |-> TouchedUpto(c, hashes, k - 1), broken |-> FALSE]
        BY <1>2, <2>2
      <3>3. After(k) = [cache |-> TouchedUpto(c, hashes, k), broken |-> FALSE]
        BY <2>2
      <3> QED BY <2>1, <3>1, <3>2, <3>3 DEF TouchTurn
    <2>3. CASE k = w + 1
      <3>1. onlyPresent /\ hashes[k] \notin DOMAIN c.map
        BY <1>2, <2>3
      <3>2. k - 1 = w
        BY <1>2, <2>3
      <3>3. After(k - 1) = [cache |-> TouchedUpto(c, hashes, w), broken |-> FALSE]
        BY <1>2, <3>2
      <3>4. After(k) = [cache |-> TouchedUpto(c, hashes, w), broken |-> TRUE]
        BY <1>2, <2>3
      <3> QED BY <2>1, <3>1, <3>2, <3>3, <3>4 DEF TouchTurn
    <2>4. CASE k > w + 1
      <3>1. ~(k <= w) /\ ~(k - 1 <= w)
        BY <1>2, <2>4
      <3>2. /\ After(k - 1) = [cache |-> TouchedUpto(c, hashes, w), broken |-> TRUE]
            /\ After(k) = [cache |-> TouchedUpto(c, hashes, w), broken |-> TRUE]
        BY <3>1
      <3>3. \A d, h : TouchTurn([cache |-> d, broken |-> TRUE], h, onlyPresent)
                         = [cache |-> d, broken |-> TRUE]
        BY DEF TouchTurn
      <3> HIDE DEF After
      <3> QED BY <3>2, <3>3
    <2> QED BY <1>2, <2>2, <2>3, <2>4
  <1> HIDE DEF start
  <1>5. WalkEquation(c, hashes, onlyPresent, Walk)
    <2> DEFINE after == [k \in 0..n |-> After(k)]
    <2> HIDE DEF After
    <2>1. \A k \in 0..n : after[k] = IF k = 0 THEN start ELSE TouchTurn(after[k - 1], hashes[k], onlyPresent)
      <3> SUFFICES ASSUME NEW k \in 0..n
                   PROVE  after[k] = IF k = 0 THEN start
                                     ELSE TouchTurn(after[k - 1], hashes[k], onlyPresent)
        OBVIOUS
      <3>1. CASE k = 0
        BY <1>3, <3>1
      <3>2. CASE k # 0
        <4>1. k \in 1..n /\ k - 1 \in 0..n
          BY <3>2
        <4>2. after[k - 1] = After(k - 1) /\ after[k] = After(k)
          BY <4>1
        <4> HIDE DEF after
        <4> QED BY <1>4, <3>2, <4>1, <4>2
      <3> QED BY <3>1, <3>2
    <2>2. after = [k \in 0..n |-> IF k = 0 THEN start ELSE TouchTurn(after[k - 1], hashes[k], onlyPresent)]
      <3>1. after = [k \in 0..n |-> after[k]]
        OBVIOUS
      <3> HIDE DEF after
      <3> QED BY <2>1, <3>1
    <2> HIDE DEF after
    <2>3. WalkEquation(c, hashes, onlyPresent, after)
      BY <1>1, <2>2 DEF WalkEquation, start
    <2> QED BY <2>3 DEF WalkFcn
  <1> HIDE DEF Walk, After
  <1>6. Walk[0] = start /\ \A k \in 1..n : Walk[k] = TouchTurn(Walk[k - 1], hashes[k], onlyPresent)
    BY <1>1, <1>5 DEF WalkEquation, start
  <1> DEFINE Bad == {k \in 0..n : Walk[k] # After(k)}
  <1>7. Bad = {}
    <2> SUFFICES ASSUME Bad # {} PROVE FALSE
      OBVIOUS
    <2>1. PICK k \in Bad : \A j \in Bad : k <= j
      <3>1. Bad \in SUBSET Nat
        OBVIOUS
      <3> HIDE DEF Bad
      <3> QED BY <3>1, LeastNat
    <2>2. k \in 0..n /\ Walk[k] # After(k)
      BY <2>1
    <2>3. k # 0
      BY <1>3, <1>6, <2>2
    <2>4. k \in 1..n /\ k - 1 \in 0..n /\ k - 1 \notin Bad
      <3> HIDE DEF Bad
      <3> QED BY <2>1, <2>2, <2>3
    <2> QED BY <1>4, <1>6, <2>2, <2>4
  <1>8. Walk[n].cache = TouchedUpto(c, hashes, w)
    <2>1. Walk[n] = After(n)
      BY <1>7
    <2> QED BY <1>2, <2>1 DEF After
  <1>9. Touch(c, hashes, onlyPresent) = CompactIfBloated(TouchedUpto(c, hashes, w))
    BY <1>2 DEF Touch, TouchedUpto
  <1> QED BY <1>1, <1>8, <1>9, TouchLoopIsFcn DEF Walk

\* No two entries of the heap share a seq.
HeapSeqsDistinct(c) == \A e, f \in c.heap : e.seq = f.seq => e = f

\* New entries have new seqs, and compaction keeps one entry for each block.
LEMMA TouchKeepsSeqs ==
    ASSUME NEW c, CacheInv(c), HeapSeqsDistinct(c),
           NEW hashes \in Chains \cup {<<>>}, NEW onlyPresent \in BOOLEAN
    PROVE  HeapSeqsDistinct(Touch(c, hashes, onlyPresent))
  <1> DEFINE W == Walked(c, hashes, onlyPresent)
             touched == {hashes[i] : i \in W}
             map == TouchedMap(c, hashes, touched)
             pushed == {CandidateOf(map, h) : h \in touched}
             d == Pushed(c, hashes, onlyPresent)
  <1>1. W \in SUBSET (DOMAIN hashes) /\ IsFiniteSet(W) /\ \A i \in W : i \in Nat \ {0}
    BY WalkedFacts, ChainFacts
  <1>2. \A i \in W : map[hashes[i]].seq = c.seq + i
    BY <1>1, StampFacts
  <1>3. c.seq \in Nat /\ \A e \in c.heap : e.seq \in Nat /\ e.seq <= c.seq
    BY DEF CacheInv, CacheTypeOK, Candidate
  <1>4. d.map = map /\ d.heap = c.heap \cup pushed
    BY DEF Pushed
  <1>5. Touch(c, hashes, onlyPresent) = CompactIfBloated(d)
    BY DEF Touch, Pushed
  <1>6. CacheInv(d)
    BY PushPreserves
  <1> HIDE DEF d, W, map
  <1>7. HeapSeqsDistinct(d)
    <2>1. ASSUME NEW e \in pushed PROVE \E i \in W : e = CandidateOf(map, hashes[i]) /\ e.seq = c.seq + i
      <3>1. PICK i \in W : e = CandidateOf(map, hashes[i])
        OBVIOUS
      <3> QED BY <1>2, <3>1 DEF CandidateOf
    <2>2. ASSUME NEW e \in pushed, NEW f \in pushed, e.seq = f.seq PROVE e = f
      <3>1. PICK i \in W : e = CandidateOf(map, hashes[i]) /\ e.seq = c.seq + i
        BY <2>1
      <3>2. PICK j \in W : f = CandidateOf(map, hashes[j]) /\ f.seq = c.seq + j
        BY <2>1
      <3>3. i = j
        BY <1>1, <1>3, <2>2, <3>1, <3>2
      <3> QED BY <3>1, <3>2, <3>3
    <2>3. ASSUME NEW e \in c.heap, NEW f \in pushed PROVE e.seq # f.seq
      <3>1. PICK j \in W : f.seq = c.seq + j
        BY <2>1
      <3> QED BY <1>1, <1>3, <3>1
    <2> HIDE DEF pushed
    <2> QED BY <1>4, <2>2, <2>3 DEF HeapSeqsDistinct
  <1> DEFINE current == {CandidateOf(d.map, h) : h \in DOMAIN d.map}
  <1>8. \A e, f \in current : e.seq = f.seq => e = f
    <2> SUFFICES ASSUME NEW g \in DOMAIN d.map, NEW h \in DOMAIN d.map,
                        CandidateOf(d.map, g).seq = CandidateOf(d.map, h).seq
                 PROVE  CandidateOf(d.map, g) = CandidateOf(d.map, h)
      OBVIOUS
    <2>1. g = h
      BY <1>6 DEF CandidateOf, CacheInv, SeqsDistinct
    <2> QED BY <2>1
  <1>9. CompactIfBloated(d).heap = d.heap \/ CompactIfBloated(d).heap = current
    <2>1. d = [map |-> d.map, heap |-> d.heap, clock |-> d.clock, seq |-> d.seq]
      BY <1>6 DEF CacheInv, CacheTypeOK
    <2>2. [d EXCEPT !.heap = current].heap = current
      BY <2>1
    <2> QED BY <2>2 DEF CompactIfBloated
  <1> HIDE DEF current
  <1> QED BY <1>5, <1>7, <1>8, <1>9 DEF HeapSeqsDistinct

LEMMA EvictKeepsSeqs ==
    ASSUME NEW c, HeapSeqsDistinct(c), NEW budget
    PROVE  HeapSeqsDistinct(EvictTo(c, budget))
  <1>1. EvictTo(c, budget).heap = c.heap \ Popped(c, budget)
    BY DEF EvictTo
  <1> QED BY <1>1 DEF HeapSeqsDistinct

\* So whatever is left of it has a top.
LEMMA TopFacts ==
    ASSUME NEW c, CacheInv(c), HeapSeqsDistinct(c), NEW S \in SUBSET c.heap, S # {}
    PROVE  \E e \in S : \A f \in S \ {e} : PopsBefore(e, f)
  <1>1. /\ c.seq \in Nat
        /\ \A e \in S : e \in c.heap /\ e.access \in Nat /\ e.seq \in Nat /\ e.seq <= c.seq
    BY DEF CacheInv, CacheTypeOK, Candidate
  <1>2. PICK a \in {e.access : e \in S} : \A b \in {e.access : e \in S} : a <= b
    <2>1. {e.access : e \in S} \in SUBSET Nat /\ {e.access : e \in S} # {}
      BY <1>1
    <2> QED BY <2>1, LeastNat
  <1> DEFINE Oldest == {e \in S : e.access = a}
             Slack == {c.seq - e.seq : e \in Oldest}
  <1>3. PICK s \in Slack : \A t \in Slack : s <= t
    <2>1. Slack \in SUBSET Nat /\ Slack # {}
      BY <1>1, <1>2
    <2> HIDE DEF Slack
    <2> QED BY <2>1, LeastNat
  <1>4. PICK e \in Oldest : s = c.seq - e.seq
    BY <1>3
  <1>5. e \in S /\ e.access = a
    BY <1>4
  <1>6. ASSUME NEW f \in S \ {e} PROVE PopsBefore(e, f)
    <2>1. a <= f.access /\ f.access \in Nat /\ a \in Nat
      BY <1>1, <1>2, <1>5
    <2>2. CASE f.access = a
      <3>1. f \in Oldest
        BY <2>2
      <3>2. c.seq - e.seq <= c.seq - f.seq
        BY <1>3, <1>4, <3>1
      <3>3. f.seq # e.seq
        BY <1>1, <1>5 DEF HeapSeqsDistinct
      <3>4. e.seq > f.seq
        BY <1>1, <1>5, <3>2, <3>3
      <3> QED BY <1>5, <2>2, <3>4 DEF PopsBefore
    <2>3. CASE f.access # a
      BY <1>5, <2>1, <2>3 DEF PopsBefore
    <2> QED BY <2>2, <2>3
  <1> QED BY <1>5, <1>6

\* The cache once the entries P have been popped.
Without(c, P) ==
    [map |-> Restrict(c.map, {h \in DOMAIN c.map : CandidateOf(c.map, h) \notin P}),
     heap |-> c.heap \ P, clock |-> c.clock, seq |-> c.seq]

Live(c, P) == {e \in P : IsLive(c, e)}

\* A block goes for each live entry.
LEMMA WithoutCount ==
    ASSUME NEW c, CacheInv(c), NEW P \in SUBSET c.heap
    PROVE  /\ IsFiniteSet(Live(c, P)) /\ Cardinality(Live(c, P)) \in Nat
           /\ NumBlocks(Without(c, P)) = NumBlocks(c) - Cardinality(Live(c, P))
  <1> DEFINE D == DOMAIN c.map
             gone == {h \in D : CandidateOf(c.map, h) \in P}
             keep == {h \in D : CandidateOf(c.map, h) \notin P}
             L == Live(c, P)
             e == [h \in gone |-> CandidateOf(c.map, h)]
  <1>1. IsFiniteSet(D) /\ NumBlocks(c) = Cardinality(D)
    BY MapFinite DEF NumBlocks
  <1>2. gone \in SUBSET D /\ IsFiniteSet(gone)
    BY <1>1, FS_Subset
  <1>3. \A h \in gone : e[h] \in L /\ e[h].hash = h
    BY CurrentEntries DEF Live
  <1>4. \A f \in L : f.hash \in gone /\ e[f.hash] = f
    BY DEF IsLive, Live
  <1>5. keep = D \ gone /\ D \cap gone = gone
    OBVIOUS
  <1>6. NumBlocks(Without(c, P)) = Cardinality(keep)
    BY DEF NumBlocks, Without, Restrict
  <1> HIDE DEF gone, L, D, keep
  <1>7. e \in Surjection(gone, L) /\ e \in Injection(gone, L)
    BY <1>3, <1>4 DEF Surjection, Injection, IsInjective
  <1>8. IsFiniteSet(L) /\ Cardinality(L) = Cardinality(gone)
    BY <1>2, <1>7, FS_Surjection
  <1>9. Cardinality(L) \in Nat
    BY <1>8, FS_CardinalityType
  <1>10. Cardinality(keep) = Cardinality(D) - Cardinality(gone)
    BY <1>1, <1>5, FS_Difference
  <1> QED BY <1>1, <1>6, <1>8, <1>9, <1>10 DEF L

\* The entries the loop of evict_to may have popped at some turn: the first
\* ones of the heap, and none that EvictTo would not pop.
MayHavePopped(c, budget) ==
    {P \in SUBSET Popped(c, budget) :
        \A e \in P, f \in c.heap : PopsBefore(f, e) => f \in P}

\* A turn pops one entry of those, or there is none left.
LEMMA EvictTurnPops ==
    ASSUME NEW c, CacheInv(c), HeapSeqsDistinct(c), NEW budget \in Nat,
           NEW P \in MayHavePopped(c, budget)
    PROVE  LET d == Without(c, P)
           IN  \/ EvictTurn(d, budget) = d /\ P = Popped(c, budget)
               \/ \E e \in c.heap \ P :
                     /\ P \cup {e} \in MayHavePopped(c, budget)
                     /\ EvictTurn(d, budget) = Without(c, P \cup {e})
  <1> DEFINE d == Without(c, P)
             excess == NumBlocks(c) - budget
  <1>1. /\ P \in SUBSET c.heap /\ P \in SUBSET Popped(c, budget)
        /\ \A e \in P, f \in c.heap : PopsBefore(f, e) => f \in P
    BY DEF MayHavePopped, Popped
  <1>2. /\ NumBlocks(c) \in Nat /\ Cardinality(Live(c, P)) \in Nat /\ IsFiniteSet(Live(c, P))
        /\ NumBlocks(d) = NumBlocks(c) - Cardinality(Live(c, P))
    BY <1>1, MapFinite, WithoutCount
  <1>3. d.heap = c.heap \ P /\ d.clock = c.clock /\ d.seq = c.seq
        /\ d.map = Restrict(c.map, {h \in DOMAIN c.map : CandidateOf(c.map, h) \notin P})
    BY DEF Without
  <1>4. IsFiniteSet(c.heap) /\ c.heap \subseteq Candidate
    BY DEF CacheInv, CacheTypeOK
  <1> HIDE DEF d
  <1>5. CASE NumBlocks(d) <= budget \/ d.heap = {}
    <2>1. EvictTurn(d, budget) = d
      BY <1>5 DEF EvictTurn
    <2>2. ASSUME NEW e \in Popped(c, budget), e \notin P PROVE FALSE
      <3> DEFINE A == {f \in c.heap : IsLive(c, f) /\ PopsBefore(f, e)}
      <3>1. e \in c.heap /\ Cardinality(A) < excess
        BY <2>2 DEF Popped
      <3>2. ~(d.heap = {})
        BY <1>3, <2>2, <3>1
      <3>3. NumBlocks(d) <= budget
        BY <1>5, <3>2
      <3>4. ASSUME NEW f \in Live(c, P) PROVE f \in A
        <4>1. f \in P /\ IsLive(c, f) /\ f \in c.heap
          BY <1>1 DEF Live
        <4>2. ~PopsBefore(e, f)
          BY <1>1, <2>2, <3>1, <4>1
        <4>3. f.seq # e.seq
          BY <2>2, <3>1, <4>1 DEF HeapSeqsDistinct
        <4>4. PopsBefore(f, e)
          BY <1>4, <3>1, <4>1, <4>2, <4>3 DEF PopsBefore, Candidate
        <4> QED BY <4>1, <4>4
      <3>5. IsFiniteSet(A) /\ Cardinality(A) \in Nat
        BY <1>4, FS_Subset, FS_CardinalityType
      <3> HIDE DEF A
      <3>6. Cardinality(Live(c, P)) <= Cardinality(A)
        BY <3>4, <3>5, FS_Subset
      <3> QED BY <1>2, <3>1, <3>3, <3>5, <3>6
    <2> QED BY <1>1, <2>1, <2>2 DEF d
  <1>6. CASE ~(NumBlocks(d) <= budget \/ d.heap = {})
    <2> DEFINE e == Top(d)
    <2>1. e \in c.heap \ P /\ \A f \in (c.heap \ P) \ {e} : PopsBefore(e, f)
      <3>1. c.heap \ P \in SUBSET c.heap /\ c.heap \ P # {}
        BY <1>3, <1>6
      <3>2. \E x \in c.heap \ P : \A f \in (c.heap \ P) \ {x} : PopsBefore(x, f)
        <4>1. PICK S \in SUBSET c.heap : S = c.heap \ P
          BY <3>1
        <4>2. S # {}
          BY <3>1, <4>1
        <4>3. \E x \in S : \A f \in S \ {x} : PopsBefore(x, f)
          BY <4>2, TopFacts
        <4> QED BY <4>1, <4>3
      <3>3. \E x \in d.heap : \A f \in d.heap \ {x} : PopsBefore(x, f)
        BY <1>3, <3>2
      <3>4. Top(d) \in d.heap /\ \A f \in d.heap \ {Top(d)} : PopsBefore(Top(d), f)
        BY <3>3 DEF Top
      <3> QED BY <1>3, <3>4
    <2> HIDE DEF e
    <2>2. ASSUME NEW f \in c.heap, PopsBefore(f, e) PROVE f \in P
      <3> SUFFICES ASSUME f \notin P PROVE FALSE
        OBVIOUS
      <3>1. f = e \/ PopsBefore(e, f)
        BY <2>1
      <3>2. e \in Candidate /\ f \in Candidate
        BY <1>4, <2>1
      <3> QED BY <2>2, <3>1, <3>2 DEF PopsBefore, Candidate
    <2>3. e \in Popped(c, budget)
      <3> DEFINE A == {f \in c.heap : IsLive(c, f) /\ PopsBefore(f, e)}
      <3>1. A \in SUBSET Live(c, P)
        BY <2>2 DEF Live
      <3> HIDE DEF A
      <3>2. Cardinality(A) <= Cardinality(Live(c, P))
        BY <1>2, <3>1, FS_Subset
      <3>3. IsFiniteSet(A) /\ Cardinality(A) \in Nat
        BY <1>2, <3>1, FS_Subset, FS_CardinalityType
      <3>4. Cardinality(A) < excess
        BY <1>2, <1>6, <3>2, <3>3
      <3> QED BY <2>1, <3>4 DEF Popped, A
    <2>4. P \cup {e} \in MayHavePopped(c, budget)
      BY <1>1, <2>2, <2>3 DEF MayHavePopped
    <2>5. EvictTurn(d, budget) = Without(c, P \cup {e})
      <3> DEFINE left == {h \in DOMAIN d.map : ~(h = e.hash /\ IsLive(d, e))}
                 keep == {h \in DOMAIN c.map : CandidateOf(c.map, h) \notin P \cup {e}}
      <3>1. EvictTurn(d, budget) = [map |-> Restrict(d.map, left), heap |-> d.heap \ {e},
                                    clock |-> d.clock, seq |-> d.seq]
        BY <1>6 DEF EvictTurn, e
      <3>2. DOMAIN d.map = {h \in DOMAIN c.map : CandidateOf(c.map, h) \notin P}
        BY <1>3 DEF Restrict
      <3>3. \A h \in DOMAIN d.map : d.map[h] = c.map[h] /\ CandidateOf(d.map, h) = CandidateOf(c.map, h)
        BY <1>3, <3>2 DEF Restrict, CandidateOf
      <3>4. \A h : CandidateOf(c.map, h).hash = h
        BY DEF CandidateOf
      <3>5. left = keep
        <4>1. ASSUME NEW h \in DOMAIN d.map
              PROVE  (h = e.hash /\ IsLive(d, e)) <=> CandidateOf(c.map, h) = e
          BY <3>3, <3>4 DEF IsLive
        <4> QED BY <3>2, <4>1
      <3>6. Restrict(d.map, left) = Restrict(c.map, keep)
        <4>1. left \subseteq DOMAIN d.map
          OBVIOUS
        <4> HIDE DEF left, keep
        <4> QED BY <3>3, <3>5, <4>1 DEF Restrict
      <3>7. d.heap \ {e} = c.heap \ (P \cup {e})
        BY <1>3
      <3> QED BY <1>3, <3>1, <3>6, <3>7 DEF Without
    <2> QED BY <2>1, <2>4, <2>5 DEF d
  <1> QED BY <1>5, <1>6 DEF d

LoopEquation(c, budget, Loop) ==
    Loop = [n \in 0..Cardinality(c.heap) |->
              IF n = 0 THEN c ELSE EvictTurn(Loop[n - 1], budget)]

LoopFcn(c, budget) == CHOOSE Loop : LoopEquation(c, budget, Loop)

LEMMA EvictLoopIsFcn ==
    ASSUME NEW c, NEW budget
    PROVE  EvictLoop(c, budget) = LoopFcn(c, budget)[Cardinality(c.heap)]
  BY DEF EvictLoop, LoopFcn, LoopEquation

\* The loop of evict_to leaves what EvictTo says.
LEMMA EvictIsItsLoop ==
    ASSUME NEW c, CacheInv(c), HeapSeqsDistinct(c), NEW budget \in Nat
    PROVE  EvictLoop(c, budget) = EvictTo(c, budget)
  <1> DEFINE May == MayHavePopped(c, budget)
             V == {Without(c, P) : P \in May}
             Loop == LoopFcn(c, budget)
  <1>1. IsFiniteSet(c.heap) /\ Cardinality(c.heap) \in Nat
    BY FS_CardinalityType DEF CacheInv, CacheTypeOK
  <1>2. PICK n \in Nat : n = Cardinality(c.heap)
    BY <1>1
  <1>3. c = Without(c, {}) /\ {} \in May
    <2>1. /\ c = [map |-> c.map, heap |-> c.heap, clock |-> c.clock, seq |-> c.seq]
          /\ c.map \in [DOMAIN c.map -> Stamp]
      BY DEF CacheInv, CacheTypeOK
    <2>2. Restrict(c.map, {h \in DOMAIN c.map : CandidateOf(c.map, h) \notin {}}) = c.map
      BY <2>1 DEF Restrict
    <2>3. c.heap \ {} = c.heap
      OBVIOUS
    <2>4. {} \in May
      BY DEF MayHavePopped
    <2> QED BY <2>1, <2>2, <2>3, <2>4 DEF Without
  <1>4. \A P \in May : P \in SUBSET Popped(c, budget) /\ P \in SUBSET c.heap
    BY DEF MayHavePopped, Popped
  <1>5. ASSUME NEW d \in V PROVE EvictTurn(d, budget) \in V
    <2>1. PICK P \in May : d = Without(c, P)
      OBVIOUS
    <2>2. \/ EvictTurn(d, budget) = d
          \/ \E e \in c.heap \ P : P \cup {e} \in May /\ EvictTurn(d, budget) = Without(c, P \cup {e})
      BY <2>1, EvictTurnPops
    <2> HIDE DEF May
    <2> QED BY <2>1, <2>2
  <1> DEFINE Step == [k \in 1..n |-> [d \in V |-> EvictTurn(d, budget)]]
  <1>6. Step \in Steps(n, V) /\ c \in V
    <2> HIDE DEF May
    <2>1. c \in V
      BY <1>3
    <2> HIDE DEF V
    <2> QED BY <1>5, <2>1 DEF Steps
  <1>7. ASSUME NEW k \in 1..n, NEW d \in V PROVE Step[k][d] = EvictTurn(d, budget)
    OBVIOUS
  <1> HIDE DEF Step, V, May
  <1>8. PICK f \in [0..n -> V] : f[0] = c /\ \A k \in 1..n : f[k] = Step[k][f[k - 1]]
    <2>1. \E f : LoopOf(n, V, c, Step, f)
      BY <1>6, LoopExists
    <2> QED BY <2>1 DEF LoopOf
  <1>9. LoopEquation(c, budget, f)
    <2>1. ASSUME NEW k \in 1..n PROVE f[k] = EvictTurn(f[k - 1], budget)
      <3>1. f[k - 1] \in V
        BY <1>8
      <3> QED BY <1>7, <1>8, <3>1
    <2> QED BY <1>2, <1>8, <2>1 DEF LoopEquation
  <1>10. LoopEquation(c, budget, Loop)
    BY <1>9 DEF LoopFcn
  <1> HIDE DEF Loop
  <1>11. Loop[0] = c /\ \A k \in 1..n : Loop[k] = EvictTurn(Loop[k - 1], budget)
    BY <1>2, <1>10 DEF LoopEquation
  <1> DEFINE AfterTurns(k) == \E P \in May :
                                 /\ Loop[k] = Without(c, P)
                                 /\ P = Popped(c, budget) \/ Cardinality(P) = k
             Bad == {k \in 0..n : ~AfterTurns(k)}
  <1>12. AfterTurns(0)
    BY <1>3, <1>11, FS_EmptySet
  <1>13. ASSUME NEW k \in 1..n, AfterTurns(k - 1) PROVE AfterTurns(k)
    <2>1. PICK P \in May :
              /\ Loop[k - 1] = Without(c, P)
              /\ P = Popped(c, budget) \/ Cardinality(P) = k - 1
      BY <1>13
    <2>2. Loop[k] = EvictTurn(Without(c, P), budget)
      BY <1>11, <2>1
    <2>3. CASE EvictTurn(Without(c, P), budget) = Without(c, P) /\ P = Popped(c, budget)
      BY <2>2, <2>3
    <2>4. ASSUME NEW e \in c.heap \ P, P \cup {e} \in May,
                 EvictTurn(Without(c, P), budget) = Without(c, P \cup {e})
          PROVE  AfterTurns(k)
      <3>1. P \cup {e} \in SUBSET Popped(c, budget) /\ e \notin P
        BY <1>4, <2>4
      <3>2. Cardinality(P) = k - 1
        BY <2>1, <3>1
      <3>3. IsFiniteSet(P)
        BY <1>1, <1>4, FS_Subset
      <3>4. Cardinality(P \cup {e}) = k
        <4>1. Cardinality(P \cup {e}) = Cardinality(P) + 1
          BY <3>1, <3>3, FS_AddElement
        <4>2. k \in Nat /\ (k - 1) + 1 = k
          OBVIOUS
        <4> QED BY <3>2, <4>1, <4>2
      <3>5. PICK Q \in May : Q = P \cup {e}
        BY <2>4
      <3>6. Loop[k] = Without(c, Q) /\ Cardinality(Q) = k
        BY <2>2, <2>4, <3>4, <3>5
      <3> QED BY <3>6
    <2> QED BY <2>3, <2>4, EvictTurnPops DEF May
  <1>14. AfterTurns(n)
    <2> SUFFICES ASSUME Bad # {} PROVE FALSE
      <3> HIDE DEF AfterTurns
      <3> QED OBVIOUS
    <2> HIDE DEF AfterTurns
    <2>1. PICK k \in Bad : \A j \in Bad : k <= j
      <3>1. Bad \in SUBSET Nat
        OBVIOUS
      <3> HIDE DEF Bad
      <3> QED BY <3>1, LeastNat
    <2>2. k \in 0..n /\ ~AfterTurns(k)
      BY <2>1
    <2>3. k # 0
      BY <1>12, <2>2
    <2>4. k \in 1..n /\ k - 1 \in 0..n /\ k - 1 \notin Bad
      <3> HIDE DEF Bad
      <3> QED BY <2>1, <2>2, <2>3
    <2> QED BY <1>13, <2>2, <2>4
  <1>15. PICK P \in May : Loop[n] = Without(c, P) /\ (P = Popped(c, budget) \/ Cardinality(P) = n)
    BY <1>14
  <1>16. P = Popped(c, budget)
    <2>1. CASE Cardinality(P) = n
      <3>1. P = c.heap
        BY <1>1, <1>2, <1>4, <2>1, FS_Subset
      <3> QED BY <1>4, <3>1 DEF Popped
    <2> QED BY <1>15, <2>1
  <1>17. EvictTo(c, budget) = Without(c, Popped(c, budget))
    BY DEF EvictTo, Without
  <1> QED BY <1>2, <1>15, <1>16, <1>17, EvictLoopIsFcn DEF Loop

\* In every reachable cache the loops leave what Touch and EvictTo say, for every
\* prompt and every budget, however many stale entries the heap holds
\* (prefix_cache.rs:77-93, 142-152).
THEOREM LoopsAgree == Spec => []ClosedFormsAreTheLoops
  <1>1. Init => HeapSeqsDistinct(cache)
    BY DEF Init, NewCache, HeapSeqsDistinct
  <1>2. Inv /\ HeapSeqsDistinct(cache) /\ [Next]_cache => HeapSeqsDistinct(cache)'
    <2> SUFFICES ASSUME Inv, HeapSeqsDistinct(cache), [Next]_cache PROVE HeapSeqsDistinct(cache')
      BY DEF HeapSeqsDistinct
    <2>1. ASSUME NEW hashes \in Chains, InsertChain(hashes) PROVE HeapSeqsDistinct(cache')
      BY <2>1, TouchKeepsSeqs DEF InsertChain, Insert, Inv
    <2>2. ASSUME NEW hashes \in Chains, MatchChain(hashes) PROVE HeapSeqsDistinct(cache')
      BY <2>2, TouchKeepsSeqs DEF MatchChain, MatchPrefix, Inv
    <2>3. ASSUME NEW budget \in Budgets, Evict(budget) PROVE HeapSeqsDistinct(cache')
      BY <2>3, EvictKeepsSeqs DEF Evict
    <2> QED BY <2>1, <2>2, <2>3 DEF Next
  <1>3. Inv /\ HeapSeqsDistinct(cache) => ClosedFormsAreTheLoops
    BY EvictIsItsLoop, TouchIsItsLoop, BoundsAssumption DEF Inv, ClosedFormsAreTheLoops
  <1> QED BY <1>1, <1>2, <1>3, InvHolds, PTL DEF Spec
=============================================================================
