--------------------------- MODULE SchedulerProofs ---------------------------
(***************************************************************************)
(* What the scheduler promises its callers, for every number of replicas,  *)
(* every cap, weight and budget and every set of prompts: pick never       *)
(* panics, passes nobody over for a full round, prefers no replica beyond  *)
(* what its match is worth; the load it believes in is never more than its *)
(* callers hold, and the cache pictures it keeps stay within their budget. *)
(***************************************************************************)
EXTENDS SchedulerApi, PrefixCacheLemmas

-----------------------------------------------------------------------------
\* Arithmetic.

\* One turn past the end comes back to the start.
LEMMA WrapAround ==
    ASSUME NEW n \in Nat \ {0}, NEW a \in 0..(2 * n - 1)
    PROVE  a % n = (IF a < n THEN a ELSE a - n)
  OBVIOUS

LEMMA ReplicaFacts ==
    /\ NumReplicas \in Nat \ {0}
    /\ \A r : r \in Replicas <=> r \in Nat /\ r < NumReplicas
  BY SchedulerAssumption DEF Replicas

\* Where the scan that starts at x meets r.
LEMMA OffsetFrom ==
    ASSUME NEW x \in Replicas, NEW r \in Replicas
    PROVE  (r + NumReplicas - x) % NumReplicas
             = (IF r < x THEN r + NumReplicas - x ELSE r - x)
  BY ReplicaFacts, WrapAround

LEMMA OffsetFacts ==
    ASSUME rrNext \in Replicas, NEW r \in Replicas
    PROVE  /\ ScanOffset(r) = (IF r < rrNext THEN r + NumReplicas - rrNext ELSE r - rrNext)
           /\ ScanOffset(r) \in 0..(NumReplicas - 1)
  BY ReplicaFacts, OffsetFrom DEF ScanOffset
-----------------------------------------------------------------------------
\* Types: the scheduler's fields and the counts of the environment.

Typed ==
    /\ SchedulerTypeOK
    /\ outstanding \in [Replicas -> Nat]
    /\ bypassed \in [Replicas -> Nat]

LEMMA ChosenIsAvailable ==
    ASSUME NEW hashes, NEW r \in Choice(hashes)
    PROVE  r \in Available /\ r \in Replicas /\ inflight[r] < MaxInflight
  BY DEF Choice, FirstInScan, CacheAwareChoice, BestScored, LeastLoaded, Available, Healthy

LEMMA TypeInit == Init => Typed
  BY ReplicaFacts DEF Init, SchedulerInit, Typed, SchedulerTypeOK

LEMMA TypeNext == Typed /\ [Next]_vars => Typed'
  <1> SUFFICES ASSUME Typed, [Next]_vars PROVE Typed'
    OBVIOUS
  <1> USE DEF Typed, SchedulerTypeOK
  <1>1. ASSUME NEW hashes \in Chains, NEW r \in Choice(hashes), PickOne(hashes, r)
        PROVE  Typed'
    <2>1. r \in Replicas
      BY ChosenIsAvailable
    <2>2. /\ healthy' = healthy /\ inflight' = [inflight EXCEPT ![r] = @ + 1]
          /\ outstanding' = [outstanding EXCEPT ![r] = @ + 1]
      BY <1>1 DEF PickOne, Pick
    <2>3. DOMAIN cache' = Replicas
      BY <1>1 DEF PickOne, Pick
    <2>4. rrNext' \in Replicas
      <3>1. CASE Policy = "RoundRobin"
        <4>1. rrNext' = (r + 1) % NumReplicas /\ r + 1 \in 0..(2 * NumReplicas - 1)
          BY <1>1, <2>1, <3>1, ReplicaFacts DEF PickOne, Pick
        <4> QED BY <2>1, <4>1, ReplicaFacts, WrapAround
      <3>2. CASE Policy # "RoundRobin"
        BY <1>1, <3>2 DEF PickOne, Pick
      <3> QED BY <3>1, <3>2
    <2>5. bypassed' \in [Replicas -> Nat]
      BY <1>1 DEF PickOne, CountBypass
    <2>6. inflight' \in [Replicas -> Nat] /\ outstanding' \in [Replicas -> Nat]
      BY <2>1, <2>2
    <2> QED BY <2>2, <2>3, <2>4, <2>5, <2>6
  <1>2. ASSUME NEW r \in Replicas, CompleteOne(r) PROVE Typed'
    BY <1>2 DEF CompleteOne, Complete
  <1>3. ASSUME NEW r \in Replicas, TakeDown(r) PROVE Typed'
    BY <1>3 DEF TakeDown, MarkUnhealthy
  <1>4. ASSUME NEW r \in Replicas, ReAdmit(r) PROVE Typed'
    BY <1>4 DEF ReAdmit, MarkHealthy
  <1>5. CASE PickFails /\ UNCHANGED <<outstanding, bypassed>>
    BY <1>5 DEF PickFails, schedVars
  <1>6. CASE UNCHANGED vars
    BY <1>6 DEF vars, schedVars
  <1> QED BY <1>1, <1>2, <1>3, <1>4, <1>5, <1>6 DEF Next
-----------------------------------------------------------------------------
\* The load the scheduler believes in is never more than its callers have
\* open, whatever resets and late completions come between
\* (scheduler.rs:199-224).
THEOREM NoPhantomLoadEver == Spec => []NoPhantomLoad
  <1>1. Init => NoPhantomLoad
    BY DEF Init, SchedulerInit, NoPhantomLoad
  <1>2. Typed /\ NoPhantomLoad /\ [Next]_vars => NoPhantomLoad'
    <2> SUFFICES ASSUME Typed, NoPhantomLoad, [Next]_vars PROVE NoPhantomLoad'
      OBVIOUS
    <2> USE DEF Typed, SchedulerTypeOK, NoPhantomLoad
    <2>1. ASSUME NEW hashes \in Chains, NEW r \in Choice(hashes), PickOne(hashes, r)
          PROVE  NoPhantomLoad'
      BY <2>1, ChosenIsAvailable DEF PickOne, Pick
    <2>2. ASSUME NEW r \in Replicas, CompleteOne(r) PROVE NoPhantomLoad'
      BY <2>2 DEF CompleteOne, Complete
    <2>3. ASSUME NEW r \in Replicas, TakeDown(r) PROVE NoPhantomLoad'
      BY <2>3 DEF TakeDown, MarkUnhealthy
    <2>4. ASSUME NEW r \in Replicas, ReAdmit(r) PROVE NoPhantomLoad'
      BY <2>4 DEF ReAdmit, MarkHealthy
    <2>5. CASE PickFails /\ UNCHANGED <<outstanding, bypassed>>
      BY <2>5 DEF PickFails, schedVars
    <2>6. CASE UNCHANGED vars
      BY <2>6 DEF vars, schedVars
    <2> QED BY <2>1, <2>2, <2>3, <2>4, <2>5, <2>6 DEF Next
  <1> QED BY <1>1, <1>2, TypeInit, TypeNext, PTL DEF Spec
-----------------------------------------------------------------------------
\* Each pick that passes an available replica over brings the scan at least
\* one replica closer to it, so that what it has been passed over and what the
\* scan still has before it make less than a round.
Progress == \A q \in Replicas : bypassed[q] + ScanOffset(q) < NumReplicas

LEMMA ProgressNext == Typed /\ Progress /\ [Next]_vars => Progress'
  <1> SUFFICES ASSUME Typed, Progress, [Next]_vars PROVE Progress'
    OBVIOUS
  <1> USE DEF Typed, SchedulerTypeOK
  <1>1. ASSUME rrNext' = rrNext, \A q \in Replicas : bypassed'[q] = bypassed[q] \/ bypassed'[q] = 0
        PROVE  Progress'
    <2> SUFFICES ASSUME NEW q \in Replicas PROVE bypassed'[q] + ScanOffset(q)' < NumReplicas
      BY DEF Progress
    <2>1. ScanOffset(q)' = ScanOffset(q)
      BY <1>1 DEF ScanOffset
    <2>2. bypassed[q] + ScanOffset(q) < NumReplicas /\ bypassed[q] \in Nat /\ ScanOffset(q) \in Nat
      BY OffsetFacts, ReplicaFacts DEF Progress
    <2>3. bypassed'[q] = bypassed[q] \/ bypassed'[q] = 0
      BY <1>1
    <2> QED BY <2>1, <2>2, <2>3, ReplicaFacts
  <1>2. ASSUME NEW hashes \in Chains, NEW r \in Choice(hashes), PickOne(hashes, r)
        PROVE  Progress'
    <2>1. CASE Policy = "RoundRobin"
      <3>1. r \in Replicas /\ \A q \in Available : ScanOffset(r) <= ScanOffset(q)
        BY <2>1, ChosenIsAvailable DEF Choice, FirstInScan
      <3>2. rrNext' = (IF r + 1 < NumReplicas THEN r + 1 ELSE 0)
        <4>1. rrNext' = (r + 1) % NumReplicas
          BY <1>2, <2>1 DEF PickOne, Pick
        <4>2. r + 1 \in 0..(2 * NumReplicas - 1)
          BY <3>1, ReplicaFacts
        <4> QED BY <3>1, <4>1, <4>2, ReplicaFacts, WrapAround
      <3>3. (rrNext \in Replicas)'
        BY TypeNext
      <3> SUFFICES ASSUME NEW q \in Replicas PROVE bypassed'[q] + ScanOffset(q)' < NumReplicas
        BY DEF Progress
      <3>4. ScanOffset(q)' = (IF q < rrNext' THEN q + NumReplicas - rrNext' ELSE q - rrNext')
        <4>1. rrNext' \in Replicas
          BY <3>3
        <4>2. ScanOffset(q)' = (q + NumReplicas - rrNext') % NumReplicas
          BY DEF ScanOffset
        <4> QED BY <4>1, <4>2, OffsetFrom
      <3>5. CASE q = r \/ q \notin Available
        <4>1. bypassed'[q] = 0
          BY <1>2, <3>5 DEF PickOne, CountBypass
        <4> QED BY <3>3, <3>4, <4>1, ReplicaFacts
      <3>6. CASE q # r /\ q \in Available
        <4>1. bypassed'[q] = bypassed[q] + 1 /\ bypassed[q] \in Nat
          BY <1>2, <2>1, <3>6 DEF PickOne, CountBypass
        <4>2. /\ ScanOffset(r) <= ScanOffset(q)
              /\ ScanOffset(r) = (IF r < rrNext THEN r + NumReplicas - rrNext ELSE r - rrNext)
              /\ ScanOffset(q) = (IF q < rrNext THEN q + NumReplicas - rrNext ELSE q - rrNext)
          BY <3>1, <3>6, OffsetFacts
        <4>3. ScanOffset(q)' < ScanOffset(q)
          BY <3>1, <3>2, <3>4, <3>6, <4>2, ReplicaFacts
        <4>4. bypassed[q] + ScanOffset(q) < NumReplicas
          BY DEF Progress
        <4> QED BY <3>2, <3>3, <3>4, <4>1, <4>2, <4>3, <4>4, ReplicaFacts
      <3> QED BY <3>5, <3>6
    <2>2. CASE Policy # "RoundRobin"
      <3>1. rrNext' = rrNext /\ \A q \in Replicas : bypassed'[q] = 0
        BY <1>2, <2>2 DEF PickOne, Pick, CountBypass
      <3> QED BY <1>1, <3>1
    <2> QED BY <2>1, <2>2
  <1>3. ASSUME NEW r \in Replicas, CompleteOne(r) PROVE Progress'
    BY <1>1, <1>3 DEF CompleteOne, Complete
  <1>4. ASSUME NEW r \in Replicas, TakeDown(r) PROVE Progress'
    BY <1>1, <1>4 DEF TakeDown, MarkUnhealthy
  <1>5. ASSUME NEW r \in Replicas, ReAdmit(r) PROVE Progress'
    BY <1>1, <1>5 DEF ReAdmit, MarkHealthy
  <1>6. CASE PickFails /\ UNCHANGED <<outstanding, bypassed>>
    BY <1>1, <1>6 DEF PickFails, schedVars
  <1>7. CASE UNCHANGED vars
    BY <1>1, <1>7 DEF vars, schedVars
  <1> QED BY <1>2, <1>3, <1>4, <1>5, <1>6, <1>7 DEF Next

\* A replica that stays available is picked before the others have been picked
\* in its place as often as there are replicas (scheduler.rs:130-139).
THEOREM NobodyStarves == Spec => []BoundedBypass
  <1>1. Init => Progress
    <2> SUFFICES ASSUME Init, NEW q \in Replicas PROVE bypassed[q] + ScanOffset(q) < NumReplicas
      BY DEF Progress
    <2>1. rrNext = 0 /\ rrNext \in Replicas /\ bypassed[q] = 0
      BY ReplicaFacts DEF Init, SchedulerInit
    <2> QED BY <2>1, OffsetFacts, ReplicaFacts
  <1>2. Typed /\ Progress => BoundedBypass
    BY OffsetFacts, ReplicaFacts DEF Typed, SchedulerTypeOK, Progress, BoundedBypass
  <1> QED BY <1>1, <1>2, ProgressNext, TypeInit, TypeNext, PTL DEF Spec
-----------------------------------------------------------------------------
\* The cache pictures.

\* What the scheduler keeps of every replica's cache between two calls.
Fits(c) ==
    /\ CacheInv(c)
    /\ NumBlocks(c) <= BlockBudget
    /\ Cardinality(c.heap) <=
          (IF NumBlocks(c) < BlockBudget THEN 2 ELSE 4) * Larger(NumBlocks(c), CompactFloor)

Pictures == \A r \in Replicas : Fits(cache[r])

LEMMA NewCacheFits == Fits(NewCache)
  <1>1. NumBlocks(NewCache) = 0 /\ Cardinality(NewCache.heap) = 0
    BY FS_EmptySet DEF NewCache, NumBlocks
  <1>2. CompactFloor \in Nat /\ BlockBudget \in Nat
    BY CompactFloorAssumption, SchedulerAssumption
  <1> QED BY <1>1, <1>2, NewCacheInv DEF Fits, Larger

LEMMA PicturesNext == Typed /\ Pictures /\ [Next]_vars => Pictures'
  <1> SUFFICES ASSUME Typed, Pictures, [Next]_vars, NEW q \in Replicas PROVE Fits(cache'[q])
    BY DEF Pictures
  <1>1. Fits(cache[q]) /\ DOMAIN cache = Replicas
    BY DEF Pictures, Typed, SchedulerTypeOK
  <1>2. CASE cache' = cache
    BY <1>1, <1>2
  <1>3. ASSUME NEW hashes \in Chains, NEW r \in Choice(hashes), PickOne(hashes, r)
        PROVE  Fits(cache'[q])
    <2>1. CASE Policy # "RoundRobin" /\ q = r
      <3>1. cache' = [cache EXCEPT ![r] = EvictTo(Insert(cache[r], hashes), BlockBudget)]
        BY <1>3, <2>1 DEF PickOne, Pick
      <3>2. cache'[q] = EvictTo(Insert(cache[q], hashes), BlockBudget)
        BY <1>1, <2>1, <3>1
      <3>3. BlockBudget \in Nat /\ hashes \in Chains \cup {<<>>}
        BY SchedulerAssumption
      <3> QED BY <1>1, <3>2, <3>3, InsertEvictBounds DEF Fits
    <2>2. CASE ~(Policy # "RoundRobin" /\ q = r)
      <3>1. cache'[q] = cache[q]
        BY <1>1, <1>3, <2>2 DEF PickOne, Pick
      <3> QED BY <1>1, <3>1
    <2> QED BY <2>1, <2>2
  <1>4. ASSUME NEW r \in Replicas, TakeDown(r) PROVE Fits(cache'[q])
    <2>1. cache'[q] = NewCache \/ cache'[q] = cache[q]
      BY <1>1, <1>4 DEF TakeDown, MarkUnhealthy
    <2> QED BY <1>1, <2>1, NewCacheFits
  <1>5. ASSUME NEW r \in Replicas, CompleteOne(r) PROVE cache' = cache
    BY <1>5 DEF CompleteOne, Complete
  <1>6. ASSUME NEW r \in Replicas, ReAdmit(r) PROVE cache' = cache
    BY <1>6 DEF ReAdmit, MarkHealthy
  <1>7. CASE PickFails /\ UNCHANGED <<outstanding, bypassed>>
    BY <1>2, <1>7 DEF PickFails, schedVars
  <1>8. CASE UNCHANGED vars
    BY <1>2, <1>8 DEF vars, schedVars
  <1> QED BY <1>2, <1>3, <1>4, <1>5, <1>6, <1>7, <1>8 DEF Next

LEMMA PicturesEver == Spec => []Pictures
  <1>1. Init => Pictures
    BY NewCacheFits DEF Init, SchedulerInit, Pictures
  <1> QED BY <1>1, PicturesNext, TypeInit, TypeNext, PTL DEF Spec

\* Every cache picture is within its budget after every call, although insert
\* may put a whole prompt over it (scheduler.rs:188-193).
THEOREM WithinBudgetEver == Spec => []WithinBudget
  <1>1. Pictures => WithinBudget
    BY DEF Pictures, Fits, WithinBudget
  <1> QED BY <1>1, PicturesEver, PTL

\* The heap of every picture stays in proportion to its map: compaction comes
\* before eviction, and pick never evicts enough at once to undo it
\* (prefix_cache.rs:19-27, scheduler.rs:192-193).
THEOREM HeapBoundedEver == Spec => []HeapBounded
  <1>1. Pictures => HeapBounded
    BY DEF Pictures, Fits, HeapBounded, Larger
  <1> QED BY <1>1, PicturesEver, PTL
-----------------------------------------------------------------------------
\* The choice of pick.

LEMMA Monotone ==
    ASSUME NEW k \in Nat, NEW m \in Nat, NEW n \in Nat, m <= n
    PROVE  k * m \in Nat /\ k * n \in Nat /\ k * m <= k * n
  <1>1. k * (n - m) \in Nat /\ k * n = k * m + k * (n - m) /\ k * m \in Nat /\ k * n \in Nat
    OBVIOUS
  <1> QED BY <1>1

LEMMA UpTo ==
    ASSUME NEW n \in Nat
    PROVE  IsFiniteSet(1..n) /\ Cardinality(1..n) = n
  BY FS_Interval

LEMMA LookupFacts ==
    ASSUME NEW c, NEW hashes \in Chains
    PROVE  Lookup(c, hashes) \in Nat /\ Len(hashes) \in Nat /\ Lookup(c, hashes) <= Len(hashes)
  <1>0. hashes \in Seq(Blocks)
    BY ChainsAssumption
  <1>1. DOMAIN hashes = 1..Len(hashes) /\ Len(hashes) \in Nat
    BY <1>0
  <1>2. IsFiniteSet(1..Len(hashes)) /\ Cardinality(1..Len(hashes)) = Len(hashes)
    BY <1>1, UpTo
  <1>3. Leading(c, hashes) \in SUBSET (1..Len(hashes))
    BY <1>1 DEF Leading
  <1>4. IsFiniteSet(Leading(c, hashes)) /\ Cardinality(Leading(c, hashes)) <= Len(hashes)
    BY <1>2, <1>3, FS_Subset
  <1> QED BY <1>1, <1>4, FS_CardinalityType DEF Lookup

\* A score is a whole number, at most what matching the whole prompt earns.
LEMMA ScoreFacts ==
    ASSUME Typed, NEW hashes \in Chains, NEW r \in Replicas
    PROVE  /\ Score(r, hashes) \in Int
           /\ Alpha * Len(hashes) - Score(r, hashes) \in Nat
  <1>1. inflight[r] \in Nat /\ Alpha \in Nat /\ Beta \in Nat
    BY SchedulerAssumption DEF Typed, SchedulerTypeOK
  <1>2. Beta * inflight[r] \in Nat
    BY <1>1
  <1>3. /\ Alpha * Lookup(cache[r], hashes) \in Nat
        /\ Alpha * Len(hashes) \in Nat
        /\ Alpha * Lookup(cache[r], hashes) <= Alpha * Len(hashes)
    BY <1>1, LookupFacts, Monotone
  <1> QED BY <1>2, <1>3 DEF Score

\* The first of the replicas with the least value of a measure.
LEMMA FirstLeast ==
    ASSUME NEW S \in SUBSET Replicas, S # {}, NEW f \in [Replicas -> Nat]
    PROVE  \E r \in S : \A q \in S : f[r] <= f[q] /\ (q < r => f[r] < f[q])
  <1> DEFINE Values == {f[q] : q \in S}
  <1>1. Values \in SUBSET Nat /\ Values # {}
    OBVIOUS
  <1>2. PICK m \in Values : \A n \in Values : m <= n
    BY <1>1, LeastNat
  <1> DEFINE Least == {q \in S : f[q] = m}
  <1>3. Least \in SUBSET Nat /\ Least # {}
    BY <1>2, ReplicaFacts
  <1> HIDE DEF Least
  <1>4. PICK r \in Least : \A q \in Least : r <= q
    BY <1>3, LeastNat
  <1> USE DEF Least
  <1>5. r \in S /\ f[r] = m
    BY <1>4
  <1>6. ASSUME NEW q \in S PROVE f[r] <= f[q] /\ (q < r => f[r] < f[q])
    <2>1. f[q] \in Values /\ f[q] \in Nat /\ f[r] \in Nat /\ q \in Nat /\ r \in Nat
      BY <1>5, ReplicaFacts
    <2>2. m <= f[q]
      BY <1>2, <2>1
    <2>3. f[q] = m => r <= q
      BY <1>4
    <2> QED BY <1>5, <2>1, <2>2, <2>3
  <1> QED BY <1>5, <1>6

\* No two replicas are as far from the next one in the scan.
LEMMA SameOffset ==
    ASSUME NEW n \in Nat, NEW k \in Nat, NEW q \in Nat, NEW r \in Nat,
           q < n, r < n, k < n,
           (IF q < k THEN q + n - k ELSE q - k) = (IF r < k THEN r + n - k ELSE r - k)
    PROVE  q = r
  <1>1. CASE q < k /\ r < k
    BY <1>1
  <1>2. CASE q < k /\ ~(r < k)
    BY <1>2
  <1>3. CASE ~(q < k) /\ r < k
    BY <1>3
  <1>4. CASE ~(q < k) /\ ~(r < k)
    BY <1>4
  <1> QED BY <1>1, <1>2, <1>3, <1>4

\* Each of the three rules finds one replica if any is available.
LEMMA ScanFindsOne ==
    ASSUME Typed, Available # {}
    PROVE  \E r \in FirstInScan : \A q \in FirstInScan : q = r
  <1>1. Available \subseteq Replicas /\ rrNext \in Replicas
    BY DEF Available, Healthy, Typed, SchedulerTypeOK
  <1> DEFINE f == [q \in Replicas |-> ScanOffset(q)]
  <1>2. f \in [Replicas -> Nat]
    BY <1>1, OffsetFacts
  <1> HIDE DEF f
  <1>3. PICK r \in Available : \A q \in Available : f[r] <= f[q]
    BY <1>1, <1>2, FirstLeast
  <1>4. r \in FirstInScan
    BY <1>1, <1>3 DEF FirstInScan, f
  <1>5. ASSUME NEW q \in FirstInScan PROVE q = r
    <2>1. /\ ScanOffset(q) \in Int /\ ScanOffset(r) \in Int
          /\ ScanOffset(q) <= ScanOffset(r) /\ ScanOffset(r) <= ScanOffset(q)
      BY <1>1, <1>4, OffsetFacts DEF FirstInScan
    <2>2. q \in Replicas /\ r \in Replicas /\ ScanOffset(q) = ScanOffset(r)
      BY <1>1, <2>1 DEF FirstInScan
    <2>3. /\ ScanOffset(q) = (IF q < rrNext THEN q + NumReplicas - rrNext ELSE q - rrNext)
          /\ ScanOffset(r) = (IF r < rrNext THEN r + NumReplicas - rrNext ELSE r - rrNext)
      BY <1>1, <2>2, OffsetFacts
    <2>4. /\ q \in Nat /\ r \in Nat /\ rrNext \in Nat /\ NumReplicas \in Nat
          /\ q < NumReplicas /\ r < NumReplicas /\ rrNext < NumReplicas
      BY <1>1, <2>2, ReplicaFacts
    <2> QED BY <2>2, <2>3, <2>4, SameOffset
  <1> QED BY <1>4, <1>5

LEMMA LeastLoadedIsOne ==
    ASSUME Typed, Available # {}
    PROVE  \E r \in LeastLoaded : \A q \in LeastLoaded : q = r
  <1>1. Available \subseteq Replicas /\ inflight \in [Replicas -> Nat]
    BY DEF Available, Healthy, Typed, SchedulerTypeOK
  <1>2. PICK r \in Available : \A q \in Available :
            inflight[r] <= inflight[q] /\ (q < r => inflight[r] < inflight[q])
    BY <1>1, FirstLeast
  <1>3. r \in LeastLoaded
    BY <1>2 DEF LeastLoaded
  <1>4. ASSUME NEW q \in LeastLoaded PROVE q = r
    <2>1. q \in Available /\ q \in Nat /\ r \in Nat /\ inflight[q] \in Nat /\ inflight[r] \in Nat
      BY <1>1, ReplicaFacts DEF LeastLoaded
    <2>2. /\ inflight[r] <= inflight[q] /\ (q < r => inflight[r] < inflight[q])
          /\ inflight[q] <= inflight[r] /\ (r < q => inflight[q] < inflight[r])
      BY <1>2, <2>1 DEF LeastLoaded
    <2> QED BY <2>1, <2>2
  <1> QED BY <1>3, <1>4

LEMMA BestScoredIsOne ==
    ASSUME Typed, Available # {}, NEW hashes \in Chains
    PROVE  \E r \in BestScored(hashes) : \A q \in BestScored(hashes) : q = r
  <1>1. Available \subseteq Replicas
    BY DEF Available, Healthy
  <1> DEFINE top == Alpha * Len(hashes)
             f == [q \in Replicas |-> top - Score(q, hashes)]
  <1>2. f \in [Replicas -> Nat]
    BY ScoreFacts
  <1>3. top \in Int
    BY LookupFacts, SchedulerAssumption
  <1>4. \A q \in Replicas : f[q] = top - Score(q, hashes) /\ Score(q, hashes) \in Int
    BY ScoreFacts
  <1> HIDE DEF f, top
  <1>5. PICK r \in Available : \A q \in Available : f[r] <= f[q] /\ (q < r => f[r] < f[q])
    BY <1>1, <1>2, FirstLeast
  <1>6. r \in BestScored(hashes)
    BY <1>1, <1>3, <1>4, <1>5 DEF BestScored
  <1>7. ASSUME NEW q \in BestScored(hashes) PROVE q = r
    <2>1. /\ q \in Available /\ q \in Nat /\ r \in Nat
          /\ Score(q, hashes) \in Int /\ Score(r, hashes) \in Int
      BY <1>1, <1>4, ReplicaFacts DEF BestScored
    <2>2. /\ Score(q, hashes) <= Score(r, hashes) /\ (q < r => Score(q, hashes) < Score(r, hashes))
          /\ Score(r, hashes) <= Score(q, hashes) /\ (r < q => Score(r, hashes) < Score(q, hashes))
      BY <1>6, <2>1 DEF BestScored
    <2> QED BY <2>1, <2>2
  <1> QED BY <1>6, <1>7

\* pick finds exactly one replica when one is available, and none otherwise,
\* so that neither the expect of the scan nor the index and the unwrap of the
\* cache-aware branch can panic (scheduler.rs:130-186).
THEOREM PickNeverPanics == Spec => []PickIsTotal
  <1>1. Typed => PickIsTotal
    <2> SUFFICES ASSUME Typed, NEW hashes \in Chains
                 PROVE  Cardinality(Choice(hashes)) = (IF Available = {} THEN 0 ELSE 1)
      BY DEF PickIsTotal
    <2>1. CASE Available = {}
      <3>1. Choice(hashes) = {}
        BY <2>1, ChosenIsAvailable
      <3> QED BY <2>1, <3>1, FS_EmptySet
    <2>2. CASE Available # {}
      <3>1. \/ Choice(hashes) = FirstInScan
            \/ Choice(hashes) = LeastLoaded
            \/ Choice(hashes) = BestScored(hashes)
        BY DEF Choice, CacheAwareChoice
      <3>2. \E r \in Choice(hashes) : \A q \in Choice(hashes) : q = r
        BY <2>2, <3>1, ScanFindsOne, LeastLoadedIsOne, BestScoredIsOne
      <3>3. PICK r : Choice(hashes) = {r}
        BY <3>2
      <3> QED BY <2>2, <3>3, FS_Singleton
    <2> QED BY <2>1, <2>2
  <1> QED BY <1>1, TypeInit, TypeNext, PTL DEF Spec

\* Affinity buys no more load than the match is worth (scheduler.rs:152-185).
THEOREM SkewBounded == Spec => BoundedSkew
  <1>1. ASSUME Typed, NEW hashes \in Chains, NEW r \in Choice(hashes),
               Policy = "CacheAware", NEW l \in Available
        PROVE  Beta * (inflight[r] - inflight[l]) <= Alpha * MatchedBlocks(r, hashes)
    <2>1. /\ r \in Replicas /\ l \in Replicas /\ inflight[r] \in Nat /\ inflight[l] \in Nat
          /\ Alpha \in Nat /\ Beta \in Nat
      BY <1>1, ChosenIsAvailable, SchedulerAssumption DEF Typed, SchedulerTypeOK, Available, Healthy
    <2>2. MatchedBlocks(r, hashes) = Lookup(cache[r], hashes)
      BY <1>1 DEF MatchedBlocks
    <2>3. /\ Lookup(cache[r], hashes) \in Nat /\ Lookup(cache[l], hashes) \in Nat
          /\ Alpha * Lookup(cache[r], hashes) \in Nat /\ Alpha * Lookup(cache[l], hashes) \in Nat
          /\ Beta * inflight[r] \in Nat /\ Beta * inflight[l] \in Nat
      BY <2>1, LookupFacts
    <2>4. Beta * (inflight[r] - inflight[l]) = Beta * inflight[r] - Beta * inflight[l]
      BY <2>1
    <2>5. CASE r \in BestScored(hashes)
      <3>1. Score(l, hashes) <= Score(r, hashes)
        BY <2>5 DEF BestScored
      <3> QED BY <2>2, <2>3, <2>4, <3>1 DEF Score
    <2>6. CASE r \in LeastLoaded
      <3>1. inflight[r] <= inflight[l]
        BY <2>6 DEF LeastLoaded
      <3>2. Beta * inflight[r] <= Beta * inflight[l]
        BY <2>1, <3>1, Monotone
      <3> QED BY <2>2, <2>3, <2>4, <3>2
    <2> QED BY <1>1, <2>5, <2>6 DEF Choice, CacheAwareChoice
  <1>2. Typed /\ [Next]_vars =>
            [\A hashes \in Chains : \A r \in Choice(hashes) :
                Policy = "CacheAware" /\ PickOne(hashes, r) =>
                    \A l \in Available :
                        Beta * (inflight[r] - inflight[l]) <= Alpha * MatchedBlocks(r, hashes)]_vars
    BY <1>1
  <1> QED BY <1>2, TypeInit, TypeNext, PTL DEF Spec, BoundedSkew
=============================================================================
