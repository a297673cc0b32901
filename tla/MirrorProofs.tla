----------------------------- MODULE MirrorProofs -----------------------------
(***************************************************************************)
(* The router's pictures agree with the replicas' caches, for every set of *)
(* prompts, any number of replicas, any two budgets and any delays, losses *)
(* and restarts: what the picture believes of the blocks routed in order,  *)
(* the replica will have, and what was promised of them is found.          *)
(*                                                                         *)
(* The argument is the inclusion property of LRU: whether a block is kept  *)
(* depends only on the blocks more recent than it and on the budget, and   *)
(* a prompt changes those in the same way in every cache it comes to.      *)
(***************************************************************************)
EXTENDS CacheMirror, PrefixCacheLemmas

\* The blocks that eviction takes after h.
Newer(c, h) ==
    {g \in DOMAIN c.map : PopsBefore(CandidateOf(c.map, h), CandidateOf(c.map, g))}

\* The blocks of a prompt before h.
Preceding(hashes, h) ==
    {g \in Range(hashes) :
        \E i \in DOMAIN hashes, j \in DOMAIN hashes : j < i /\ hashes[i] = h /\ hashes[j] = g}

\* What a prompt does to a cache: pick to a picture, lookup_insert to a replica.
Taken(c, hashes, budget) == EvictTo(Insert(c, hashes), budget)

\* Newer, after the prompt.
NewerAfter(c, hashes, h) ==
    IF h \in Range(hashes) THEN Preceding(hashes, h) ELSE Newer(c, h) \cup Range(hashes)

\* A block is ahead of h in the heap, or newer than h, or h.
LEMMA NewerCount ==
    ASSUME NEW c, CacheInv(c), NEW h \in DOMAIN c.map
    PROVE  /\ Cardinality(Newer(c, h)) \in Nat
           /\ Rank(c)[h] \in Nat
           /\ Rank(c)[h] + Cardinality(Newer(c, h)) + 1 = NumBlocks(c)
  <1> DEFINE N == Newer(c, h)
             A == Ahead(c, h)
             D == DOMAIN c.map
  <1>1. IsFiniteSet(D) /\ N \subseteq D /\ A \subseteq D /\ h \in D
    BY MapFinite DEF Newer, Ahead
  <1>2. IsFiniteSet(N) /\ IsFiniteSet(A)
    BY <1>1, FS_Subset
  <1>3. Rank(c)[h] = Cardinality(A)
    BY DEF Rank
  <1>4. D = (A \cup N) \cup {h}
    BY EntriesComparable DEF Ahead, Newer
  <1>5. h \notin A /\ h \notin N /\ A \cap N = {}
    <2>1. ASSUME NEW g \in D
          PROVE  /\ CandidateOf(c.map, g).access \in Nat
                 /\ CandidateOf(c.map, g).seq \in Nat
      BY CurrentEntries
    <2> QED BY <2>1 DEF Ahead, Newer, PopsBefore
  <1> HIDE DEF N, A, D
  <1>6. /\ Cardinality(A \cup N) = Cardinality(A) + Cardinality(N) - Cardinality(A \cap N)
        /\ IsFiniteSet(A \cup N)
    BY <1>2, FS_Union
  <1>7. Cardinality(A \cap N) = 0
    BY <1>5, FS_EmptySet
  <1>8. Cardinality((A \cup N) \cup {h}) = Cardinality(A \cup N) + 1
    BY <1>5, <1>6, FS_AddElement
  <1>9. Cardinality(A) \in Nat /\ Cardinality(N) \in Nat
    BY <1>2, FS_CardinalityType
  <1> QED BY <1>3, <1>4, <1>6, <1>7, <1>8, <1>9 DEF NumBlocks, N, D

\* Eviction keeps the blocks with fewer newer ones than the budget, and among
\* them nothing changes.
LEMMA EvictKeepsNewest ==
    ASSUME NEW c, CacheInv(c), NEW budget \in Nat
    PROVE  LET d == EvictTo(c, budget)
           IN  /\ DOMAIN d.map = {h \in DOMAIN c.map : Cardinality(Newer(c, h)) < budget}
               /\ \A h \in DOMAIN d.map : Newer(d, h) = Newer(c, h)
  <1> DEFINE d == EvictTo(c, budget)
             keep == {h \in DOMAIN c.map : CandidateOf(c.map, h) \notin Popped(c, budget)}
  <1>1. d.map = Restrict(c.map, keep)
    BY DEF EvictTo
  <1>2. DOMAIN d.map = keep /\ \A h \in keep : d.map[h] = c.map[h]
    BY <1>1 DEF Restrict
  <1>3. ASSUME NEW h \in DOMAIN c.map
        PROVE  h \in keep <=> Cardinality(Newer(c, h)) < budget
    <2>1. CandidateOf(c.map, h) \in Popped(c, budget) <=> Rank(c)[h] < NumBlocks(c) - budget
      BY CurrentEntries, LiveAhead DEF Popped
    <2>2. NumBlocks(c) \in Nat
      BY MapFinite
    <2>3. /\ Cardinality(Newer(c, h)) \in Nat
          /\ Rank(c)[h] \in Nat
          /\ Rank(c)[h] + Cardinality(Newer(c, h)) + 1 = NumBlocks(c)
      BY NewerCount
    <2> QED BY <2>1, <2>2, <2>3
  <1>4. ASSUME NEW h \in keep PROVE Newer(d, h) = Newer(c, h)
    <2>1. ASSUME NEW g \in Newer(c, h) PROVE g \in keep
      <3>1. /\ CandidateOf(c.map, g) \in c.heap /\ CandidateOf(c.map, h) \in c.heap
            /\ PopsBefore(CandidateOf(c.map, h), CandidateOf(c.map, g))
            /\ g \in DOMAIN c.map
        BY CurrentEntries DEF Newer
      <3>2. CandidateOf(c.map, h) \notin Popped(c, budget)
        OBVIOUS
      <3> QED BY <3>1, <3>2, PoppedIsInitial
    <2>2. \A g \in keep : CandidateOf(d.map, g) = CandidateOf(c.map, g)
      BY <1>2 DEF CandidateOf
    <2>3. keep \subseteq DOMAIN c.map
      OBVIOUS
    <2> HIDE DEF keep, d
    <2> QED BY <1>2, <2>1, <2>2, <2>3 DEF Newer
  <1> HIDE DEF d
  <1>5. \A h \in DOMAIN d.map : Newer(d, h) = Newer(c, h)
    BY <1>2, <1>4
  <1>6. DOMAIN d.map = {h \in DOMAIN c.map : Cardinality(Newer(c, h)) < budget}
    BY <1>2, <1>3
  <1> QED BY <1>5, <1>6 DEF d

\* Within one tick the deeper block is the older; every block of an earlier
\* tick is older than the whole prompt.
LEMMA InsertRenews ==
    ASSUME NEW c, CacheInv(c), NEW hashes \in Chains \cup {<<>>}
    PROVE  LET d == Insert(c, hashes)
           IN  /\ CacheInv(d)
               /\ DOMAIN d.map = DOMAIN c.map \cup Range(hashes)
               /\ \A h \in DOMAIN d.map : Newer(d, h) = NewerAfter(c, hashes, h)
  <1> DEFINE d == Insert(c, hashes)
             blocks == {hashes[i] : i \in DOMAIN hashes}
             map == TouchedMap(c, hashes, blocks)
  <1>1. CacheInv(d) /\ DOMAIN d.map = DOMAIN c.map \cup blocks
    BY InsertFacts
  <1>2. d.map = map
    <2>1. d = CompactIfBloated(Pushed(c, hashes, FALSE))
      BY DEF Insert, Touch, Pushed
    <2>2. Pushed(c, hashes, FALSE).map = map
      BY DEF Pushed, Walked
    <2> QED BY <2>1, <2>2, CompactKeepsMap
  <1>3. Range(hashes) = blocks
    BY DEF Range
  <1>4. /\ \A i \in DOMAIN hashes : map[hashes[i]].access = c.clock + 1
        /\ \A i \in DOMAIN hashes : map[hashes[i]].seq = c.seq + i
        /\ \A h \in DOMAIN c.map \ blocks : map[h] = c.map[h]
    <2> DEFINE W == Walked(c, hashes, FALSE)
               walked == {hashes[i] : i \in W}
               stamped == TouchedMap(c, hashes, walked)
    <2>1. W \in SUBSET (DOMAIN hashes) /\ IsFiniteSet(W)
      BY WalkedFacts
    <2>2. /\ \A i \in W : stamped[hashes[i]].access = c.clock + 1
          /\ \A i \in W : stamped[hashes[i]].seq = c.seq + i
          /\ \A h \in DOMAIN c.map \ walked : stamped[h] = c.map[h]
      BY <2>1, StampFacts
    <2>3. W = DOMAIN hashes
      BY DEF Walked
    <2>4. stamped = map /\ walked = blocks
      BY <2>3
    <2> HIDE DEF W, stamped, map, walked, blocks
    <2> QED BY <2>2, <2>3, <2>4
  <1>5. /\ c.clock \in Nat /\ c.seq \in Nat
        /\ \A h \in DOMAIN c.map : c.map[h].access \in Nat /\ c.map[h].access <= c.clock
                                   /\ c.map[h].seq \in Nat
    BY DEF CacheInv, CacheTypeOK, Stamp
  <1>6. \A h : /\ CandidateOf(d.map, h).access = map[h].access
               /\ CandidateOf(d.map, h).seq = map[h].seq
    BY <1>2 DEF CandidateOf
  <1>7. \A h : /\ CandidateOf(c.map, h).access = c.map[h].access
               /\ CandidateOf(c.map, h).seq = c.map[h].seq
    BY DEF CandidateOf
  <1>8. \A i \in DOMAIN hashes : i \in Nat
    BY ChainFacts
  <1>11. DOMAIN d.map = DOMAIN c.map \cup Range(hashes)
    BY <1>1, <1>3
  <1> HIDE DEF d, map
  <1>9. ASSUME NEW h \in Range(hashes) PROVE Newer(d, h) = Preceding(hashes, h)
    <2>1. PICK i \in DOMAIN hashes : h = hashes[i]
      BY <1>3
    <2>2. \A j \in DOMAIN hashes : hashes[j] = h => j = i
      BY <2>1, PromptsAgree
    <2>3. ASSUME NEW g \in DOMAIN c.map \ blocks
          PROVE  ~PopsBefore(CandidateOf(d.map, h), CandidateOf(d.map, g))
      BY <1>4, <1>5, <1>6, <2>1 DEF PopsBefore
    <2>4. ASSUME NEW j \in DOMAIN hashes
          PROVE  PopsBefore(CandidateOf(d.map, h), CandidateOf(d.map, hashes[j])) <=> j < i
      <3>1. /\ CandidateOf(d.map, h).access = c.clock + 1
            /\ CandidateOf(d.map, hashes[j]).access = c.clock + 1
            /\ CandidateOf(d.map, h).seq = c.seq + i
            /\ CandidateOf(d.map, hashes[j]).seq = c.seq + j
        BY <1>4, <1>6, <2>1
      <3> QED BY <1>5, <1>8, <3>1 DEF PopsBefore
    <2>5. ASSUME NEW g \in Newer(d, h) PROVE g \in Preceding(hashes, h)
      <3>1. g \in DOMAIN d.map /\ PopsBefore(CandidateOf(d.map, h), CandidateOf(d.map, g))
        BY DEF Newer
      <3>2. g \in blocks
        BY <1>1, <2>3, <3>1
      <3>3. PICK j \in DOMAIN hashes : g = hashes[j]
        BY <3>2
      <3> QED BY <1>3, <2>1, <2>4, <3>1, <3>2, <3>3 DEF Preceding
    <2>6. ASSUME NEW g \in Preceding(hashes, h) PROVE g \in Newer(d, h)
      <3>1. PICK k \in DOMAIN hashes, j \in DOMAIN hashes :
                j < k /\ hashes[k] = h /\ hashes[j] = g
        BY DEF Preceding
      <3>2. g \in DOMAIN d.map
        BY <1>1, <3>1
      <3> QED BY <2>2, <2>4, <3>1, <3>2 DEF Newer
    <2> QED BY <2>5, <2>6
  <1>10. ASSUME NEW h \in DOMAIN c.map, h \notin Range(hashes)
         PROVE  Newer(d, h) = Newer(c, h) \cup Range(hashes)
    <2>1. map[h] = c.map[h]
      BY <1>3, <1>4, <1>10
    <2>2. ASSUME NEW g \in Range(hashes)
          PROVE  PopsBefore(CandidateOf(d.map, h), CandidateOf(d.map, g))
      BY <1>3, <1>4, <1>5, <1>6, <2>1 DEF PopsBefore
    <2>3. ASSUME NEW g \in DOMAIN c.map, g \notin Range(hashes)
          PROVE  PopsBefore(CandidateOf(d.map, h), CandidateOf(d.map, g))
                   <=> PopsBefore(CandidateOf(c.map, h), CandidateOf(c.map, g))
      <3>1. map[g] = c.map[g]
        BY <1>3, <1>4, <2>3
      <3> QED BY <1>6, <1>7, <2>1, <3>1 DEF PopsBefore
    <2> QED BY <1>11, <2>2, <2>3 DEF Newer
  <1> QED BY <1>1, <1>9, <1>10, <1>11 DEF NewerAfter, d

LEMMA TakenFacts ==
    ASSUME NEW c, CacheInv(c), NEW hashes \in Chains \cup {<<>>}, NEW budget \in Nat
    PROVE  LET d == Taken(c, hashes, budget)
           IN  /\ CacheInv(d)
               /\ \A h : h \in DOMAIN d.map <=>
                      /\ h \in DOMAIN c.map \cup Range(hashes)
                      /\ Cardinality(NewerAfter(c, hashes, h)) < budget
               /\ \A h \in DOMAIN d.map : Newer(d, h) = NewerAfter(c, hashes, h)
  <1> DEFINE full == Insert(c, hashes)
             d == Taken(c, hashes, budget)
  <1>1. /\ CacheInv(full)
        /\ DOMAIN full.map = DOMAIN c.map \cup Range(hashes)
        /\ \A h \in DOMAIN full.map : Newer(full, h) = NewerAfter(c, hashes, h)
    BY InsertRenews
  <1> HIDE DEF full
  <1>2. CacheInv(EvictTo(full, budget))
    BY <1>1, EvictPreserves
  <1>3. LET e == EvictTo(full, budget)
        IN  /\ DOMAIN e.map = {h \in DOMAIN full.map : Cardinality(Newer(full, h)) < budget}
            /\ \A h \in DOMAIN e.map : Newer(e, h) = Newer(full, h)
    BY <1>1, EvictKeepsNewest
  <1>4. d = EvictTo(full, budget)
    BY DEF Taken, full
  <1> HIDE DEF d
  <1> QED BY <1>1, <1>2, <1>3, <1>4 DEF d
-----------------------------------------------------------------------------
\* Of the blocks in K, what X has Y has too, and behind the same newer ones.
Within(X, Y, K) ==
    \A h \in DOMAIN X.map \cap K : h \in DOMAIN Y.map /\ Newer(X, h) = Newer(Y, h)

\* A prompt that comes to both caches keeps it so, and brings its blocks in,
\* if Y's budget is no smaller.
LEMMA TakenTogether ==
    ASSUME NEW X, CacheInv(X), NEW Y, CacheInv(Y), NEW K,
           NEW hashes \in Chains \cup {<<>>}, NEW bx \in Nat, NEW by \in Nat,
           bx <= by, Within(X, Y, K)
    PROVE  Within(Taken(X, hashes, bx), Taken(Y, hashes, by), K \cup Range(hashes))
  <1> DEFINE XX == Taken(X, hashes, bx)
             YY == Taken(Y, hashes, by)
  <1>1. /\ \A h : h \in DOMAIN XX.map <=>
               /\ h \in DOMAIN X.map \cup Range(hashes)
               /\ Cardinality(NewerAfter(X, hashes, h)) < bx
        /\ \A h \in DOMAIN XX.map : Newer(XX, h) = NewerAfter(X, hashes, h)
    BY TakenFacts
  <1>2. /\ \A h : h \in DOMAIN YY.map <=>
               /\ h \in DOMAIN Y.map \cup Range(hashes)
               /\ Cardinality(NewerAfter(Y, hashes, h)) < by
        /\ \A h \in DOMAIN YY.map : Newer(YY, h) = NewerAfter(Y, hashes, h)
    BY TakenFacts
  <1> HIDE DEF XX, YY
  <1> SUFFICES ASSUME NEW h \in DOMAIN XX.map, h \in K \cup Range(hashes)
               PROVE  h \in DOMAIN YY.map /\ Newer(XX, h) = Newer(YY, h)
    BY DEF Within, XX, YY
  <1>3. h \in DOMAIN Y.map \cup Range(hashes) /\ NewerAfter(X, hashes, h) = NewerAfter(Y, hashes, h)
    BY <1>1 DEF Within, NewerAfter
  <1>4. IsFiniteSet(NewerAfter(X, hashes, h))
    <2>1. IsFiniteSet(DOMAIN XX.map) /\ Newer(XX, h) \subseteq DOMAIN XX.map
      BY TakenFacts, MapFinite DEF XX, Newer
    <2> QED BY <1>1, <2>1, FS_Subset
  <1>5. Cardinality(NewerAfter(X, hashes, h)) \in Nat /\ Cardinality(NewerAfter(X, hashes, h)) < bx
    BY <1>1, <1>4, FS_CardinalityType
  <1>6. h \in DOMAIN YY.map
    BY <1>2, <1>3, <1>5
  <1> QED BY <1>1, <1>2, <1>3, <1>6
-----------------------------------------------------------------------------
\* The caches a replica goes through.

\* One stage follows from the other.
Follows(stage, n, c, requests) ==
    /\ stage[0] = c
    /\ \A k \in 1..n : stage[k] = LookupInsert(stage[k - 1], requests[k].hashes)

\* The equation that defines Stages, of n requests.
Solves(stage, c, requests, n) ==
    stage = [k \in 0..n |->
                IF k = 0 THEN c ELSE LookupInsert(stage[k - 1], requests[k].hashes)]

\* It has a solution, by induction on the number of requests.
LEMMA StagesExist ==
    ASSUME NEW c, NEW requests, NEW n \in Nat
    PROVE  \E stage : Solves(stage, c, requests, n)
  <1> DEFINE Unsolved == {m \in Nat : ~\E s : Solves(s, c, requests, m)}
  <1>1. \E s : Solves(s, c, requests, 0)
    <2> DEFINE s == [k \in 0..0 |-> c]
    <2>1. \A k \in 0..0 : k = 0
      OBVIOUS
    <2>2. Solves(s, c, requests, 0)
      BY <2>1 DEF Solves
    <2> QED BY <2>2
  <1>2. ASSUME NEW m \in Nat, NEW s, Solves(s, c, requests, m)
        PROVE  \E t : Solves(t, c, requests, m + 1)
    <2> DEFINE t == [k \in 0..(m + 1) |->
                        IF k = m + 1 THEN LookupInsert(s[m], requests[m + 1].hashes) ELSE s[k]]
    <2>1. \A k \in 0..m : s[k] = IF k = 0 THEN c ELSE LookupInsert(s[k - 1], requests[k].hashes)
      BY <1>2 DEF Solves
    <2>2. \A k \in 0..(m + 1) :
             t[k] = IF k = m + 1 THEN LookupInsert(s[m], requests[m + 1].hashes) ELSE s[k]
      OBVIOUS
    <2>3. DOMAIN t = 0..(m + 1) /\ t = [k \in 0..(m + 1) |-> t[k]]
      OBVIOUS
    <2> HIDE DEF t
    <2>4. ASSUME NEW k \in 0..(m + 1)
          PROVE  t[k] = IF k = 0 THEN c ELSE LookupInsert(t[k - 1], requests[k].hashes)
      <3>1. CASE k = 0
        BY <2>1, <2>2, <3>1
      <3>2. CASE k = m + 1
        <4>1. k - 1 = m /\ k # 0 /\ m \in 0..(m + 1) /\ m # m + 1
          BY <3>2
        <4>2. t[k - 1] = s[m]
          BY <2>2, <4>1
        <4> QED BY <2>2, <3>2, <4>1, <4>2
      <3>3. CASE k # 0 /\ k # m + 1
        <4>1. k \in 0..m /\ k - 1 \in 0..(m + 1) /\ k - 1 # m + 1
          BY <3>3
        <4>2. t[k] = s[k] /\ t[k - 1] = s[k - 1]
          BY <2>2, <3>3, <4>1
        <4> QED BY <2>1, <3>3, <4>1, <4>2
      <3> QED BY <3>1, <3>2, <3>3
    <2>5. Solves(t, c, requests, m + 1)
      BY <2>3, <2>4 DEF Solves
    <2> QED BY <2>5
  <1> SUFFICES ASSUME Unsolved # {} PROVE FALSE
    OBVIOUS
  <1>3. PICK m \in Unsolved : \A k \in Unsolved : m <= k
    <2>1. Unsolved \in SUBSET Nat
      OBVIOUS
    <2> HIDE DEF Unsolved
    <2> QED BY <2>1, LeastNat
  <1>4. m \in Nat /\ m # 0
    BY <1>1
  <1>5. m - 1 \in Nat /\ m - 1 \notin Unsolved /\ (m - 1) + 1 = m
    BY <1>3, <1>4
  <1> QED BY <1>2, <1>5

LEMMA StagesFollow ==
    ASSUME NEW c, NEW M, NEW requests \in Seq(M)
    PROVE  Follows(Stages(c, requests), Len(requests), c, requests)
  <1> DEFINE n == Len(requests)
             stage == Stages(c, requests)
  <1>1. n \in Nat
    OBVIOUS
  <1> HIDE DEF n
  <1>2. \E s : Solves(s, c, requests, n)
    BY <1>1, StagesExist
  <1>3. stage = [k \in 0..n |->
               IF k = 0 THEN c ELSE LookupInsert(stage[k - 1], requests[k].hashes)]
    BY <1>2 DEF Stages, Solves, n
  <1> HIDE DEF stage
  <1>4. stage[0] = c
    BY <1>1, <1>3
  <1>5. ASSUME NEW k \in 1..n PROVE stage[k] = LookupInsert(stage[k - 1], requests[k].hashes)
    <2>1. k \in 0..n /\ k # 0
      BY <1>1
    <2> QED BY <1>3, <2>1
  <1> QED BY <1>4, <1>5 DEF Follows, stage, n

\* Where the requests are the same, so are the stages.
LEMMA SameStages ==
    ASSUME NEW s, NEW t, NEW c, NEW x, NEW y, NEW n \in Nat,
           Follows(s, n, c, x), Follows(t, n, c, y),
           \A k \in 1..n : x[k] = y[k]
    PROVE  \A k \in 0..n : s[k] = t[k]
  <1> DEFINE Wrong == {k \in 0..n : s[k] # t[k]}
  <1> SUFFICES ASSUME Wrong # {} PROVE FALSE
    OBVIOUS
  <1>1. PICK k \in Wrong : \A j \in Wrong : k <= j
    <2>1. Wrong \in SUBSET Nat
      OBVIOUS
    <2> HIDE DEF Wrong
    <2> QED BY <2>1, LeastNat
  <1>2. k \in 0..n /\ k # 0
    BY DEF Follows
  <1>3. k - 1 \in 0..n /\ k \in 1..n /\ k - 1 \notin Wrong
    BY <1>1, <1>2
  <1>4. s[k - 1] = t[k - 1] /\ x[k] = y[k]
    BY <1>3
  <1> QED BY <1>2, <1>3, <1>4 DEF Follows

\* Every stage is a cache that the methods can build.
LEMMA StagesAreCaches ==
    ASSUME NEW s, NEW c, CacheInv(c), NEW x, NEW n \in Nat, Follows(s, n, c, x),
           \A k \in 1..n : x[k].hashes \in Chains
    PROVE  \A k \in 0..n : CacheInv(s[k])
  <1> DEFINE Wrong == {k \in 0..n : ~CacheInv(s[k])}
  <1> SUFFICES ASSUME Wrong # {} PROVE FALSE
    OBVIOUS
  <1>1. PICK k \in Wrong : \A j \in Wrong : k <= j
    <2>1. Wrong \in SUBSET Nat
      OBVIOUS
    <2> HIDE DEF Wrong
    <2> QED BY <2>1, LeastNat
  <1>2. k \in 0..n /\ k # 0
    BY DEF Follows
  <1>3. k - 1 \in 0..n /\ k \in 1..n /\ k - 1 \notin Wrong
    BY <1>1, <1>2
  <1>4. CacheInv(s[k - 1]) /\ x[k].hashes \in Chains
    BY <1>3
  <1>5. s[k] = Taken(s[k - 1], x[k].hashes, Capacity)
    BY <1>3 DEF Follows, LookupInsert, EvictOverCapacity, Taken
  <1>6. CacheInv(Taken(s[k - 1], x[k].hashes, Capacity))
    BY <1>4, CapacityAssumption, TakenFacts
  <1> QED BY <1>5, <1>6
-----------------------------------------------------------------------------
\* One replica: c is the router's picture of it, s its cache, m what is on its
\* way, conf and mirr the two histories.
Requests == [hashes : Chains, promise : Nat]

Caches(c, s, m) == CacheInv(c) /\ CacheInv(s) /\ m \in Seq(Requests)

PromiseKept(stage, request) == request.promise <= CachedBlocks(stage, request.hashes)

Agrees(c, s, m, conf, mirr) ==
    /\ BlockBudget <= Capacity =>
           /\ Within(c, Stages(s, m)[Len(m)], conf)
           /\ \A k \in 1..Len(m) : PromiseKept(Stages(s, m)[k - 1], m[k])
    /\ BlockBudget >= Capacity => Within(Stages(s, m)[Len(m)], c, mirr)

LEMMA Budgets == BlockBudget \in Nat /\ Capacity \in Nat
  BY SchedulerAssumption, CapacityAssumption

\* What is on its way, and the stages it leads through.
LEMMA MailFacts ==
    ASSUME NEW c, NEW s, NEW m, Caches(c, s, m)
    PROVE  /\ Len(m) \in Nat
           /\ Follows(Stages(s, m), Len(m), s, m)
           /\ \A k \in 1..Len(m) : m[k] \in Requests /\ m[k].hashes \in Chains
           /\ \A k \in 0..Len(m) : CacheInv(Stages(s, m)[k])
  <1>1. m \in Seq(Requests) /\ CacheInv(s)
    BY DEF Caches
  <1>2. Len(m) \in Nat
    BY <1>1
  <1>3. Follows(Stages(s, m), Len(m), s, m)
    BY <1>1, StagesFollow
  <1>4. \A k \in 1..Len(m) : m[k] \in Requests
    BY <1>1
  <1>5. \A k \in 1..Len(m) : m[k].hashes \in Chains
    BY <1>4 DEF Requests
  <1>6. \A k \in 0..Len(m) : CacheInv(Stages(s, m)[k])
    BY <1>1, <1>2, <1>3, <1>5, StagesAreCaches
  <1> QED BY <1>2, <1>3, <1>4, <1>5, <1>6

LEMMA LeadingFinite ==
    ASSUME NEW c, NEW hashes \in Chains
    PROVE  IsFiniteSet(Leading(c, hashes)) /\ Lookup(c, hashes) \in Nat
  <1>1. DOMAIN hashes = 1..Len(hashes) /\ Len(hashes) \in Nat
    BY ChainFacts
  <1>2. IsFiniteSet(DOMAIN hashes)
    BY <1>1, FS_Interval
  <1>3. Leading(c, hashes) \subseteq DOMAIN hashes
    BY DEF Leading
  <1> QED BY <1>2, <1>3, FS_Subset, FS_CardinalityType DEF Lookup

\* pick: the prompt comes to the picture, and to the end of the line.
LEMMA RouteAgrees ==
    ASSUME NEW c, NEW s, NEW m, Caches(c, s, m), NEW conf, NEW mirr,
           Agrees(c, s, m, conf, mirr), NEW hashes \in Chains, NEW p,
           p = Cardinality({i \in Leading(c, hashes) : \A j \in 1..i : hashes[j] \in conf})
    PROVE  Agrees(Taken(c, hashes, BlockBudget), s,
                  Append(m, [hashes |-> hashes, promise |-> p]),
                  conf \cup Range(hashes), mirr \cup Range(hashes))
  <1> DEFINE last == [hashes |-> hashes, promise |-> p]
             mm == Append(m, last)
             old == Stages(s, m)
             new == Stages(s, mm)
             n == Len(m)
             matched == {i \in Leading(c, hashes) : \A j \in 1..i : hashes[j] \in conf}
  <1>1. /\ n \in Nat /\ Follows(old, n, s, m)
        /\ \A k \in 0..n : CacheInv(old[k])
    BY MailFacts
  <1>2. matched \subseteq Leading(c, hashes) /\ IsFiniteSet(matched) /\ p \in Nat
    BY LeadingFinite, FS_Subset, FS_CardinalityType
  <1>3. last \in Requests /\ mm \in Seq(Requests) /\ Len(mm) = n + 1
        /\ (\A k \in 1..n : mm[k] = m[k]) /\ mm[n + 1] = last
    BY <1>2 DEF Caches, Requests
  <1> HIDE DEF last, mm
  <1>4. Follows(new, n + 1, s, mm)
    BY <1>3, StagesFollow
  <1> HIDE DEF old, new, n
  <1>5. Follows(new, n, s, mm)
    BY <1>1, <1>4 DEF Follows
  <1>6. \A k \in 0..n : new[k] = old[k]
    BY <1>1, <1>3, <1>5, SameStages
  <1>7. new[n + 1] = Taken(old[n], hashes, Capacity)
    <2>1. new[n + 1] = LookupInsert(new[n + 1 - 1], mm[n + 1].hashes)
      BY <1>1, <1>4 DEF Follows
    <2>2. n + 1 - 1 = n /\ mm[n + 1].hashes = hashes /\ new[n] = old[n]
      BY <1>1, <1>3, <1>6 DEF last
    <2> QED BY <2>1, <2>2 DEF LookupInsert, EvictOverCapacity, Taken
  <1>8. CacheInv(c) /\ CacheInv(old[n]) /\ hashes \in Chains \cup {<<>>}
    BY <1>1 DEF Caches
  <1>9. ASSUME BlockBudget <= Capacity
        PROVE  /\ Within(Taken(c, hashes, BlockBudget), new[n + 1], conf \cup Range(hashes))
               /\ \A k \in 1..(n + 1) : PromiseKept(new[k - 1], mm[k])
    <2>1. /\ Within(c, old[n], conf)
          /\ \A k \in 1..n : PromiseKept(old[k - 1], m[k])
      BY <1>9 DEF Agrees, old, n
    <2>2. Within(Taken(c, hashes, BlockBudget), new[n + 1], conf \cup Range(hashes))
      BY <1>7, <1>8, <1>9, <2>1, Budgets, TakenTogether
    <2>3. matched \subseteq Leading(old[n], hashes)
      BY <2>1 DEF Within, Leading
    <2>4. p <= CachedBlocks(old[n], hashes)
      <3>1. Cardinality(matched) <= Cardinality(Leading(old[n], hashes))
        BY <2>3, LeadingFinite, FS_Subset
      <3> QED BY <3>1 DEF CachedBlocks, Lookup
    <2>5. ASSUME NEW k \in 1..(n + 1) PROVE PromiseKept(new[k - 1], mm[k])
      <3>1. CASE k = n + 1
        <4>1. k - 1 = n /\ new[n] = old[n] /\ mm[k] = last
          BY <1>1, <1>3, <1>6, <3>1
        <4> QED BY <2>4, <4>1 DEF PromiseKept, last
      <3>2. CASE k # n + 1
        <4>1. k \in 1..n /\ k - 1 \in 0..n
          BY <1>1, <3>2
        <4> QED BY <1>3, <1>6, <2>1, <4>1
      <3> QED BY <3>1, <3>2
    <2> QED BY <2>2, <2>5
  <1>10. ASSUME BlockBudget >= Capacity
         PROVE  Within(new[n + 1], Taken(c, hashes, BlockBudget), mirr \cup Range(hashes))
    <2>1. Within(old[n], c, mirr)
      BY <1>10 DEF Agrees, old, n
    <2>2. Capacity <= BlockBudget
      BY <1>10, Budgets
    <2> QED BY <1>7, <1>8, <2>1, <2>2, Budgets, TakenTogether
  <1>11. Len(mm) = n + 1
    BY <1>3
  <1>12. Agrees(Taken(c, hashes, BlockBudget), s, mm, conf \cup Range(hashes), mirr \cup Range(hashes))
    BY <1>9, <1>10, <1>11 DEF Agrees, new
  <1> QED BY <1>12 DEF mm, last

LEMMA RemoveFacts ==
    ASSUME NEW S, NEW m \in Seq(S), NEW i \in 1..Len(m)
    PROVE  /\ RemoveAt(m, i) \in Seq(S)
           /\ Len(RemoveAt(m, i)) = Len(m) - 1
           /\ i = 1 => \A k \in 1..(Len(m) - 1) : RemoveAt(m, i)[k] = m[k + 1]
  <1> DEFINE front == SubSeq(m, 1, i - 1)
             back == SubSeq(m, i + 1, Len(m))
  <1>1. Len(m) \in Nat /\ i \in Nat /\ 1 <= i /\ i <= Len(m)
    OBVIOUS
  <1>2. front \in Seq(S) /\ Len(front) = i - 1
    <2>1. \A j \in 1..(i - 1) : m[j] \in S
      BY <1>1
    <2> QED BY <1>1, <2>1
  <1>3. back \in Seq(S) /\ Len(back) = Len(m) - i
    <2>1. \A j \in (i + 1)..Len(m) : m[j] \in S
      BY <1>1
    <2> QED BY <1>1, <2>1
  <1>4. \A k \in 1..(Len(m) - i) : back[k] = m[i + k]
    BY <1>1
  <1>5. RemoveAt(m, i) = front \o back
    BY DEF RemoveAt
  <1> HIDE DEF front, back
  <1>6. RemoveAt(m, i) \in Seq(S) /\ Len(RemoveAt(m, i)) = Len(m) - 1
    <2>1. front \o back \in Seq(S)
      BY <1>2, <1>3
    <2>2. Len(front \o back) = Len(front) + Len(back)
      BY <1>2, <1>3
    <2> QED BY <1>1, <1>2, <1>3, <1>5, <2>1, <2>2
  <1>7. ASSUME i = 1, NEW k \in 1..(Len(m) - 1) PROVE RemoveAt(m, i)[k] = m[k + 1]
    <2>1. (front \o back)[k] = back[k]
      BY <1>1, <1>2, <1>3, <1>7
    <2>2. back[k] = m[i + k] /\ i + k = k + 1
      BY <1>1, <1>4, <1>7
    <2> QED BY <1>5, <2>1, <2>2
  <1> QED BY <1>6, <1>7

\* The first request arrives: the stages ahead stay as they are.
LEMMA ArrivalAgrees ==
    ASSUME NEW c, NEW s, NEW m, Caches(c, s, m), NEW conf, NEW mirr,
           Agrees(c, s, m, conf, mirr), 1 \in 1..Len(m)
    PROVE  Agrees(c, LookupInsert(s, m[1].hashes), RemoveAt(m, 1), conf, mirr)
  <1> DEFINE n == Len(m)
             rest == RemoveAt(m, 1)
             t == LookupInsert(s, m[1].hashes)
             old == Stages(s, m)
             new == Stages(t, rest)
             shifted == [k \in 0..(n - 1) |-> old[k + 1]]
  <1>1. n \in Nat /\ n >= 1 /\ Follows(old, n, s, m)
    BY MailFacts
  <1>2. rest \in Seq(Requests) /\ Len(rest) = n - 1 /\ \A k \in 1..(n - 1) : rest[k] = m[k + 1]
    BY RemoveFacts DEF Caches
  <1> HIDE DEF rest
  <1>3. Follows(new, n - 1, t, rest)
    BY <1>2, StagesFollow
  <1> HIDE DEF n, old, new
  <1>4. Follows(shifted, n - 1, t, rest)
    <2>1. shifted[0] = t
      BY <1>1 DEF Follows
    <2>2. ASSUME NEW k \in 1..(n - 1)
          PROVE  shifted[k] = LookupInsert(shifted[k - 1], rest[k].hashes)
      <3>1. /\ k \in 0..(n - 1) /\ k - 1 \in 0..(n - 1) /\ k + 1 \in 1..n
            /\ (k - 1) + 1 = k /\ (k + 1) - 1 = k
        BY <1>1
      <3>2. shifted[k] = old[k + 1] /\ shifted[k - 1] = old[k]
        BY <3>1
      <3>3. old[k + 1] = LookupInsert(old[k], m[k + 1].hashes)
        BY <1>1, <3>1 DEF Follows
      <3> QED BY <1>2, <3>2, <3>3
    <2> QED BY <2>1, <2>2 DEF Follows
  <1> HIDE DEF t
  <1>5. \A k \in 0..(n - 1) : new[k] = old[k + 1]
    <2>1. n - 1 \in Nat
      BY <1>1
    <2>2. \A k \in 0..(n - 1) : shifted[k] = old[k + 1]
      OBVIOUS
    <2> HIDE DEF shifted
    <2>3. \A k \in 1..(n - 1) : rest[k] = rest[k]
      OBVIOUS
    <2>4. \A k \in 0..(n - 1) : new[k] = shifted[k]
      BY <1>3, <1>4, <2>1, <2>3, SameStages
    <2> QED BY <2>2, <2>4
  <1>6. new[n - 1] = old[n]
    <2>1. n - 1 \in 0..(n - 1) /\ (n - 1) + 1 = n
      BY <1>1
    <2> QED BY <1>5, <2>1
  <1>7. ASSUME BlockBudget <= Capacity, NEW k \in 1..(n - 1)
        PROVE  PromiseKept(new[k - 1], rest[k])
    <2>1. k - 1 \in 0..(n - 1) /\ k + 1 \in 1..n /\ (k - 1) + 1 = k /\ (k + 1) - 1 = k
      BY <1>1
    <2>2. PromiseKept(old[k], m[k + 1])
      BY <1>7, <2>1 DEF Agrees, old, n
    <2> QED BY <1>2, <1>5, <2>1, <2>2
  <1>8. Agrees(c, t, rest, conf, mirr)
    BY <1>2, <1>6, <1>7 DEF Agrees, old, new, n
  <1> QED BY <1>8 DEF t, rest

\* After a disturbance nothing is claimed.
LEMMA DisturbedAgrees ==
    ASSUME NEW c, NEW s, NEW m, Caches(c, s, m), \A k \in 1..Len(m) : m[k].promise = 0
    PROVE  Agrees(c, s, m, {}, {})
  <1>1. ASSUME NEW k \in 1..Len(m) PROVE PromiseKept(Stages(s, m)[k - 1], m[k])
    <2>1. m[k].promise = 0 /\ m[k].hashes \in Chains
      BY MailFacts
    <2>2. Lookup(Stages(s, m)[k - 1], m[k].hashes) \in Nat
      BY <2>1, LeadingFinite
    <2> QED BY <2>1, <2>2 DEF PromiseKept, CachedBlocks
  <1> QED BY <1>1 DEF Agrees, Within
-----------------------------------------------------------------------------
\* The inductive invariant: every replica's caches are caches the methods can
\* build, and they agree.
MirrorTyped ==
    /\ DOMAIN cache = Replicas /\ DOMAIN sim = Replicas /\ DOMAIN mail = Replicas
    /\ DOMAIN confirmed = Replicas /\ DOMAIN mirrored = Replicas

MirrorOK ==
    /\ MirrorTyped
    /\ \A r \in Replicas : Caches(cache[r], sim[r], mail[r])
    /\ \A r \in Replicas : Agrees(cache[r], sim[r], mail[r], confirmed[r], mirrored[r])

LEMMA ChosenIsReplica ==
    ASSUME NEW hashes, NEW r \in Choice(hashes)
    PROVE  r \in Replicas
  BY DEF Choice, FirstInScan, CacheAwareChoice, BestScored, LeastLoaded, Available, Healthy

LEMMA MirrorInitOK == MirrorInit => MirrorOK
  <1> SUFFICES ASSUME MirrorInit PROVE MirrorOK
    OBVIOUS
  <1>1. MirrorTyped
    BY DEF MirrorInit, SchedulerInit, MirrorTyped
  <1>2. ASSUME NEW r \in Replicas
        PROVE  /\ Caches(cache[r], sim[r], mail[r])
               /\ Agrees(cache[r], sim[r], mail[r], confirmed[r], mirrored[r])
    <2>1. /\ cache[r] = NewCache /\ sim[r] = NewCache /\ mail[r] = <<>>
          /\ confirmed[r] = {} /\ mirrored[r] = {}
      BY DEF MirrorInit, SchedulerInit, NewKvCache
    <2>2. <<>> \in Seq(Requests) /\ \A k \in 1..Len(<<>>) : <<>>[k].promise = 0
      OBVIOUS
    <2>3. Caches(NewCache, NewCache, <<>>)
      BY <2>2, NewCacheInv DEF Caches
    <2> QED BY <2>1, <2>2, <2>3, DisturbedAgrees
  <1> QED BY <1>1, <1>2 DEF MirrorOK

\* A step touches one replica; for the others nothing changes.
LEMMA OneReplica ==
    ASSUME MirrorOK, MirrorTyped', NEW r \in Replicas,
           \A q \in Replicas \ {r} :
               /\ cache'[q] = cache[q] /\ sim'[q] = sim[q] /\ mail'[q] = mail[q]
               /\ confirmed'[q] = confirmed[q] /\ mirrored'[q] = mirrored[q],
           Caches(cache'[r], sim'[r], mail'[r]),
           Agrees(cache'[r], sim'[r], mail'[r], confirmed'[r], mirrored'[r])
    PROVE  MirrorOK'
  <1>1. ASSUME NEW q \in Replicas
        PROVE  /\ Caches(cache'[q], sim'[q], mail'[q])
               /\ Agrees(cache'[q], sim'[q], mail'[q], confirmed'[q], mirrored'[q])
    <2>1. CASE q = r
      BY <2>1
    <2>2. CASE q # r
      <3>1. /\ cache'[q] = cache[q] /\ sim'[q] = sim[q] /\ mail'[q] = mail[q]
            /\ confirmed'[q] = confirmed[q] /\ mirrored'[q] = mirrored[q]
        BY <2>2
      <3>2. /\ Caches(cache[q], sim[q], mail[q])
            /\ Agrees(cache[q], sim[q], mail[q], confirmed[q], mirrored[q])
        BY DEF MirrorOK
      <3> QED BY <3>1, <3>2
    <2> QED BY <2>1, <2>2
  <1>2. \A q \in Replicas : Caches(cache'[q], sim'[q], mail'[q])
    BY <1>1
  <1>3. \A q \in Replicas : Agrees(cache'[q], sim'[q], mail'[q], confirmed'[q], mirrored'[q])
    BY <1>1
  <1>4. (\A q \in Replicas : Caches(cache[q], sim[q], mail[q]))'
    BY <1>2
  <1>5. (\A q \in Replicas : Agrees(cache[q], sim[q], mail[q], confirmed[q], mirrored[q]))'
    BY <1>3
  <1> QED BY <1>4, <1>5 DEF MirrorOK

LEMMA RouteOK ==
    ASSUME MirrorOK, NEW hashes \in Chains, NEW r \in Choice(hashes), Route(hashes, r)
    PROVE  MirrorOK'
  <1> USE DEF MirrorTyped
  <1>1. r \in Replicas /\ MirrorTyped /\ Caches(cache[r], sim[r], mail[r])
        /\ Agrees(cache[r], sim[r], mail[r], confirmed[r], mirrored[r])
    BY ChosenIsReplica DEF MirrorOK
  <1> DEFINE p == Promise(r, hashes)
             d == Taken(cache[r], hashes, BlockBudget)
             m == Append(mail[r], [hashes |-> hashes, promise |-> p])
  <1>2. cache' = [cache EXCEPT ![r] = d]
    BY MirrorAssumption DEF Route, Pick, Taken
  <1>3. /\ mail' = [mail EXCEPT ![r] = m] /\ sim' = sim
        /\ confirmed' = [confirmed EXCEPT ![r] = confirmed[r] \cup Range(hashes)]
        /\ mirrored' = [mirrored EXCEPT ![r] = mirrored[r] \cup Range(hashes)]
    BY <1>1 DEF Route
  <1> HIDE DEF d, m
  <1>4. MirrorTyped'
    BY <1>1, <1>2, <1>3
  <1>5. /\ cache'[r] = d /\ mail'[r] = m /\ sim'[r] = sim[r]
        /\ confirmed'[r] = confirmed[r] \cup Range(hashes)
        /\ mirrored'[r] = mirrored[r] \cup Range(hashes)
    BY <1>1, <1>2, <1>3
  <1>6. p = Cardinality({i \in Leading(cache[r], hashes) :
                            \A j \in 1..i : hashes[j] \in confirmed[r]})
    BY DEF Promise
  <1>7. p \in Nat
    <2>1. IsFiniteSet({i \in Leading(cache[r], hashes) :
                            \A j \in 1..i : hashes[j] \in confirmed[r]})
      BY LeadingFinite, FS_Subset
    <2> QED BY <1>6, <2>1, FS_CardinalityType
  <1> HIDE DEF p
  <1>8. Agrees(d, sim[r], m, confirmed[r] \cup Range(hashes), mirrored[r] \cup Range(hashes))
    BY <1>1, <1>6, RouteAgrees DEF d, m
  <1>9. CacheInv(d)
    <2>1. CacheInv(cache[r]) /\ hashes \in Chains \cup {<<>>}
      BY <1>1 DEF Caches
    <2> QED BY <2>1, Budgets, TakenFacts DEF d
  <1>10. m \in Seq(Requests)
    <2>1. [hashes |-> hashes, promise |-> p] \in Requests
      BY <1>7 DEF Requests
    <2> QED BY <1>1, <2>1 DEF m, Caches
  <1>11. Caches(d, sim[r], m)
    BY <1>1, <1>9, <1>10 DEF Caches
  <1>12. \A q \in Replicas \ {r} :
            /\ cache'[q] = cache[q] /\ sim'[q] = sim[q] /\ mail'[q] = mail[q]
            /\ confirmed'[q] = confirmed[q] /\ mirrored'[q] = mirrored[q]
    BY <1>1, <1>2, <1>3
  <1>13. Caches(cache'[r], sim'[r], mail'[r])
    BY <1>5, <1>11
  <1>14. Agrees(cache'[r], sim'[r], mail'[r], confirmed'[r], mirrored'[r])
    BY <1>5, <1>8
  <1> QED BY <1>1, <1>4, <1>12, <1>13, <1>14, OneReplica

\* What a disturbance leaves on its way promises nothing.
LEMMA Unpromised ==
    ASSUME NEW rest \in Seq(Requests)
    PROVE  LET m == [k \in DOMAIN rest |-> [rest[k] EXCEPT !.promise = 0]]
           IN  m \in Seq(Requests) /\ \A k \in 1..Len(m) : m[k].promise = 0
  <1> DEFINE m == [k \in DOMAIN rest |-> [rest[k] EXCEPT !.promise = 0]]
  <1>1. DOMAIN rest = 1..Len(rest) /\ Len(rest) \in Nat
    OBVIOUS
  <1>2. ASSUME NEW k \in DOMAIN rest
        PROVE  [rest[k] EXCEPT !.promise = 0] \in Requests /\ [rest[k] EXCEPT !.promise = 0].promise = 0
    <2>1. rest[k] \in Requests
      OBVIOUS
    <2> QED BY <2>1 DEF Requests
  <1>3. m = [k \in 1..Len(rest) |-> m[k]] /\ \A k \in 1..Len(rest) : m[k] \in Requests /\ m[k].promise = 0
    BY <1>1, <1>2
  <1> HIDE DEF m
  <1>4. m \in Seq(Requests) /\ Len(m) = Len(rest)
    BY <1>1, <1>3
  <1> QED BY <1>3, <1>4 DEF m

\* OutOfOrder, with whatever cache the replica is left with.
LEMMA DisturbanceOK ==
    ASSUME MirrorOK, NEW r \in Replicas, NEW rest \in Seq(Requests), OutOfOrder(r, rest),
           UNCHANGED cache, NEW s, CacheInv(s),
           DOMAIN sim' = Replicas, sim'[r] = s, \A q \in Replicas \ {r} : sim'[q] = sim[q]
    PROVE  MirrorOK'
  <1> USE DEF MirrorTyped
  <1> DEFINE m == [k \in DOMAIN rest |-> [rest[k] EXCEPT !.promise = 0]]
  <1>1. m \in Seq(Requests) /\ \A k \in 1..Len(m) : m[k].promise = 0
    BY Unpromised
  <1>2. mail' = [mail EXCEPT ![r] = m] /\ confirmed' = [confirmed EXCEPT ![r] = {}]
        /\ mirrored' = [mirrored EXCEPT ![r] = {}]
    BY DEF OutOfOrder
  <1> HIDE DEF m
  <1>3. MirrorTyped /\ CacheInv(cache[r])
    BY DEF MirrorOK, Caches
  <1>4. MirrorTyped'
    BY <1>2, <1>3
  <1>5. /\ cache'[r] = cache[r] /\ sim'[r] = s /\ mail'[r] = m
        /\ confirmed'[r] = {} /\ mirrored'[r] = {}
    BY <1>2, <1>3
  <1>6. Caches(cache[r], s, m)
    BY <1>1, <1>3 DEF Caches
  <1>7. Agrees(cache[r], s, m, {}, {})
    BY <1>1, <1>6, DisturbedAgrees
  <1>8. \A q \in Replicas \ {r} :
            /\ cache'[q] = cache[q] /\ sim'[q] = sim[q] /\ mail'[q] = mail[q]
            /\ confirmed'[q] = confirmed[q] /\ mirrored'[q] = mirrored[q]
    BY <1>2, <1>3
  <1>9. Caches(cache'[r], sim'[r], mail'[r])
    BY <1>5, <1>6
  <1>10. Agrees(cache'[r], sim'[r], mail'[r], confirmed'[r], mirrored'[r])
    BY <1>5, <1>7
  <1> QED BY <1>4, <1>8, <1>9, <1>10, OneReplica

LEMMA ArrivesOK ==
    ASSUME MirrorOK, NEW r \in Replicas, NEW i \in DOMAIN mail[r], Arrives(r, i)
    PROVE  MirrorOK'
  <1> USE DEF MirrorTyped
  <1>1. MirrorTyped /\ Caches(cache[r], sim[r], mail[r])
        /\ Agrees(cache[r], sim[r], mail[r], confirmed[r], mirrored[r])
    BY DEF MirrorOK
  <1>2. i \in 1..Len(mail[r]) /\ mail[r] \in Seq(Requests)
    BY <1>1 DEF Caches
  <1> DEFINE rest == RemoveAt(mail[r], i)
             s == LookupInsert(sim[r], mail[r][i].hashes)
  <1>3. rest \in Seq(Requests)
    BY <1>2, RemoveFacts
  <1>4. CacheInv(s)
    <2>1. mail[r][i].hashes \in Chains \cup {<<>>}
      BY <1>1, <1>2, MailFacts
    <2>2. CacheInv(Taken(sim[r], mail[r][i].hashes, Capacity))
      BY <1>1, <2>1, Budgets, TakenFacts DEF Caches
    <2> QED BY <2>2 DEF LookupInsert, EvictOverCapacity, Taken
  <1>5. UNCHANGED cache /\ sim' = [sim EXCEPT ![r] = s]
    BY <1>1 DEF Arrives, schedVars
  <1>6. CASE i = 1
    <2>1. mail' = [mail EXCEPT ![r] = rest] /\ UNCHANGED <<confirmed, mirrored>>
      BY <1>6 DEF Arrives
    <2>2. Agrees(cache[r], s, rest, confirmed[r], mirrored[r])
      BY <1>1, <1>2, <1>6, ArrivalAgrees
    <2> HIDE DEF s, rest
    <2>3. /\ cache'[r] = cache[r] /\ sim'[r] = s /\ mail'[r] = rest
          /\ confirmed'[r] = confirmed[r] /\ mirrored'[r] = mirrored[r]
      BY <1>1, <1>5, <2>1
    <2>4. Caches(cache[r], s, rest)
      BY <1>1, <1>3, <1>4 DEF Caches
    <2>5. MirrorTyped'
      BY <1>1, <1>5, <2>1
    <2>6. \A q \in Replicas \ {r} :
             /\ cache'[q] = cache[q] /\ sim'[q] = sim[q] /\ mail'[q] = mail[q]
             /\ confirmed'[q] = confirmed[q] /\ mirrored'[q] = mirrored[q]
      BY <1>1, <1>5, <2>1
    <2>7. Caches(cache'[r], sim'[r], mail'[r])
      BY <2>3, <2>4
    <2>8. Agrees(cache'[r], sim'[r], mail'[r], confirmed'[r], mirrored'[r])
      BY <2>2, <2>3
    <2> QED BY <2>5, <2>6, <2>7, <2>8, OneReplica
  <1>7. CASE i # 1
    <2>1. OutOfOrder(r, rest)
      BY <1>7 DEF Arrives
    <2> HIDE DEF s, rest
    <2>2. DOMAIN sim' = Replicas /\ sim'[r] = s /\ \A q \in Replicas \ {r} : sim'[q] = sim[q]
      BY <1>1, <1>5
    <2> QED BY <1>3, <1>4, <1>5, <2>1, <2>2, DisturbanceOK
  <1> QED BY <1>6, <1>7

LEMMA LosesOK ==
    ASSUME MirrorOK, NEW r \in Replicas, NEW i \in DOMAIN mail[r], Loses(r, i)
    PROVE  MirrorOK'
  <1>1. DOMAIN sim = Replicas /\ CacheInv(sim[r]) /\ mail[r] \in Seq(Requests)
    BY DEF MirrorOK, MirrorTyped, Caches
  <1>2. RemoveAt(mail[r], i) \in Seq(Requests)
    <2>1. i \in 1..Len(mail[r])
      BY <1>1
    <2> QED BY <1>1, <2>1, RemoveFacts
  <1>3. OutOfOrder(r, RemoveAt(mail[r], i)) /\ UNCHANGED cache /\ sim' = sim
    BY DEF Loses, schedVars
  <1>4. DOMAIN sim' = Replicas /\ \A q \in Replicas : sim'[q] = sim[q]
    BY <1>1, <1>3
  <1> QED BY <1>1, <1>2, <1>3, <1>4, DisturbanceOK

LEMMA RestartsOK ==
    ASSUME MirrorOK, NEW r \in Replicas, Restarts(r)
    PROVE  MirrorOK'
  <1>1. OutOfOrder(r, <<>>) /\ UNCHANGED cache /\ sim' = [sim EXCEPT ![r] = NewCache]
    BY DEF Restarts, schedVars, NewKvCache
  <1>2. <<>> \in Seq(Requests)
    OBVIOUS
  <1>3. /\ DOMAIN sim' = Replicas /\ sim'[r] = NewCache
        /\ \A q \in Replicas \ {r} : sim'[q] = sim[q]
    BY <1>1 DEF MirrorOK, MirrorTyped
  <1> QED BY <1>1, <1>2, <1>3, NewCacheInv, DisturbanceOK

\* The picture is dropped: it believes nothing, and mirrors nothing.
LEMMA TakenDownOK ==
    ASSUME MirrorOK, NEW r \in Replicas, TakenDown(r)
    PROVE  MirrorOK'
  <1> USE DEF MirrorTyped
  <1>1. MirrorTyped /\ Caches(cache[r], sim[r], mail[r])
        /\ Agrees(cache[r], sim[r], mail[r], confirmed[r], mirrored[r])
    BY DEF MirrorOK
  <1>2. /\ cache' = [cache EXCEPT ![r] = NewCache] /\ mirrored' = [mirrored EXCEPT ![r] = {}]
        /\ UNCHANGED <<sim, mail, confirmed>>
    BY DEF TakenDown, MarkUnhealthy, replicaVars
  <1>3. MirrorTyped'
    BY <1>1, <1>2
  <1>4. /\ cache'[r] = NewCache /\ mirrored'[r] = {}
        /\ sim'[r] = sim[r] /\ mail'[r] = mail[r] /\ confirmed'[r] = confirmed[r]
    BY <1>1, <1>2
  <1>5. Caches(NewCache, sim[r], mail[r])
    BY <1>1, NewCacheInv DEF Caches
  <1>6. Agrees(NewCache, sim[r], mail[r], confirmed[r], {})
    <2>1. DOMAIN NewCache.map = {}
      BY DEF NewCache
    <2> QED BY <1>1, <2>1 DEF Agrees, Within
  <1>7. \A q \in Replicas \ {r} :
            /\ cache'[q] = cache[q] /\ sim'[q] = sim[q] /\ mail'[q] = mail[q]
            /\ confirmed'[q] = confirmed[q] /\ mirrored'[q] = mirrored[q]
    BY <1>1, <1>2
  <1>8. Caches(cache'[r], sim'[r], mail'[r])
    BY <1>4, <1>5
  <1>9. Agrees(cache'[r], sim'[r], mail'[r], confirmed'[r], mirrored'[r])
    BY <1>4, <1>6
  <1> QED BY <1>3, <1>7, <1>8, <1>9, OneReplica

LEMMA MirrorNextOK == MirrorOK /\ [MirrorNext]_mirrorVars => MirrorOK'
  <1> SUFFICES ASSUME MirrorOK, [MirrorNext]_mirrorVars PROVE MirrorOK'
    OBVIOUS
  <1>1. ASSUME UNCHANGED <<cache, sim, mail, confirmed, mirrored>> PROVE MirrorOK'
    BY <1>1 DEF MirrorOK, MirrorTyped
  <1>2. ASSUME NEW hashes \in Chains, NEW r \in Choice(hashes), Route(hashes, r) PROVE MirrorOK'
    BY <1>2, RouteOK
  <1>3. ASSUME NEW r \in Replicas, NEW i \in DOMAIN mail[r], Arrives(r, i) PROVE MirrorOK'
    BY <1>3, ArrivesOK
  <1>4. ASSUME NEW r \in Replicas, NEW i \in DOMAIN mail[r], Loses(r, i) PROVE MirrorOK'
    BY <1>4, LosesOK
  <1>5. ASSUME NEW r \in Replicas, Restarts(r) PROVE MirrorOK'
    BY <1>5, RestartsOK
  <1>6. ASSUME NEW r \in Replicas, Completes(r) PROVE MirrorOK'
    BY <1>1, <1>6 DEF Completes, Complete, historyVars
  <1>7. ASSUME NEW r \in Replicas, TakenDown(r) PROVE MirrorOK'
    BY <1>7, TakenDownOK
  <1>8. ASSUME NEW r \in Replicas, ReAdmitted(r) PROVE MirrorOK'
    BY <1>1, <1>8 DEF ReAdmitted, MarkHealthy, replicaVars, historyVars
  <1>9. CASE UNCHANGED mirrorVars
    BY <1>1, <1>9 DEF mirrorVars, schedVars, replicaVars, historyVars
  <1> QED BY <1>2, <1>3, <1>4, <1>5, <1>6, <1>7, <1>8, <1>9 DEF MirrorNext

LEMMA MirrorEverOK == MirrorSpec => []MirrorOK
  <1> QED BY MirrorInitOK, MirrorNextOK, PTL DEF MirrorSpec
-----------------------------------------------------------------------------
\* Of the blocks routed to a replica in order the router believes cached only
\* what the replica will have cached, whatever was dropped, delayed or
\* re-admitted in between (scheduler.rs:192-193, cache.rs:59-75).
THEOREM PictureStaysHonest == MirrorSpec => []PictureHonest
  <1>1. MirrorOK => PictureHonest
    BY DEF MirrorOK, Agrees, Within, PictureHonest, Believed, Actual, AfterMail
  <1> QED BY <1>1, MirrorEverOK, PTL

\* It misses nothing of what was routed since the picture was last dropped or
\* disturbed, if its budget is no smaller than the replica's capacity
\* (scheduler.rs:192-193, cache.rs:59-75).
THEOREM PictureStaysComplete == MirrorSpec => []PictureComplete
  <1>1. MirrorOK => PictureComplete
    BY DEF MirrorOK, Agrees, Within, PictureComplete, Believed, Actual, AfterMail
  <1> QED BY <1>1, MirrorEverOK, PTL

\* What a pick counted on, of blocks routed in order, the replica finds when
\* the request arrives (scheduler.rs:148-193, cache.rs:59-75).
THEOREM PromisesAreKept == MirrorSpec => []PromisesKept
  <1>1. MirrorOK => PromisesKept
    <2> SUFFICES ASSUME MirrorOK, BlockBudget <= Capacity, NEW r \in Replicas, mail[r] # <<>>
                 PROVE  Head(mail[r]).promise <= CachedBlocks(sim[r], Head(mail[r]).hashes)
      BY DEF PromisesKept
    <2>1. /\ Caches(cache[r], sim[r], mail[r])
          /\ Agrees(cache[r], sim[r], mail[r], confirmed[r], mirrored[r])
      BY DEF MirrorOK
    <2>2. mail[r] \in Seq(Requests)
      BY <2>1 DEF Caches
    <2>3. 1 \in 1..Len(mail[r]) /\ Head(mail[r]) = mail[r][1]
      BY <2>2
    <2>4. PromiseKept(Stages(sim[r], mail[r])[1 - 1], mail[r][1])
      BY <2>1, <2>3 DEF Agrees
    <2>5. Stages(sim[r], mail[r])[0] = sim[r]
      BY <2>1, MailFacts DEF Follows
    <2> QED BY <2>3, <2>4, <2>5 DEF PromiseKept
  <1> QED BY <1>1, MirrorEverOK, PTL
=============================================================================
