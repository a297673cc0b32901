----------------------------- MODULE PrefixCache -----------------------------
(***************************************************************************)
(* The router's approximate picture of one replica's KV cache              *)
(* (crates/router/src/prefix_cache.rs): a flat map from block hash to the  *)
(* block's last touch, with a lazily cleaned heap of eviction candidates.  *)
(*                                                                         *)
(* A cache is a value, the record [map, heap, clock, seq] of the Rust      *)
(* struct, and every method is an operator on that value: the module has   *)
(* no variables, so that PrefixCacheApi (one cache), Scheduler (one cache  *)
(* per replica) and the proofs all use the same definitions.               *)
(*                                                                         *)
(* A block is named by its chained hash.  The prompts are the sequences in *)
(* Chains.  Because hash i commits to blocks 0..i, a block occurs at one   *)
(* position only and determines everything before it (ChainsAssumption):   *)
(* this is the code's own premise, "modulo collisions" of FNV-1a.          *)
(***************************************************************************)
EXTENDS Integers, Sequences, FiniteSets, Functions

CONSTANTS
    Blocks,         \* block hashes
    Chains,         \* the hash lists of the prompts
    CompactFloor    \* COMPACT_FLOOR: 1024 in the code

ASSUME BlocksAssumption == IsFiniteSet(Blocks)

ASSUME ChainsAssumption ==
    /\ Chains \subseteq Seq(Blocks)
    /\ \A c, d \in Chains : \A i \in DOMAIN c, j \in DOMAIN d :
           c[i] = d[j] => i = j /\ \A k \in 1..i : c[k] = d[k]

ASSUME CompactFloorAssumption == CompactFloor \in Nat
-----------------------------------------------------------------------------
Stamp == [access : Nat, seq : Nat]

Candidate == [access : Nat, seq : Nat, hash : Blocks]

\* new() and default(): nothing cached, the clock at zero.
NewCache ==
    [map |-> [h \in {} |-> [access |-> 0, seq |-> 0]],
     heap |-> {}, clock |-> 0, seq |-> 0]

NumBlocks(c) == Cardinality(DOMAIN c.map)

\* The heap entry for what the map holds for h.
CandidateOf(map, h) == [access |-> map[h].access, seq |-> map[h].seq, hash |-> h]

\* Positions of the leading blocks that are present.
Leading(c, hashes) ==
    {i \in DOMAIN hashes : \A j \in 1..i : hashes[j] \in DOMAIN c.map}

\* lookup: how many leading blocks are present; it touches nothing.
Lookup(c, hashes) == Cardinality(Leading(c, hashes))

\* Compaction fires above this size of the heap.
CompactThreshold(c) ==
    2 * (IF NumBlocks(c) > CompactFloor THEN NumBlocks(c) ELSE CompactFloor)

\* Mutants of CompactIfBloated: never compact; keep the entries not in the map.
NeverCompact(c) == c
CompactKeepsStale(c) ==
    IF Cardinality(c.heap) > CompactThreshold(c)
    THEN [c EXCEPT !.heap = @ \ {CandidateOf(c.map, h) : h \in DOMAIN c.map}]
    ELSE c

\* Rebuild the heap from the map once it has outgrown it.
CompactIfBloated(c) ==
    IF Cardinality(c.heap) > CompactThreshold(c)
    THEN [c EXCEPT !.heap = {CandidateOf(c.map, h) : h \in DOMAIN c.map}]
    ELSE c

\* Positions the walk of touch covers: it stops at the first miss iff
\* onlyPresent.
Walked(c, hashes, onlyPresent) ==
    IF onlyPresent THEN Leading(c, hashes) ELSE DOMAIN hashes

\* The stamp a walked block gets: the new tick, and a seq that grows along the
\* chain.
NewStamp(c, hashes, h) ==
    [access |-> c.clock + 1,
     seq |-> c.seq + (CHOOSE i \in DOMAIN hashes : hashes[i] = h)]

TouchedMap(c, hashes, touched) ==
    [h \in DOMAIN c.map \cup touched |->
        IF h \in touched THEN NewStamp(c, hashes, h) ELSE c.map[h]]

\* One clock tick: stamp the walked blocks in chain order, push a heap entry
\* for each, then compact.
Touch(c, hashes, onlyPresent) ==
    LET walked == Walked(c, hashes, onlyPresent)
        touched == {hashes[i] : i \in walked}
        map == TouchedMap(c, hashes, touched)
    IN  CompactIfBloated([map |-> map,
                          heap |-> c.heap \cup {CandidateOf(map, h) : h \in touched},
                          clock |-> c.clock + 1,
                          seq |-> c.seq + Cardinality(walked)])

MatchPrefix(c, hashes) == Touch(c, hashes, TRUE)

\* Mutant of Insert: the clock does not advance.
InsertWithoutTick(c, hashes) == [Touch(c, hashes, FALSE) EXCEPT !.clock = c.clock]

Insert(c, hashes) == Touch(c, hashes, FALSE)

\* Mutants of PopsBefore: ancestors first within a tick; newest first.
ShallowFirst(e, f) ==
    \/ e.access < f.access
    \/ e.access = f.access /\ e.seq < f.seq
NewestFirst(e, f) ==
    \/ e.access > f.access
    \/ e.access = f.access /\ e.seq > f.seq

\* The order of BinaryHeap<(Reverse<access>, seq, hash)>::pop: the oldest
\* access first, and within one tick the largest seq, the deepest block.
\* (Two entries never share a seq, so the hash is never compared.)
PopsBefore(e, f) ==
    \/ e.access < f.access
    \/ e.access = f.access /\ e.seq > f.seq

\* An entry is stale once the map holds another stamp for its block.
IsLive(c, e) == e.hash \in DOMAIN c.map /\ CandidateOf(c.map, e.hash) = e

\* The entries evict_to pops.  One is popped iff the live entries that pop
\* before it are fewer than the excess, for then the loop has not ended when
\* it comes to the top; if the heap runs dry, all of it is popped.
\* (PrefixCacheLoops states the loop itself and TLC compares the two.)
Popped(c, budget) ==
    {e \in c.heap :
        Cardinality({f \in c.heap : IsLive(c, f) /\ PopsBefore(f, e)})
            < NumBlocks(c) - budget}

\* Mutants of EvictTo: stale entries count as evictions; the loop removes from
\* the heap only what it evicts.
EvictToCountsStale(c, budget) ==
    LET popped == {e \in c.heap :
                     Cardinality({f \in c.heap : PopsBefore(f, e)}) < NumBlocks(c) - budget}
    IN  [c EXCEPT !.map = Restrict(@, {h \in DOMAIN @ : CandidateOf(c.map, h) \notin popped}),
                  !.heap = @ \ popped]
EvictToLeavesStale(c, budget) ==
    LET popped == Popped(c, budget)
    IN  [c EXCEPT !.map = Restrict(@, {h \in DOMAIN @ : CandidateOf(c.map, h) \notin popped}),
                  !.heap = @ \ {e \in popped : IsLive(c, e)}]

\* evict_to: remove the block of each live entry popped.
EvictTo(c, budget) ==
    LET keep == {h \in DOMAIN c.map : CandidateOf(c.map, h) \notin Popped(c, budget)}
    IN  [map |-> Restrict(c.map, keep), heap |-> c.heap \ Popped(c, budget),
         clock |-> c.clock, seq |-> c.seq]
-----------------------------------------------------------------------------
\* What holds of every cache the methods can build.  CacheInv is inductive:
\* PrefixCacheProofs shows that every method preserves it.

\* The fields of the struct: a map from some blocks to stamps, a finite heap
\* of candidates, and two counters no smaller than any stamp handed out.
CacheTypeOK(c) ==
    /\ c = [map |-> c.map, heap |-> c.heap, clock |-> c.clock, seq |-> c.seq]
    /\ DOMAIN c.map \subseteq Blocks
    /\ c.map \in [DOMAIN c.map -> Stamp]
    /\ c.heap \subseteq Candidate /\ IsFiniteSet(c.heap)
    /\ c.clock \in Nat /\ c.seq \in Nat
    /\ \A h \in DOMAIN c.map : c.map[h].access <= c.clock /\ c.map[h].seq <= c.seq
    /\ \A e \in c.heap : e.access <= c.clock /\ e.seq <= c.seq

\* No block without every block before it in its chain.
PrefixClosed(c) ==
    \A d \in Chains : \A i \in DOMAIN d :
        d[i] \in DOMAIN c.map => \A j \in 1..i : d[j] \in DOMAIN c.map

\* Every block can still be evicted: the heap holds its current entry.
HeapCoversMap(c) == \A h \in DOMAIN c.map : CandidateOf(c.map, h) \in c.heap

\* Along a chain the deeper block always goes first.
DeeperGoesFirst(c) ==
    \A d \in Chains : \A i \in DOMAIN d : \A j \in 1..(i - 1) :
        d[i] \in DOMAIN c.map => PopsBefore(CandidateOf(c.map, d[i]), CandidateOf(c.map, d[j]))

\* No two blocks share a seq.
SeqsDistinct(c) ==
    \A g, h \in DOMAIN c.map : c.map[g].seq = c.map[h].seq => g = h

CacheInv(c) ==
    /\ CacheTypeOK(c)
    /\ PrefixClosed(c)
    /\ HeapCoversMap(c)
    /\ DeeperGoesFirst(c)
    /\ SeqsDistinct(c)
=============================================================================
