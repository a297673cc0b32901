------------------------------ MODULE KvCacheSim ------------------------------
(***************************************************************************)
(* The KV cache of a mock replica (crates/mock-triton/src/cache.rs), the   *)
(* ground truth that the router's PrefixCache guesses at.  The struct has  *)
(* the same map, heap, clock and counter; its one method looks a prompt up *)
(* and caches it in one tick.                                              *)
(***************************************************************************)
EXTENDS PrefixCache

CONSTANT Capacity   \* CACHE_BLOCKS

ASSUME CapacityAssumption == Capacity \in Nat

NewKvCache == NewCache

\* Mutant of EvictOverCapacity: an off-by-one in the loop's condition.
EvictAtCapacity(c) == EvictTo(c, IF Capacity = 0 THEN 0 ELSE Capacity - 1)

\* The loop is that of evict_to.
EvictOverCapacity(c) == EvictTo(c, Capacity)

\* What lookup_insert returns: the leading blocks that were there before it.
CachedBlocks(c, hashes) == Lookup(c, hashes)

\* Mutant of LookupInsert: blocks that are present are not refreshed.
LookupInsertMissing(c, hashes) ==
    EvictOverCapacity(Insert(c, SelectSeq(hashes, LAMBDA h : h \notin DOMAIN c.map)))

\* What it leaves behind: one tick stamps the whole prompt, present or not; the
\* heap is compacted; then the least recent blocks over capacity go.
LookupInsert(c, hashes) == EvictOverCapacity(Insert(c, hashes))
=============================================================================
