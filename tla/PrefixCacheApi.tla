---------------------------- MODULE PrefixCacheApi ----------------------------
(***************************************************************************)
(* One PrefixCache driven through its public interface in any order        *)
(* (crates/router/src/prefix_cache.rs): insert, match_prefix and evict_to. *)
(* lookup changes nothing.  The cache lives behind the scheduler's mutex,  *)
(* so each call is one step.                                               *)
(***************************************************************************)
EXTENDS PrefixCache

CONSTANTS
    MaxClock,   \* bound on the number of touches (a u64 in the code)
    Budgets     \* arguments of evict_to

ASSUME BoundsAssumption == MaxClock \in Nat /\ Budgets \subseteq Nat

VARIABLE cache

Init == cache = NewCache

InsertChain(hashes) ==
    /\ cache.clock < MaxClock
    /\ cache' = Insert(cache, hashes)

MatchChain(hashes) ==
    /\ cache.clock < MaxClock
    /\ cache' = MatchPrefix(cache, hashes)

Evict(budget) == cache' = EvictTo(cache, budget)

Next ==
    \/ \E hashes \in Chains : InsertChain(hashes)
    \/ \E hashes \in Chains : MatchChain(hashes)
    \/ \E budget \in Budgets : Evict(budget)

Spec == Init /\ [][Next]_cache
-----------------------------------------------------------------------------
\* The types of the struct's fields.
TypeOK == CacheTypeOK(cache)

\* No orphans: a block is never cached without every block before it in its
\* chain, whatever sequence of calls came before.  The comment at
\* prefix_cache.rs:214-219 argues this; lookup relies on it to find every
\* cached block of a prompt by walking from the front.
NoOrphans == PrefixClosed(cache)

\* The inductive invariant behind the two: besides, the heap can still evict
\* every block, and along a chain the deeper block goes first, across ticks
\* and across compactions (prefix_cache.rs:10-17, 101-110).
Inv == CacheInv(cache)

\* evict_to leaves exactly min(budget, size) blocks: stale entries never make
\* it stop short, the heap never runs dry before the budget is met
\* (prefix_cache.rs:142-152), and nothing is evicted needlessly.
EvictionExact ==
    \A b \in Budgets :
        NumBlocks(EvictTo(cache, b)) = (IF NumBlocks(cache) > b THEN b ELSE NumBlocks(cache))

\* The flat map with its lazy heap implements the radix tree with leaf-first
\* LRU eviction that it replaced (prefix_cache.rs:3-17).
Radix == INSTANCE RadixLru WITH
            access <- [h \in DOMAIN cache.map |-> cache.map[h].access],
            clock <- cache.clock

ImplementsRadixLru == Radix!Spec
=============================================================================
