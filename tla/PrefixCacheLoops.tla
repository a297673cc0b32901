--------------------------- MODULE PrefixCacheLoops ---------------------------
(***************************************************************************)
(* PrefixCache states touch and evict_to by what they leave behind.  This  *)
(* module states the two loops as prefix_cache.rs runs them, turn by turn, *)
(* and compares.                                                           *)
(***************************************************************************)
EXTENDS PrefixCacheApi

\* Block h is stamped and pushed.
TouchBlock(c, h) ==
    LET stamp == [access |-> c.clock, seq |-> c.seq + 1]
    IN  [map |-> [g \in DOMAIN c.map \cup {h} |-> IF g = h THEN stamp ELSE c.map[g]],
         heap |-> c.heap \cup {[access |-> stamp.access, seq |-> stamp.seq, hash |-> h]},
         clock |-> c.clock,
         seq |-> stamp.seq]

\* One turn of the loop of touch; it breaks at the first miss iff onlyPresent.
TouchTurn(walk, h, onlyPresent) ==
    IF walk.broken \/ (onlyPresent /\ h \notin DOMAIN walk.cache.map)
    THEN [cache |-> walk.cache, broken |-> TRUE]
    ELSE [cache |-> TouchBlock(walk.cache, h), broken |-> FALSE]

TouchLoop(c, hashes, onlyPresent) ==
    LET Walk[k \in 0..Len(hashes)] ==
            IF k = 0 THEN [cache |-> [c EXCEPT !.clock = @ + 1], broken |-> FALSE]
            ELSE TouchTurn(Walk[k - 1], hashes[k], onlyPresent)
    IN  CompactIfBloated(Walk[Len(hashes)].cache)

\* The top of the heap.
Top(c) == CHOOSE e \in c.heap : \A f \in c.heap \ {e} : PopsBefore(e, f)

\* One turn of the loop of evict_to: the block goes if the entry is live.
EvictTurn(c, budget) ==
    IF NumBlocks(c) <= budget \/ c.heap = {} THEN c
    ELSE LET e == Top(c)
             keep == {h \in DOMAIN c.map : ~(h = e.hash /\ IsLive(c, e))}
         IN  [map |-> Restrict(c.map, keep), heap |-> c.heap \ {e},
              clock |-> c.clock, seq |-> c.seq]

\* Every turn pops an entry, so there are no more turns than entries.
EvictLoop(c, budget) ==
    LET Loop[n \in 0..Cardinality(c.heap)] ==
            IF n = 0 THEN c ELSE EvictTurn(Loop[n - 1], budget)
    IN  Loop[Cardinality(c.heap)]
-----------------------------------------------------------------------------
\* In every reachable cache, popping the lazily cleaned heap until the map
\* fits the budget (prefix_cache.rs:142-152) removes exactly the blocks and
\* the heap entries that EvictTo names, stale entries included, and stamping
\* block by block with the presence test inside the loop (77-93) gives the
\* cache that Touch names.
ClosedFormsAreTheLoops ==
    /\ \A b \in Budgets : EvictLoop(cache, b) = EvictTo(cache, b)
    /\ \A hashes \in Chains, onlyPresent \in BOOLEAN :
           TouchLoop(cache, hashes, onlyPresent) = Touch(cache, hashes, onlyPresent)
=============================================================================
