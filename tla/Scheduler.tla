------------------------------ MODULE Scheduler ------------------------------
(***************************************************************************)
(* The routing state and the operations on it                              *)
(* (crates/router/src/scheduler.rs).  One mutex guards the whole Scheduler *)
(* and every method runs under it, so a method is one step; SchedulerApi   *)
(* drives the methods in any order, Router from the request handlers and   *)
(* the health prober.                                                      *)
(*                                                                         *)
(* The weights alpha and beta are f64 in the code; the model takes natural *)
(* numbers, for which the scores are exact (the defaults are 1.0 and 2.0). *)
(***************************************************************************)
EXTENDS PrefixCache

CONSTANTS
    NumReplicas,
    Policy,             \* "CacheAware" or "RoundRobin"
    Alpha, Beta,        \* weights of matched blocks and of in-flight load
    MinMatchBlocks,
    BlockBudget,        \* capacity of a replica's cache picture, in blocks
    MaxInflight         \* per-replica in-flight cap

ASSUME SchedulerAssumption ==
    /\ NumReplicas \in Nat \ {0}
    /\ Policy \in {"CacheAware", "RoundRobin"}
    /\ Alpha \in Nat /\ Beta \in Nat
    /\ MinMatchBlocks \in Nat /\ BlockBudget \in Nat /\ MaxInflight \in Nat

Replicas == 0..(NumReplicas - 1)

VARIABLES
    healthy,
    inflight,
    cache,      \* per replica: what the router believes it has cached
    rrNext      \* where the next round-robin scan starts

schedVars == <<healthy, inflight, cache, rrNext>>

SchedulerInit ==
    /\ healthy = [r \in Replicas |-> TRUE]
    /\ inflight = [r \in Replicas |-> 0]
    /\ cache = [r \in Replicas |-> NewCache]
    /\ rrNext = 0
-----------------------------------------------------------------------------
Healthy == {r \in Replicas : healthy[r]}

\* Mutants of Available: an off-by-one at the cap; health ignored.
AvailableAtCap == {r \in Healthy : inflight[r] <= MaxInflight}
AvailableThoughDown == {r \in Replicas : inflight[r] < MaxInflight}

Available == {r \in Healthy : inflight[r] < MaxInflight}

\* Why pick fails, when nothing is available.
PickError == IF Healthy = {} THEN "NoHealthyReplicas" ELSE "AllSaturated"

\* How far the wrap-around scan goes before it meets r.
ScanOffset(r) == (r + NumReplicas - rrNext) % NumReplicas

FirstInScan == {r \in Available : \A q \in Available : ScanOffset(r) <= ScanOffset(q)}

\* Mutant of Score: load does not count.
ScoreIgnoresLoad(r, hashes) == Alpha * Lookup(cache[r], hashes)

Score(r, hashes) == Alpha * Lookup(cache[r], hashes) - Beta * inflight[r]

\* The first replica with the best score: a later one must beat it strictly.
BestScored(hashes) ==
    {r \in Available : \A q \in Available :
        /\ Score(q, hashes) <= Score(r, hashes)
        /\ q < r => Score(q, hashes) < Score(r, hashes)}

\* Mutant of LeastLoaded: only a strict minimum is accepted.
LeastLoadedStrict ==
    {r \in Available : \A q \in Available \ {r} : inflight[r] < inflight[q]}

\* min_by_key: the first replica with the least load.
LeastLoaded ==
    {r \in Available : \A q \in Available :
        /\ inflight[r] <= inflight[q]
        /\ q < r => inflight[r] < inflight[q]}

\* The best scored replica, unless it matches too little of the prompt.
CacheAwareChoice(hashes) ==
    IF \E r \in BestScored(hashes) : Lookup(cache[r], hashes) < MinMatchBlocks
    THEN LeastLoaded
    ELSE BestScored(hashes)

\* The replicas pick may return: one, if any is available (PickIsTotal).
Choice(hashes) ==
    IF Policy = "RoundRobin" THEN FirstInScan ELSE CacheAwareChoice(hashes)

\* RouteDecision.matched_blocks
MatchedBlocks(r, hashes) ==
    IF Policy = "RoundRobin" THEN 0 ELSE Lookup(cache[r], hashes)
-----------------------------------------------------------------------------
\* Mutants of Pick: the cursor is not moved; the cache is trimmed before the
\* insert; the prompt is refreshed, not inserted.
PickForgetsCursor(hashes, r) ==
    /\ r \in Choice(hashes)
    /\ inflight' = [inflight EXCEPT ![r] = @ + 1]
    /\ UNCHANGED <<healthy, cache, rrNext>>
PickEvictsFirst(hashes, r) ==
    /\ r \in Choice(hashes)
    /\ inflight' = [inflight EXCEPT ![r] = @ + 1]
    /\ cache' = [cache EXCEPT ![r] = Insert(EvictTo(@, BlockBudget), hashes)]
    /\ UNCHANGED <<healthy, rrNext>>

PickRefreshes(hashes, r) ==
    /\ r \in Choice(hashes)
    /\ inflight' = [inflight EXCEPT ![r] = @ + 1]
    /\ cache' = [cache EXCEPT ![r] = EvictTo(MatchPrefix(@, hashes), BlockBudget)]
    /\ UNCHANGED <<healthy, rrNext>>

\* pick returns Ok with replica r; the error case is PickFails.  (What insert
\* leaves is bound once, because TLC would compute it at every use.)
Pick(hashes, r) ==
    /\ r \in Choice(hashes)
    /\ inflight' = [inflight EXCEPT ![r] = @ + 1]
    /\ IF Policy = "RoundRobin"
       THEN rrNext' = (r + 1) % NumReplicas /\ cache' = cache
       ELSE /\ \E full \in {Insert(cache[r], hashes)} :
                   cache' = [cache EXCEPT ![r] = EvictTo(full, BlockBudget)]
            /\ rrNext' = rrNext
    /\ UNCHANGED healthy

PickFails == Available = {} /\ UNCHANGED schedVars

\* Mutant of Complete: a plain subtraction.
CompleteUnsaturated(r) ==
    /\ inflight' = [inflight EXCEPT ![r] = @ - 1]
    /\ UNCHANGED <<healthy, cache, rrNext>>

\* saturating_sub: a completion that comes after a reset is absorbed.
Complete(r) ==
    /\ inflight' = [inflight EXCEPT ![r] = IF @ = 0 THEN 0 ELSE @ - 1]
    /\ UNCHANGED <<healthy, cache, rrNext>>

\* Mutant of MarkUnhealthy: the load is set to the cap to keep requests away.
MarkUnhealthySaturates(r) ==
    /\ healthy' = [healthy EXCEPT ![r] = FALSE]
    /\ inflight' = [inflight EXCEPT ![r] = MaxInflight]
    /\ cache' = [cache EXCEPT ![r] = NewCache]
    /\ UNCHANGED rrNext

MarkUnhealthy(r) ==
    /\ healthy' = [healthy EXCEPT ![r] = FALSE]
    /\ inflight' = [inflight EXCEPT ![r] = 0]
    /\ cache' = [cache EXCEPT ![r] = NewCache]
    /\ UNCHANGED rrNext

MarkHealthy(r) ==
    /\ healthy' = [healthy EXCEPT ![r] = TRUE]
    /\ UNCHANGED <<inflight, cache, rrNext>>
-----------------------------------------------------------------------------
\* The fields of Scheduler and ReplicaState.
SchedulerTypeOK ==
    /\ healthy \in [Replicas -> BOOLEAN]
    /\ inflight \in [Replicas -> Nat]
    /\ DOMAIN cache = Replicas
    /\ rrNext \in Replicas

\* The in-flight count stays within the cap that pick tests
\* (scheduler.rs:115), whatever resets and late completions came between.
InflightCapped == \A r \in Replicas : inflight[r] <= MaxInflight

\* A replica that is out of routing carries no load and no cache picture, and
\* so comes back idle and cold ("Its cache starts cold", scheduler.rs:226):
\* mark_healthy resets nothing itself.
UnhealthyIsReset ==
    \A r \in Replicas : ~healthy[r] => inflight[r] = 0 /\ cache[r] = NewCache

\* Each cache picture fits its budget after every pick (scheduler.rs:192-193),
\* although insert may put a whole prompt over it.
WithinBudget == \A r \in Replicas : NumBlocks(cache[r]) <= BlockBudget

\* The lazily cleaned heap stays within a constant factor of the map, or of
\* the compaction floor (prefix_cache.rs:19-27; the factor of 4 is what the
\* test at 256-263 asserts), although evict_to shrinks the map and compacts
\* nothing.  It holds because pick evicts after each insert and to one budget:
\* a picture below its budget has evicted nothing since it was compacted.
HeapBounded ==
    \A r \in Replicas :
        Cardinality(cache[r].heap) <=
            (IF NumBlocks(cache[r]) < BlockBudget THEN 2 ELSE 4)
                * (IF NumBlocks(cache[r]) > CompactFloor THEN NumBlocks(cache[r]) ELSE CompactFloor)
=============================================================================
