----------------------------- MODULE SchedulerApi -----------------------------
(***************************************************************************)
(* The Scheduler driven through its public interface, in any order its     *)
(* contract allows: complete is called once for each successful pick       *)
(* (scheduler.rs:104-106), possibly long after the replica was reset.      *)
(***************************************************************************)
EXTENDS Scheduler

CONSTANT MaxTicks   \* bound on the touches of one cache and on outstanding picks

ASSUME MaxTicksAssumption == MaxTicks \in Nat

VARIABLES
    outstanding,    \* per replica: picks not yet completed (the callers' side)
    bypassed        \* history: picks of others while this replica was available

vars == <<schedVars, outstanding, bypassed>>

Init ==
    /\ SchedulerInit
    /\ outstanding = [r \in Replicas |-> 0]
    /\ bypassed = [r \in Replicas |-> 0]

\* Counts how often each replica was passed over since it was last picked or
\* last unavailable.  Kept for round-robin only: cache-aware routing promises
\* nothing of the kind.
CountBypass(r) ==
    bypassed' = [q \in Replicas |->
                    IF q = r \/ q \notin Available \/ Policy # "RoundRobin"
                    THEN 0
                    ELSE bypassed[q] + 1]

PickOne(hashes, r) ==
    /\ Pick(hashes, r)
    /\ cache[r].clock < MaxTicks /\ outstanding[r] < MaxTicks
    /\ outstanding' = [outstanding EXCEPT ![r] = @ + 1]
    /\ CountBypass(r)

CompleteOne(r) ==
    /\ outstanding[r] > 0
    /\ Complete(r)
    /\ outstanding' = [outstanding EXCEPT ![r] = @ - 1]
    /\ UNCHANGED bypassed

TakeDown(r) ==
    /\ MarkUnhealthy(r)
    /\ bypassed' = [bypassed EXCEPT ![r] = 0]
    /\ UNCHANGED outstanding

ReAdmit(r) ==
    /\ MarkHealthy(r)
    /\ UNCHANGED <<outstanding, bypassed>>

Next ==
    \/ \E hashes \in Chains : \E r \in Choice(hashes) : PickOne(hashes, r)
    \/ PickFails /\ UNCHANGED <<outstanding, bypassed>>
    \/ \E r \in Replicas : CompleteOne(r)
    \/ \E r \in Replicas : TakeDown(r)
    \/ \E r \in Replicas : ReAdmit(r)

Spec == Init /\ [][Next]_vars
-----------------------------------------------------------------------------
\* pick succeeds, with one replica, exactly when one is available, under
\* either policy and for every prompt: the expect at scheduler.rs:143, the
\* index at 149 and the unwrap at 179 cannot panic (a panic would poison the
\* mutex and take the router down).
PickIsTotal ==
    \A hashes \in Chains :
        Cardinality(Choice(hashes)) = (IF Available = {} THEN 0 ELSE 1)

\* The scheduler never believes in more load than its callers have open:
\* resets and absorbed completions (scheduler.rs:208-213) only lose load.
NoPhantomLoad == \A r \in Replicas : inflight[r] <= outstanding[r]

\* Round-robin starves nobody: a replica that stays available is picked
\* before every other replica has been picked twice in its place, whatever
\* happens to the health and the load of the others (scheduler.rs:130-139).
BoundedBypass == \A r \in Replicas : bypassed[r] < NumReplicas

\* Affinity never outweighs load by more than the match is worth: when the
\* cache-aware pick prefers r to an available l, the extra load on r, weighted
\* by beta, is at most alpha times the blocks matched on r
\* (scheduler.rs:152-185).
BoundedSkew ==
    [][\A hashes \in Chains : \A r \in Choice(hashes) :
        Policy = "CacheAware" /\ PickOne(hashes, r) =>
            \A l \in Available :
                Beta * (inflight[r] - inflight[l]) <= Alpha * MatchedBlocks(r, hashes)]_vars
=============================================================================
