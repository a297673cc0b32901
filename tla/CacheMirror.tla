----------------------------- MODULE CacheMirror -----------------------------
(***************************************************************************)
(* The router's picture of each replica's cache, beside the replicas' own  *)
(* caches.  The router updates its picture when it picks, the replica its  *)
(* cache when the request arrives (crates/mock-triton/src/service.rs); in  *)
(* between a request may be overtaken or lost, the router may drop its     *)
(* picture, and the replica may restart.                                   *)
(*                                                                         *)
(* Handlers and prober are reduced to the calls they make on the           *)
(* scheduler; Router has them in full.                                     *)
(***************************************************************************)
EXTENDS Scheduler, KvCacheSim, SequencesExt

CONSTANTS
    MaxTicks,   \* bound on the ticks of a replica's cache
    MaxFaults   \* bound on lost requests and restarts

\* Round-robin keeps no picture.
ASSUME MirrorAssumption ==
    Policy = "CacheAware" /\ MaxTicks \in Nat /\ MaxFaults \in Nat

VARIABLES
    sim,        \* per replica: its own cache
    mail,       \* per replica: requests picked for it and not yet there
    begun,      \* per replica: requests it took, or lost, that are not completed
    confirmed,  \* history: blocks routed to it since it last missed the order
    mirrored,   \* history: ... and since the router last dropped its picture
    faults

replicaVars == <<sim, mail, begun>>
historyVars == <<confirmed, mirrored, faults>>
mirrorVars == <<schedVars, replicaVars, historyVars>>

MirrorInit ==
    /\ SchedulerInit
    /\ sim = [r \in Replicas |-> NewKvCache]
    /\ mail = [r \in Replicas |-> <<>>]
    /\ begun = [r \in Replicas |-> 0]
    /\ confirmed = [r \in Replicas |-> {}]
    /\ mirrored = [r \in Replicas |-> {}]
    /\ faults = 0
-----------------------------------------------------------------------------
\* How much of the predicted match rests on blocks routed in order.
Promise(r, hashes) ==
    Cardinality({i \in Leading(cache[r], hashes) : \A j \in 1..i : hashes[j] \in confirmed[r]})

\* pick, and the request is sent.
Route(hashes, r) ==
    /\ sim[r].clock + Len(mail[r]) < MaxTicks
    /\ Pick(hashes, r)
    /\ mail' = [mail EXCEPT ![r] = Append(@, [hashes |-> hashes, promise |-> Promise(r, hashes)])]
    /\ confirmed' = [confirmed EXCEPT ![r] = @ \cup Range(hashes)]
    /\ mirrored' = [mirrored EXCEPT ![r] = @ \cup Range(hashes)]
    /\ UNCHANGED <<sim, begun, faults>>

\* The replica has taken requests in another order than they were picked in, or
\* will never take one: nothing predicted so far can be relied on.
OutOfOrder(r, rest) ==
    /\ mail' = [mail EXCEPT ![r] = [k \in DOMAIN rest |-> [rest[k] EXCEPT !.promise = 0]]]
    /\ confirmed' = [confirmed EXCEPT ![r] = {}]
    /\ mirrored' = [mirrored EXCEPT ![r] = {}]

\* simulate_prefill: the i-th request takes the cache's mutex.
Arrives(r, i) ==
    LET rest == RemoveAt(mail[r], i)
    IN  /\ sim' = [sim EXCEPT ![r] = LookupInsert(@, mail[r][i].hashes)]
        /\ begun' = [begun EXCEPT ![r] = @ + 1]
        /\ IF i = 1
           THEN mail' = [mail EXCEPT ![r] = rest] /\ UNCHANGED <<confirmed, mirrored>>
           ELSE OutOfOrder(r, rest)
        /\ UNCHANGED <<schedVars, faults>>

\* The connection breaks with the i-th request on its way.
Loses(r, i) ==
    /\ faults < MaxFaults
    /\ OutOfOrder(r, RemoveAt(mail[r], i))
    /\ begun' = [begun EXCEPT ![r] = @ + 1]
    /\ faults' = faults + 1
    /\ UNCHANGED <<schedVars, sim>>

\* The replica restarts with an empty cache; the calls on their way fail.
Restarts(r) ==
    /\ faults < MaxFaults
    /\ sim' = [sim EXCEPT ![r] = NewKvCache]
    /\ OutOfOrder(r, <<>>)
    /\ begun' = [begun EXCEPT ![r] = @ + Len(mail[r])]
    /\ faults' = faults + 1
    /\ UNCHANGED schedVars

\* Prefill is over, or the call has failed: the handler completes.
Completes(r) ==
    /\ begun[r] > 0
    /\ Complete(r)
    /\ begun' = [begun EXCEPT ![r] = @ - 1]
    /\ UNCHANGED <<sim, mail, historyVars>>

\* By a handler whose call failed, or by the prober, rightly or not.
TakenDown(r) ==
    /\ MarkUnhealthy(r)
    /\ mirrored' = [mirrored EXCEPT ![r] = {}]
    /\ UNCHANGED <<replicaVars, confirmed, faults>>

ReAdmitted(r) == MarkHealthy(r) /\ UNCHANGED <<replicaVars, historyVars>>

MirrorNext ==
    \/ \E hashes \in Chains : \E r \in Choice(hashes) : Route(hashes, r)
    \/ \E r \in Replicas : \E i \in DOMAIN mail[r] : Arrives(r, i) \/ Loses(r, i)
    \/ \E r \in Replicas : Restarts(r) \/ Completes(r) \/ TakenDown(r) \/ ReAdmitted(r)

MirrorSpec == MirrorInit /\ [][MirrorNext]_mirrorVars
-----------------------------------------------------------------------------
\* The caches a replica goes through as it takes requests in order, from c.
Stages(c, requests) ==
    LET stage[k \in 0..Len(requests)] ==
            IF k = 0 THEN c ELSE LookupInsert(stage[k - 1], requests[k].hashes)
    IN  stage

\* The replica's cache once it has taken what is on its way, in order.
AfterMail(r) == Stages(sim[r], mail[r])[Len(mail[r])]

Believed(r) == DOMAIN cache[r].map

Actual(r) == DOMAIN AfterMail(r).map

\* The picture stays honest (design, line 57): of the blocks routed to a replica
\* since it last lost a request, took two in another order or restarted, the
\* router believes cached only what the replica will have cached, whatever
\* pictures were dropped and replicas re-admitted in between.  A disturbance is
\* thus forgotten as traffic renews the picture (scheduler.rs:192-193,
\* cache.rs:59-75).
PictureHonest ==
    BlockBudget <= Capacity =>
        \A r \in Replicas : Believed(r) \cap confirmed[r] \subseteq Actual(r)

\* The picture misses nothing it could know: with equal budgets, of the blocks
\* routed since the picture was last dropped or disturbed, the router believes
\* cached all that the replica will have cached.
PictureComplete ==
    BlockBudget >= Capacity =>
        \A r \in Replicas : Actual(r) \cap mirrored[r] \subseteq Believed(r)

\* A match that rests on blocks routed in order is found when the request
\* arrives, however many requests were picked, answered or reset in between.
PromisesKept ==
    BlockBudget <= Capacity =>
        \A r \in Replicas :
            mail[r] # <<>> => Head(mail[r]).promise <= CachedBlocks(sim[r], Head(mail[r]).hashes)
=============================================================================
