-------------------------------- MODULE Bench --------------------------------
(***************************************************************************)
(* A benchmark run from end to end (scripts/bench.sh): the load generator, *)
(* the router process and its replicas.  Each keeps books of its own about *)
(* the same requests: the load generator's report, the router's served and *)
(* predicted counters, the replicas' counters.                             *)
(*                                                                         *)
(* The router's process is that of crates/router/src/main.rs: it binds its *)
(* ports, serves, drains on a signal, or dies with its metrics server.     *)
(* Its handlers are reduced to the calls they make on the scheduler, in    *)
(* their order; Router has them in full.  The replicas are those of        *)
(* crates/mock-triton (model_infer), one cache and two counters each.      *)
(***************************************************************************)
EXTENDS Scheduler, KvCacheSim, Loadgen

CONSTANTS
    HashesOf(_),    \* tokenizer and block_hashes: the blocks of a prompt
    MaxFaults       \* bound on what goes wrong: calls, replicas, probes, the process

ASSUME BenchAssumption ==
    /\ MaxFaults \in Nat
    /\ \A trace \in Traces : \A k \in DOMAIN trace : \A n \in 1..Len(trace[k]) :
           HashesOf(SubSeq(trace[k], 1, n)) \in Chains \cup {<<>>}

VARIABLES
    router,     \* "starting", "serving", "draining" or "exited"
    connected,  \* the load generator has its connection
    call,       \* per task: what its request's handler is doing
    served,     \* the router's requests_total, matched_ and prompt_blocks_total
    sim,        \* per replica: its cache
    counted,    \* per replica: cached_blocks_total and total_blocks_total
    trouble,    \* history: what has happened to the run
    faults

routerVars == <<schedVars, router, call, served>>
replicaVars == <<sim, counted>>
worldVars == <<trouble, faults>>
benchVars == <<routerVars, replicaVars, loadVars, connected, worldVars>>

NoCall == [at |-> "none"]

NothingServed == [requests |-> 0, matched |-> 0, prompt |-> 0]

NoBlocks == [cached |-> 0, total |-> 0]

BenchInit ==
    /\ SchedulerInit
    /\ LoadInit
    /\ router = "starting" /\ connected = FALSE
    /\ call = [i \in Tasks |-> NoCall]
    /\ served = NothingServed
    /\ sim = [r \in Replicas |-> NewKvCache]
    /\ counted = [r \in Replicas |-> NoBlocks]
    /\ trouble = {} /\ faults = 0

\* The blocks of the prompt task i has sent.
Prompt(i) == HashesOf(convs[i][turn[i]])

Fault(what) ==
    /\ faults < MaxFaults
    /\ faults' = faults + 1
    /\ trouble' = trouble \cup {what}
-----------------------------------------------------------------------------
\* main reads its arguments and the tokenizer, builds the clients, binds the
\* metrics port and then the service's; with what fails here the process ends.
Starts ==
    /\ router = "starting"
    /\ \/ router' = "serving" /\ UNCHANGED worldVars
       \/ router' = "exited" /\ Fault("died")
    /\ UNCHANGED <<schedVars, call, served, replicaVars, loadVars, connected>>

\* SIGINT or SIGTERM: no more connections; what is under way is finished.
ShutdownSignal ==
    /\ router = "serving"
    /\ router' = "draining"
    /\ trouble' = trouble \cup {"signal"}
    /\ UNCHANGED <<schedVars, call, served, replicaVars, loadVars, connected, faults>>

\* serve_with_shutdown returns when no call is open; main flushes and returns.
Exits ==
    /\ router = "draining" /\ \A i \in Tasks : call[i] = NoCall
    /\ router' = "exited"
    /\ UNCHANGED <<schedVars, call, served, replicaVars, loadVars, connected, worldVars>>

\* The metrics server fails, and takes the process with it.
MetricsServerFails ==
    /\ router \in {"serving", "draining"}
    /\ router' = "exited"
    /\ call' = [i \in Tasks |-> NoCall]
    /\ Fault("died")
    /\ UNCHANGED <<schedVars, served, replicaVars, loadVars, connected>>
-----------------------------------------------------------------------------
\* The load generator's main connects, or fails, before it spawns any task.
Connects ==
    /\ ~connected /\ router = "serving"
    /\ connected' = TRUE
    /\ UNCHANGED <<routerVars, replicaVars, loadVars, worldVars>>

TaskStarts(i) ==
    /\ connected /\ Acquire(i)
    /\ UNCHANGED <<routerVars, replicaVars, connected, worldVars>>

MainJoins == connected /\ Join /\ UNCHANGED <<routerVars, replicaVars, connected, worldVars>>

Moves(i, to) == call' = [call EXCEPT ![i] = to]

Calling(i) == call[i].at \in {"sent", "prefilling", "hung", "lost"}

\* pick, for the first attempt or the second.
PickFor(i, attempt) ==
    /\ \/ \E r \in Choice(Prompt(i)) :
            /\ Pick(Prompt(i), r)
            /\ Moves(i, [at |-> "sent", attempt |-> attempt, replica |-> r,
                         matched |-> MatchedBlocks(r, Prompt(i)), cached |-> 0])
       \/ PickFails /\ Moves(i, [at |-> "failed"])
    /\ UNCHANGED <<router, served, replicaVars, loadVars, connected, worldVars>>

\* The request reaches the router while it takes any, ...
Accepted(i) ==
    /\ pc[i] = "asking" /\ call[i] = NoCall /\ router = "serving"
    /\ PickFor(i, 1)

\* ... or there is nobody to take it, or its handler is gone.
TurnedAway(i) ==
    /\ call[i] = NoCall /\ router \in {"draining", "exited"}
    /\ Refused(i)
    /\ UNCHANGED <<routerVars, replicaVars, connected, worldVars>>

\* The response is delivered.
Delivered(i) ==
    /\ \/ /\ call[i].at = "replied"
          /\ Answered(i, [cached |-> call[i].cached, total |-> Len(Prompt(i))])
       \/ call[i].at = "failed" /\ Refused(i)
    /\ Moves(i, NoCall)
    /\ UNCHANGED <<schedVars, router, served, replicaVars, connected, worldVars>>
-----------------------------------------------------------------------------
\* Mutant of Prefills: cached_blocks_total counts the blocks that were missing.
PrefillsCountsMisses(i) ==
    LET r == call[i].replica  cached == CachedBlocks(sim[r], Prompt(i))
    IN  /\ call[i].at = "sent"
        /\ sim' = [sim EXCEPT ![r] = LookupInsert(@, Prompt(i))]
        /\ counted' = [counted EXCEPT ![r].cached = @ + Len(Prompt(i)) - cached,
                                      ![r].total = @ + Len(Prompt(i))]
        /\ Moves(i, [call[i] EXCEPT !.at = "prefilling", !.cached = cached])
        /\ UNCHANGED <<schedVars, router, served, loadVars, connected, worldVars>>

\* simulate_prefill: the replica looks the prompt up and caches it (LookupInsert,
\* what the insert leaves bound once), and counts.
Prefills(i) ==
    LET r == call[i].replica  cached == CachedBlocks(sim[r], Prompt(i))
    IN  /\ call[i].at = "sent"
        /\ \E full \in {Insert(sim[r], Prompt(i))} :
               sim' = [sim EXCEPT ![r] = EvictOverCapacity(full)]
        /\ counted' = [counted EXCEPT ![r].cached = @ + cached, ![r].total = @ + Len(Prompt(i))]
        /\ Moves(i, [call[i] EXCEPT !.at = "prefilling", !.cached = cached])
        /\ UNCHANGED <<schedVars, router, served, loadVars, connected, worldVars>>

\* Mutant of Served: the success path returns before complete.
ServedUncompleted(i) ==
    /\ call[i].at = "prefilling"
    /\ served' = [requests |-> served.requests + 1,
                  matched |-> served.matched + call[i].matched,
                  prompt |-> served.prompt + Len(Prompt(i))]
    /\ Moves(i, [at |-> "replied", cached |-> call[i].cached])
    /\ UNCHANGED <<schedVars, router, replicaVars, loadVars, connected, worldVars>>

\* The replica's response: complete, and the request is served.
Served(i) ==
    /\ call[i].at = "prefilling"
    /\ Complete(call[i].replica)
    /\ served' = [requests |-> served.requests + 1,
                  matched |-> served.matched + call[i].matched,
                  prompt |-> served.prompt + Len(Prompt(i))]
    /\ Moves(i, [at |-> "replied", cached |-> call[i].cached])
    /\ UNCHANGED <<router, replicaVars, loadVars, connected, worldVars>>

\* The replica hangs, before or after it has looked the prompt up ...
Hangs(i) ==
    /\ call[i].at \in {"sent", "prefilling"}
    /\ Fault("hang")
    /\ Moves(i, [call[i] EXCEPT !.at = "hung"])
    /\ UNCHANGED <<schedVars, router, served, replicaVars, loadVars, connected>>

\* Mutant of TimesOut: only the wait for the replica to take the call is timed.
TimesOutConnecting(i) ==
    /\ call[i].at = "sent"
    /\ Complete(call[i].replica)
    /\ Moves(i, [at |-> "failed"])
    /\ UNCHANGED <<router, served, replicaVars, loadVars, connected, worldVars>>

\* ... until the endpoint's timeout expires.  As DeadlineExceeded it is passed
\* on; as Cancelled it is taken for a broken connection.
TimesOut(i) ==
    /\ call[i].at = "hung"
    /\ Complete(call[i].replica)
    /\ \/ Moves(i, [at |-> "failed"])
       \/ Moves(i, [call[i] EXCEPT !.at = "markDown"])
    /\ UNCHANGED <<router, served, replicaVars, loadVars, connected, worldVars>>

\* The connection breaks, or the replica at its end has died.
Breaks(i) ==
    /\ Calling(i)
    /\ Complete(call[i].replica)
    /\ Moves(i, [call[i] EXCEPT !.at = "markDown"])
    /\ IF call[i].at = "lost" THEN UNCHANGED worldVars ELSE Fault("break")
    /\ UNCHANGED <<router, served, replicaVars, loadVars, connected>>

\* mark_unhealthy, then the second attempt or the end.
FailsOver(i) ==
    /\ call[i].at = "markDown"
    /\ MarkUnhealthy(call[i].replica)
    /\ Moves(i, [at |-> IF call[i].attempt = 1 THEN "picking" ELSE "failed"])
    /\ UNCHANGED <<router, served, replicaVars, loadVars, connected, worldVars>>

PicksAgain(i) == call[i].at = "picking" /\ PickFor(i, 2)

\* The prober, rightly or not; it takes down one replica or brings one back.
Probed(r) ==
    /\ router \in {"serving", "draining"}
    /\ \/ MarkUnhealthy(r) /\ Fault("probe")
       \/ ~healthy[r] /\ MarkHealthy(r) /\ UNCHANGED worldVars
    /\ UNCHANGED <<router, call, served, replicaVars, loadVars, connected>>

\* A replica restarts, its cache and counters with it; its calls fail.
Restarts(r) ==
    /\ Fault("restart")
    /\ sim' = [sim EXCEPT ![r] = NewKvCache]
    /\ counted' = [counted EXCEPT ![r] = NoBlocks]
    /\ call' = [i \in Tasks |-> IF Calling(i) /\ call[i].replica = r
                               THEN [call[i] EXCEPT !.at = "lost"] ELSE call[i]]
    /\ UNCHANGED <<schedVars, router, served, loadVars, connected>>
-----------------------------------------------------------------------------
\* What takes a request to its end.
GoesOn(i) ==
    \/ Accepted(i) \/ TurnedAway(i)
    \/ Prefills(i) \/ Served(i) \/ TimesOut(i) \/ Breaks(i)
    \/ FailsOver(i) \/ PicksAgain(i) \/ Delivered(i)

BenchNext ==
    \/ Starts \/ ShutdownSignal \/ Exits \/ MetricsServerFails
    \/ Connects \/ MainJoins
    \/ \E i \in Tasks : TaskStarts(i) \/ GoesOn(i) \/ Hangs(i)
    \/ \E r \in Replicas : Probed(r) \/ Restarts(r)

\* The three programs run: while requests can go on, some does (the work is
\* finite), a free permit is handed out, main joins, and the router's main
\* returns.  A call returns: the replica answers, its death is noticed, or, if
\* it hangs, the endpoint's timeout expires.
BenchFairness ==
    /\ WF_benchVars(\E i \in Tasks : GoesOn(i))
    /\ WF_benchVars(\E i \in Tasks : TaskStarts(i))
    /\ WF_benchVars(MainJoins) /\ WF_benchVars(Exits)

BenchSpec == BenchInit /\ [][BenchNext]_benchVars /\ BenchFairness
-----------------------------------------------------------------------------
\* The router's process and handlers, the replicas and the load generator.
BenchTypeOK ==
    /\ SchedulerTypeOK
    /\ LoadTypeOK
    /\ router \in {"starting", "serving", "draining", "exited"}
    /\ \A i \in Tasks :
        /\ call[i].at \in {"none", "sent", "prefilling", "hung", "lost", "markDown", "picking",
                           "replied", "failed"}
        /\ call[i] # NoCall => pc[i] = "asking"
    /\ \A r \in Replicas : counted[r].cached <= counted[r].total /\ NumBlocks(sim[r]) <= Capacity

AllCounted ==
    [cached |-> Sum([r \in Replicas |-> counted[r].cached]),
     total |-> Sum([r \in Replicas |-> counted[r].total])]

\* The books of the three programs agree: after a run in which no call was lost,
\* the report, the router's counters and the replicas' speak of the same requests
\* and blocks; and the report never claims a block that no replica counted,
\* unless a restart cleared its counters (service.rs:122-123, server.rs:112-124,
\* main.rs:131-139).
BooksAgree ==
    Reported =>
        /\ trouble \subseteq {"signal", "probe"} =>
            /\ served.requests = Report.requests
            /\ served.prompt = Report.total
            /\ AllCounted = [cached |-> Report.cached, total |-> Report.total]
        /\ "restart" \notin trouble =>
            Report.cached <= AllCounted.cached /\ Report.total <= AllCounted.total

\* The predictions of cache-aware routing come true in the sum.  While nothing
\* is evicted and no picture dropped, what the router counted as matched is what
\* the replicas found cached, in whatever order concurrent requests reached them
\* (server.rs:119-123).
PredictionsAddUp ==
    /\ Reported /\ trouble \subseteq {"signal"} /\ Policy = "CacheAware"
    /\ BlockBudget >= Cardinality(Blocks) /\ Capacity >= Cardinality(Blocks)
    => served.matched = AllCounted.cached

\* With no more requests at once than the replicas' caps add up to, the router
\* refuses none that it accepted, unless a call or a replica failed; a signal to
\* shut down is no reason to ("drain in-flight requests", main.rs:46-47).
NoSpuriousRefusal ==
    /\ Concurrency <= NumReplicas * MaxInflight
    /\ \E i \in Tasks : call[i].at = "failed"
    => ~(trouble \subseteq {"signal"})

\* Once told to shut down, the router exits: it waits for no call longer than
\* the endpoint's timeouts (main.rs:142-145).
DrainEnds == router = "draining" ~> router = "exited"

\* The run comes to its report, whatever happens to router and replicas.
RunEnds == connected ~> Reported
=============================================================================
