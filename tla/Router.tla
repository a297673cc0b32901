-------------------------------- MODULE Router --------------------------------
(***************************************************************************)
(* The router process (crates/router/src/server.rs): concurrent unary      *)
(* requests, each a handler that picks a replica, calls it, and retries    *)
(* once after a transport failure; and the health prober.  They share the  *)
(* Scheduler behind a mutex and the metrics, which no lock guards.         *)
(*                                                                         *)
(* One step is one critical section, one write to a gauge, or one event of *)
(* the outside world.  The steps of a handler between two awaits run       *)
(* without interruption on their thread but not without interleaving: the  *)
(* runtime is multi-threaded, so other handlers and the prober run in      *)
(* between.  Streaming requests are not part of this module.               *)
(***************************************************************************)
EXTENDS Scheduler

CONSTANTS
    Requests,       \* unary requests; each arrives at most once
    UpstreamCodes,  \* what a call to a replica may return
    MaxFaults,      \* bound on crashes and on probes that time out or panic
    MayCancel       \* whether clients may drop their requests

ASSUME RouterAssumption ==
    /\ IsFiniteSet(Requests)
    /\ UpstreamCodes \subseteq STRING /\ "none" \notin UpstreamCodes
    /\ MaxFaults \in Nat
    /\ MayCancel \in BOOLEAN

VARIABLES
    pc,         \* where each handler is
    replica,    \* decision.replica of the current attempt
    failed,     \* the replica that failed attempt 1, during attempt 2
    local,      \* the handler's other locals
    answer,     \* the status sent to the client
    gauge,      \* replica_inflight_gauges
    served,     \* requests_total, matched_blocks_total, prompt_blocks_total
    probe,      \* the current pass of the health prober
    healthyGauge,   \* healthy_replicas
    up,         \* environment: the replica process is running
    faults      \* environment: faults so far

handlerVars == <<pc, replica, failed, local, answer>>
metricVars == <<gauge, served>>
proberVars == <<probe, healthyGauge>>
envVars == <<up, faults>>
vars == <<schedVars, handlerVars, metricVars, proberVars, envVars>>

None == "none"

NoReplica == -1

NoLocals == [hashes |-> <<>>, matched |-> 0, shown |-> 0, result |-> None]

Init ==
    /\ SchedulerInit
    /\ pc = [q \in Requests |-> "idle"]
    /\ replica = [q \in Requests |-> NoReplica]
    /\ failed = [q \in Requests |-> NoReplica]
    /\ local = [q \in Requests |-> NoLocals]
    /\ answer = [q \in Requests |-> None]
    /\ gauge = [r \in Replicas |-> 0]
    /\ served = [requests |-> 0, matched |-> 0, prompt |-> 0]
    /\ probe = [r \in Replicas |-> "idle"]
    /\ healthyGauge = 0
    /\ up = [r \in Replicas |-> TRUE]
    /\ faults = 0
-----------------------------------------------------------------------------
\* Mutant of IsTransportFailure: a timed-out call is retried too.
IsFailure(code) == code \notin {"Ok", None}

\* DeadlineExceeded is left out on purpose: the replica may still be at work.
\* The status is all there is to go by, and it need not tell a timeout.
IsTransportFailure(code) == code \in {"Unavailable", "Unknown", "Internal", "Cancelled"}

\* pick_replica's mapping of a PickError to a gRPC status.
PickStatus == IF PickError = "NoHealthyReplicas" THEN "Unavailable" ELSE "ResourceExhausted"

\* The handler returns; its locals are gone.
Finish(q, status) ==
    /\ pc' = [pc EXCEPT ![q] = "done"]
    /\ answer' = [answer EXCEPT ![q] = status]
    /\ replica' = [replica EXCEPT ![q] = NoReplica]
    /\ failed' = [failed EXCEPT ![q] = NoReplica]
    /\ local' = [local EXCEPT ![q] = NoLocals]

\* pick_replica: the decision, under the mutex ...
PickReplica(q, hashes) ==
    \/ \E r \in Choice(hashes) :
        /\ Pick(hashes, r)
        /\ pc' = [pc EXCEPT ![q] = "picked"]
        /\ replica' = [replica EXCEPT ![q] = r]
        /\ local' = [local EXCEPT ![q] = [hashes |-> hashes,
                                          matched |-> MatchedBlocks(r, hashes),
                                          shown |-> inflight'[r],
                                          result |-> None]]
        /\ UNCHANGED <<failed, answer>>
    \/ PickFails /\ Finish(q, PickStatus)

\* ... and the gauge, written after the mutex is released, with the value
\* read under it.
PublishPick(q) ==
    /\ pc[q] = "picked"
    /\ gauge' = [gauge EXCEPT ![replica[q]] = local[q].shown]
    /\ pc' = [pc EXCEPT ![q] = "upstream"]
    /\ UNCHANGED <<schedVars, replica, failed, local, answer, served, proberVars, envVars>>

\* A request without a usable text_input tensor is answered before any pick.
Reject(q) ==
    /\ pc[q] = "idle"
    /\ Finish(q, "InvalidArgument")
    /\ UNCHANGED <<schedVars, metricVars, proberVars, envVars>>

FirstPick(q, hashes) ==
    /\ pc[q] = "idle"
    /\ PickReplica(q, hashes)
    /\ UNCHANGED <<metricVars, proberVars, envVars>>

RetryPick(q) ==
    /\ pc[q] = "retry"
    /\ PickReplica(q, local[q].hashes)
    /\ UNCHANGED <<metricVars, proberVars, envVars>>

\* The awaited call returns.  Only a running replica answers; the connection
\* may break, and the endpoint's timeout expire, at any time.
UpstreamReturns(q, code) ==
    /\ pc[q] = "upstream"
    /\ code \in UpstreamCodes
    /\ ~IsTransportFailure(code) /\ code # "DeadlineExceeded" => up[replica[q]]
    /\ pc' = [pc EXCEPT ![q] = "returned"]
    /\ local' = [local EXCEPT ![q].result = code]
    /\ UNCHANGED <<schedVars, replica, failed, answer, metricVars, proberVars, envVars>>

\* Mutant of CompleteCall: an early exit on error skips the completion.
CompleteOnlyOnSuccess(q) ==
    /\ pc[q] = "returned"
    /\ IF local[q].result = "Ok" THEN Complete(replica[q]) ELSE UNCHANGED schedVars
    /\ pc' = [pc EXCEPT ![q] = "completed"]
    /\ local' = [local EXCEPT ![q].shown = inflight'[replica[q]]]
    /\ UNCHANGED <<replica, failed, answer, metricVars, proberVars, envVars>>

\* complete: the scheduler's count, under the mutex ...
CompleteCall(q) ==
    /\ pc[q] = "returned"
    /\ Complete(replica[q])
    /\ pc' = [pc EXCEPT ![q] = "completed"]
    /\ local' = [local EXCEPT ![q].shown = inflight'[replica[q]]]
    /\ UNCHANGED <<replica, failed, answer, metricVars, proberVars, envVars>>

\* Mutant of RecordServed: the two block counters are swapped.
RecordServedSwapped(q) ==
    served' = [requests |-> served.requests + 1,
               matched |-> served.matched + Len(local[q].hashes),
               prompt |-> served.prompt + local[q].matched]

\* record_served, with the decision that served the request.
RecordServed(q) ==
    served' = [requests |-> served.requests + 1,
               matched |-> served.matched + local[q].matched,
               prompt |-> served.prompt + Len(local[q].hashes)]

\* ... then the gauge, and what the result asks for.
PublishComplete(q) ==
    /\ pc[q] = "completed"
    /\ gauge' = [gauge EXCEPT ![replica[q]] = local[q].shown]
    /\ \/ /\ local[q].result = "Ok"
          /\ RecordServed(q)
          /\ Finish(q, "Ok")
       \/ /\ IsTransportFailure(local[q].result)
          /\ pc' = [pc EXCEPT ![q] = "markDown"]
          /\ UNCHANGED <<replica, failed, local, answer, served>>
       \/ /\ local[q].result # "Ok" /\ ~IsTransportFailure(local[q].result)
          /\ Finish(q, local[q].result)
          /\ UNCHANGED served
    /\ UNCHANGED <<schedVars, proberVars, envVars>>

\* Mutant of MarkDown: it always tries again.
MarkDownAlwaysRetries(q) ==
    /\ pc[q] = "markDown"
    /\ MarkUnhealthy(replica[q])
    /\ pc' = [pc EXCEPT ![q] = "retry"]
    /\ failed' = [failed EXCEPT ![q] = replica[q]]
    /\ replica' = [replica EXCEPT ![q] = NoReplica]
    /\ UNCHANGED <<local, answer, metricVars, proberVars, envVars>>

\* mark_unhealthy, then the second attempt; after the second, give up.
MarkDown(q) ==
    /\ pc[q] = "markDown"
    /\ MarkUnhealthy(replica[q])
    /\ \/ /\ failed[q] = NoReplica
          /\ pc' = [pc EXCEPT ![q] = "retry"]
          /\ failed' = [failed EXCEPT ![q] = replica[q]]
          /\ replica' = [replica EXCEPT ![q] = NoReplica]
          /\ local' = [local EXCEPT ![q] = [NoLocals EXCEPT !.hashes = local[q].hashes]]
          /\ UNCHANGED answer
       \/ failed[q] # NoReplica /\ Finish(q, "Unavailable")
    /\ UNCHANGED <<metricVars, proberVars, envVars>>

\* The client goes away (or its own deadline passes): the server drops the
\* handler's future at the await, and nothing after the await runs.
Cancel(q) ==
    /\ MayCancel
    /\ pc[q] = "upstream"
    /\ pc' = [pc EXCEPT ![q] = "cancelled"]
    /\ UNCHANGED <<schedVars, replica, failed, local, answer, metricVars, proberVars, envVars>>
-----------------------------------------------------------------------------
\* The prober's tick: one ServerLive call per replica, concurrently.
ProbeStart ==
    /\ \A r \in Replicas : probe[r] = "idle"
    /\ probe' = [r \in Replicas |-> "pending"]
    /\ UNCHANGED <<schedVars, handlerVars, metricVars, healthyGauge, envVars>>

ProbeAnswers(r) ==
    /\ probe[r] = "pending"
    /\ probe' = [probe EXCEPT ![r] = IF up[r] THEN "live" ELSE "dead"]
    /\ UNCHANGED <<schedVars, handlerVars, metricVars, healthyGauge, envVars>>

\* The one-second timeout expires on a replica that is up, or the probe task
\* panics (its JoinError is skipped).
ProbeFaults(r) ==
    /\ probe[r] = "pending" /\ faults < MaxFaults
    /\ \E outcome \in {"dead", "panicked"} : probe' = [probe EXCEPT ![r] = outcome]
    /\ faults' = faults + 1
    /\ UNCHANGED <<schedVars, handlerVars, metricVars, healthyGauge, up>>

\* Mutants of ProbedLive and ProbedDead: a live replica is never re-admitted, a dead one never
\* taken out.
ProbedLiveAlready == {r \in Replicas : probe[r] = "live" /\ healthy[r]}
ProbedDeadAlready == {r \in Replicas : probe[r] = "dead" /\ ~healthy[r]}

\* What a pass found: the replicas to mark healthy, and those to mark
\* unhealthy, if they are not already.
ProbedLive == {r \in Replicas : probe[r] = "live"}

ProbedDead == {r \in Replicas : probe[r] = "dead" /\ healthy[r]}

\* All results of the pass, under one lock.  A replica whose probe panicked
\* keeps its state, and the gauge counts the live ones.
ProbeApply ==
    /\ \A r \in Replicas : probe[r] \in {"live", "dead", "panicked"}
    /\ healthy' = [r \in Replicas |-> (healthy[r] \/ r \in ProbedLive) /\ r \notin ProbedDead]
    /\ inflight' = [r \in Replicas |-> IF r \in ProbedDead THEN 0 ELSE inflight[r]]
    /\ cache' = [r \in Replicas |-> IF r \in ProbedDead THEN NewCache ELSE cache[r]]
    /\ healthyGauge' = Cardinality(ProbedLive)
    /\ probe' = [r \in Replicas |-> "idle"]
    /\ UNCHANGED <<rrNext, handlerVars, metricVars, envVars>>

Crash(r) ==
    /\ up[r] /\ faults < MaxFaults
    /\ up' = [up EXCEPT ![r] = FALSE]
    /\ faults' = faults + 1
    /\ UNCHANGED <<schedVars, handlerVars, metricVars, proberVars>>

Restart(r) ==
    /\ ~up[r]
    /\ up' = [up EXCEPT ![r] = TRUE]
    /\ UNCHANGED <<schedVars, handlerVars, metricVars, proberVars, faults>>
-----------------------------------------------------------------------------
Arrive(q) == Reject(q) \/ \E hashes \in Chains : FirstPick(q, hashes)

Returns(q) == \E code \in UpstreamCodes : UpstreamReturns(q, code)

Handle(q) == PublishPick(q) \/ CompleteCall(q) \/ PublishComplete(q) \/ MarkDown(q) \/ RetryPick(q)

Next ==
    \/ \E q \in Requests : Arrive(q) \/ Returns(q) \/ Handle(q) \/ Cancel(q)
    \/ \E r \in Replicas : ProbeAnswers(r) \/ ProbeFaults(r) \/ Crash(r) \/ Restart(r)
    \/ ProbeStart \/ ProbeApply

Spec == Init /\ [][Next]_vars

\* A handler that can run is run (tokio polls every woken task, and a critical
\* section never blocks); a call returns, at the latest when the endpoint's
\* timeout expires; the prober ticks, and its probes end, at the latest when
\* theirs does.  Nothing is assumed of clients, crashes and restarts.
Fairness ==
    /\ \A q \in Requests : WF_vars(Handle(q)) /\ WF_vars(Returns(q))
    /\ \A r \in Replicas : WF_vars(ProbeAnswers(r))
    /\ WF_vars(ProbeStart) /\ WF_vars(ProbeApply)

FairSpec == Spec /\ Fairness
-----------------------------------------------------------------------------
\* Handlers that have picked r and not yet completed: r's real load, as the
\* router sees it.
Holders(r) ==
    {q \in Requests : replica[q] = r /\ pc[q] \in {"picked", "upstream", "returned"}}

\* Handlers dropped by their clients while they held r.
Abandoned(r) == {q \in Requests : replica[q] = r /\ pc[q] = "cancelled"}

\* The handlers, the metrics, the prober and the environment.
TypeOK ==
    /\ SchedulerTypeOK
    /\ pc \in [Requests -> {"idle", "picked", "upstream", "returned", "completed",
                            "markDown", "retry", "done", "cancelled"}]
    /\ replica \in [Requests -> Replicas \cup {NoReplica}]
    /\ failed \in [Requests -> Replicas \cup {NoReplica}]
    /\ \A q \in Requests : replica[q] = NoReplica <=> pc[q] \in {"idle", "retry", "done"}
    /\ DOMAIN local = Requests /\ DOMAIN answer = Requests
    /\ gauge \in [Replicas -> Nat]
    /\ served \in [requests : Nat, matched : Nat, prompt : Nat]
    /\ probe \in [Replicas -> {"idle", "pending", "live", "dead", "panicked"}]
    /\ healthyGauge \in Nat
    /\ up \in [Replicas -> BOOLEAN]
    /\ faults \in Nat

\* Every unit of in-flight load is a request that still holds the replica, or
\* one whose client abandoned it: resets by the prober and by other handlers,
\* and completions that come after them, never leave load behind
\* (scheduler.rs:204-214).
LoadAccounted ==
    \A r \in Replicas : inflight[r] <= Cardinality(Holders(r) \cup Abandoned(r))

\* A request is refused as "all replicas saturated" only when every healthy
\* replica really serves max_inflight requests: "routing exists, capacity
\* doesn't" (scheduler.rs:59-60).
NoSpuriousSaturation ==
    Available = {} =>
        \A r \in Healthy : Cardinality(Holders(r)) >= MaxInflight

\* The router never has more than max_inflight requests open at a replica:
\* "Per-replica in-flight request cap (backpressure)" (scheduler.rs:32).
CapHonoured == \A r \in Replicas : Cardinality(Holders(r)) <= MaxInflight

\* The second attempt goes to a replica other than the one that failed:
\* "Attempt 2 (retry on another replica)" (server.rs:185).
RetriesElsewhere ==
    \A q \in Requests : failed[q] # NoReplica => replica[q] # failed[q]

\* The per-request counters count each served request once, whatever was
\* retried, and never more blocks matched than asked for (server.rs:112-124).
ServedOnce ==
    /\ served.requests = Cardinality({q \in Requests : answer[q] = "Ok"})
    /\ served.matched <= served.prompt

\* With no request under way, the inflight gauge of a replica shows its
\* in-flight count ("inflight per replica", telemetry.rs:30).  It need not: two
\* completions may write it in the opposite order to their critical sections
\* (server.rs:130-131).  No run lists it.
GaugeTrueAtRest ==
    (\A q \in Requests : pc[q] \in {"idle", "done"}) => gauge = inflight

\* Every request that arrives is answered, unless its client drops it: "a
\* wedged (not dead) replica can't hang a request" (server.rs:23-25).
EveryRequestAnswered ==
    \A q \in Requests : pc[q] = "picked" ~> pc[q] \in {"done", "cancelled"}

\* The prober takes a replica that stays down out of routing for good
\* (server.rs:404-413), even if results read before the crash re-admit it.
DeadReplicaLeaves == \A r \in Replicas : <>[]~up[r] => <>[]~healthy[r]

\* ... and brings back, for good, one that stays up.
LiveReplicaReturns == \A r \in Replicas : <>[]up[r] => <>[]healthy[r]

\* healthy_replicas, written after the pass that counted (server.rs:471) and not
\* when a handler marks a replica down, comes to show the healthy replicas.
HealthGaugeSettles == <>[](healthyGauge = Cardinality(Healthy))

Phase(q) ==
    CASE pc[q] = "idle" -> "idle"
      [] pc[q] = "retry" -> "between"
      [] pc[q] = "done" -> "done"
      [] pc[q] = "cancelled" -> "gone"
      [] OTHER -> IF failed[q] = NoReplica THEN "first" ELSE "second"

Routing == IF Available # {} THEN "open" ELSE IF Healthy = {} THEN "down" ELSE "saturated"

Contract ==
    INSTANCE RouterContract WITH
        phase <- [q \in Requests |-> Phase(q)],
        heard <- [q \in Requests |-> local[q].result],
        routing <- Routing

\* The handlers, whatever prober, faults and other handlers do between their
\* critical sections, keep the router's promise: at most two calls, the second
\* only after a status that is taken for a transport failure, one answer, and no
\* refusal while a replica could take the request (server.rs:149-220).  The
\* status DeadlineExceeded is passed on; a timeout that arrives as Cancelled is
\* retried like a broken connection (RouterTimeouts).
ImplementsContract == Contract!Spec
=============================================================================
