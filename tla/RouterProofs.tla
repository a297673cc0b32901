----------------------------- MODULE RouterProofs -----------------------------
(***************************************************************************)
(* Theorems about Router, for any number of requests, replicas, faults and *)
(* cancellations, either policy and any cap: its types, the cap on the     *)
(* in-flight counts, the reset of unhealthy replicas, the accounting of    *)
(* in-flight load, the counters of served requests, and its contract with  *)
(* the clients.                                                            *)
(***************************************************************************)
EXTENDS Router, FiniteSetTheorems, TLAPS

\* What a client may be told.
Statuses == UpstreamCodes \cup {None, "Ok", "InvalidArgument", "Unavailable", "ResourceExhausted"}

Locals ==
    [hashes : Chains \cup {<<>>}, matched : Nat, shown : Nat, result : UpstreamCodes \cup {None}]

\* What TypeOK leaves open of a handler's locals: they are typed, the match is
\* no longer than the prompt, and only a finished handler has answered.
LocalsOK ==
    /\ local \in [Requests -> Locals]
    /\ \A q \in Requests : local[q].matched <= Len(local[q].hashes)
    /\ answer \in [Requests -> Statuses]
    /\ \A q \in Requests : answer[q] = "Ok" => pc[q] = "done"

Typed == TypeOK /\ LocalsOK

\* Holders(r) and Abandoned(r) together.
Held(r) ==
    {q \in Requests : replica[q] = r /\ pc[q] \in {"picked", "upstream", "returned", "cancelled"}}
-----------------------------------------------------------------------------
LEMMA ReplicaFacts == Replicas \subseteq Nat /\ NoReplica \notin Replicas /\ IsFiniteSet(Replicas)
<1>1. NumReplicas \in Nat
  BY SchedulerAssumption
<1>2. IsFiniteSet(0..(NumReplicas - 1))
  BY <1>1, FS_Interval
<1> QED  BY <1>1, <1>2 DEF Replicas, NoReplica

LEMMA LenFacts ==
    ASSUME NEW hashes \in Chains \cup {<<>>}
    PROVE  Len(hashes) \in Nat /\ DOMAIN hashes = 1..Len(hashes)
<1>1. Chains \subseteq Seq(Blocks)
  BY ChainsAssumption
<1>2. <<>> \in Seq(Blocks)
  OBVIOUS
<1>3. hashes \in Seq(Blocks)
  BY <1>1, <1>2
<1> QED  BY <1>3

\* A prompt never matches more blocks than it has.
LEMMA MatchedFacts ==
    ASSUME NEW r, NEW hashes \in Chains \cup {<<>>}
    PROVE  MatchedBlocks(r, hashes) \in Nat /\ MatchedBlocks(r, hashes) <= Len(hashes)
<1>2. Len(hashes) \in Nat /\ DOMAIN hashes = 1..Len(hashes)
  BY LenFacts
<1>3. IsFiniteSet(1..Len(hashes)) /\ Cardinality(1..Len(hashes)) = Len(hashes)
  BY <1>2, FS_Interval
<1>4. Leading(cache[r], hashes) \in SUBSET (1..Len(hashes))
  BY <1>2 DEF Leading
<1>5. IsFiniteSet(Leading(cache[r], hashes))
      /\ Cardinality(Leading(cache[r], hashes)) <= Len(hashes)
  BY <1>3, <1>4, FS_Subset
<1>6. Cardinality(Leading(cache[r], hashes)) \in Nat
  BY <1>5, FS_CardinalityType
<1> QED  BY <1>2, <1>5, <1>6 DEF MatchedBlocks, Lookup

\* Whatever the policy, a pick is of a replica that is healthy and below the cap.
LEMMA ChoiceAvailable ==
    ASSUME NEW hashes, NEW r \in Choice(hashes)
    PROVE  r \in Replicas /\ healthy[r] /\ inflight[r] < MaxInflight
<1>1. r \in Available
  BY DEF Choice, FirstInScan, CacheAwareChoice, BestScored, LeastLoaded
<1> QED  BY <1>1 DEF Available, Healthy
-----------------------------------------------------------------------------
LEMMA TypeInit == Init => Typed
<1> SUFFICES ASSUME Init PROVE Typed  OBVIOUS
<1>1. SchedulerTypeOK
  BY SchedulerAssumption DEF Init, SchedulerInit, SchedulerTypeOK, Replicas
<1>2. TypeOK
  BY <1>1, ReplicaFacts DEF Init, TypeOK, None
<1>3. NoLocals \in Locals /\ NoLocals.matched <= Len(NoLocals.hashes)
  BY DEF NoLocals, Locals
<1>4. None \in Statuses /\ None # "Ok"
  BY DEF Statuses, None
<1>5. LocalsOK
  BY <1>3, <1>4 DEF Init, LocalsOK
<1> QED  BY <1>2, <1>5 DEF Typed

\* The scheduler's methods keep its types.
LEMMA PickTypes ==
    ASSUME SchedulerTypeOK, NEW hashes, NEW r, Pick(hashes, r)
    PROVE  SchedulerTypeOK'
<1>1. r \in Replicas
  BY ChoiceAvailable DEF Pick
<1>2. healthy' = healthy /\ inflight' = [inflight EXCEPT ![r] = @ + 1]
  BY DEF Pick
<1>3. DOMAIN cache' = Replicas
  BY DEF Pick, SchedulerTypeOK
<1>4. rrNext' \in Replicas
  BY <1>1, SchedulerAssumption DEF Pick, SchedulerTypeOK, Replicas
<1> QED  BY <1>1, <1>2, <1>3, <1>4 DEF SchedulerTypeOK

LEMMA CompleteTypes ==
    ASSUME SchedulerTypeOK, NEW r \in Replicas, Complete(r)
    PROVE  SchedulerTypeOK'
BY DEF SchedulerTypeOK, Complete

LEMMA MarkUnhealthyTypes ==
    ASSUME SchedulerTypeOK, NEW r \in Replicas, MarkUnhealthy(r)
    PROVE  SchedulerTypeOK'
BY DEF SchedulerTypeOK, MarkUnhealthy

LEMMA FinishTypes ==
    ASSUME Typed, NEW q \in Requests, NEW status \in Statuses, Finish(q, status)
    PROVE  /\ pc' \in [Requests -> {"idle", "picked", "upstream", "returned", "completed",
                                     "markDown", "retry", "done", "cancelled"}]
           /\ replica' \in [Requests -> Replicas \cup {NoReplica}]
           /\ failed' \in [Requests -> Replicas \cup {NoReplica}]
           /\ \A p \in Requests : replica'[p] = NoReplica <=> pc'[p] \in {"idle", "retry", "done"}
           /\ LocalsOK'
<1>1. NoLocals \in Locals /\ NoLocals.matched <= Len(NoLocals.hashes)
  BY DEF NoLocals, Locals
<1>2. LocalsOK'
  BY <1>1 DEF Finish, Typed, TypeOK, LocalsOK
<1> QED  BY <1>2 DEF Finish, Typed, TypeOK

\* A handler that goes on changes only its own locals.
LEMMA UpdateTypes ==
    ASSUME Typed, NEW q \in Requests, NEW step, NEW l \in Locals,
           l.matched <= Len(l.hashes), pc[q] # "done",
           pc' = [pc EXCEPT ![q] = step], local' = [local EXCEPT ![q] = l], answer' = answer
    PROVE  LocalsOK'
BY DEF Typed, TypeOK, LocalsOK

\* A field of a handler's locals, and the rest of them.
LEMMA LocalFacts ==
    ASSUME Typed, NEW q \in Requests
    PROVE  /\ local[q].hashes \in Chains \cup {<<>>}
           /\ local[q].matched \in Nat /\ local[q].shown \in Nat
           /\ local[q].result \in UpstreamCodes \cup {None}
           /\ local[q].matched <= Len(local[q].hashes)
           /\ \A shown : [local EXCEPT ![q].shown = shown]
                = [local EXCEPT ![q] = [hashes |-> local[q].hashes, matched |-> local[q].matched,
                                        shown |-> shown, result |-> local[q].result]]
           /\ \A code : [local EXCEPT ![q].result = code]
                = [local EXCEPT ![q] = [hashes |-> local[q].hashes, matched |-> local[q].matched,
                                        shown |-> local[q].shown, result |-> code]]
<1>1. local \in [Requests -> Locals]
  BY DEF Typed, LocalsOK
<1>2. local[q] \in Locals /\ local[q].matched <= Len(local[q].hashes)
  BY <1>1 DEF Typed, LocalsOK
<1>3. \A shown : [local[q] EXCEPT !.shown = shown]
           = [hashes |-> local[q].hashes, matched |-> local[q].matched,
              shown |-> shown, result |-> local[q].result]
  BY <1>2 DEF Locals
<1>4. \A code : [local[q] EXCEPT !.result = code]
           = [hashes |-> local[q].hashes, matched |-> local[q].matched,
              shown |-> local[q].shown, result |-> code]
  BY <1>2 DEF Locals
<1> QED  BY <1>1, <1>2, <1>3, <1>4 DEF Locals

LEMMA PickReplicaTypes ==
    ASSUME Typed, NEW q \in Requests, NEW hashes \in Chains \cup {<<>>},
           pc[q] \in {"idle", "retry"}, PickReplica(q, hashes),
           UNCHANGED <<metricVars, proberVars, envVars>>
    PROVE  Typed'
<1>1. CASE \E r \in Choice(hashes) :
               /\ Pick(hashes, r)
               /\ pc' = [pc EXCEPT ![q] = "picked"]
               /\ replica' = [replica EXCEPT ![q] = r]
               /\ local' = [local EXCEPT ![q] = [hashes |-> hashes,
                                                 matched |-> MatchedBlocks(r, hashes),
                                                 shown |-> inflight'[r],
                                                 result |-> None]]
               /\ UNCHANGED <<failed, answer>>
  <2> PICK r \in Choice(hashes) :
               /\ Pick(hashes, r)
               /\ pc' = [pc EXCEPT ![q] = "picked"]
               /\ replica' = [replica EXCEPT ![q] = r]
               /\ local' = [local EXCEPT ![q] = [hashes |-> hashes,
                                                 matched |-> MatchedBlocks(r, hashes),
                                                 shown |-> inflight'[r],
                                                 result |-> None]]
               /\ UNCHANGED <<failed, answer>>
    BY <1>1
  <2>1. r \in Replicas /\ r # NoReplica
    BY ChoiceAvailable, ReplicaFacts
  <2>2. SchedulerTypeOK'
    BY PickTypes DEF Typed, TypeOK
  <2>3. inflight'[r] \in Nat
    BY <2>1, <2>2 DEF SchedulerTypeOK
  <2>4. MatchedBlocks(r, hashes) \in Nat /\ MatchedBlocks(r, hashes) <= Len(hashes)
    BY MatchedFacts
  <2>5. [hashes |-> hashes, matched |-> MatchedBlocks(r, hashes), shown |-> inflight'[r],
         result |-> None] \in Locals
    BY <2>3, <2>4 DEF Locals
  <2>6. LocalsOK'
    BY <2>4, <2>5, UpdateTypes
  <2>7. TypeOK'
    BY <2>1, <2>2, <2>6 DEF Typed, TypeOK, LocalsOK, metricVars, proberVars, envVars
  <2> QED  BY <2>6, <2>7 DEF Typed
<1>2. CASE PickFails /\ Finish(q, PickStatus)
  <2>1. PickStatus \in Statuses
    BY DEF PickStatus, Statuses
  <2>2. SchedulerTypeOK'
    BY <1>2 DEF PickFails, schedVars, SchedulerTypeOK, Typed, TypeOK
  <2>3. TypeOK'
    BY <1>2, <2>1, <2>2, FinishTypes
    DEF TypeOK, Typed, LocalsOK, metricVars, proberVars, envVars
  <2> QED  BY <1>2, <2>1, <2>3, FinishTypes DEF Typed
<1> QED  BY <1>1, <1>2 DEF PickReplica

\* One step: every action of the handlers, the prober and the environment.
LEMMA TypeNext == Typed /\ [Next]_vars => Typed'
<1> SUFFICES ASSUME Typed, [Next]_vars PROVE Typed'  OBVIOUS
<1>1. ASSUME NEW q \in Requests, Reject(q) PROVE Typed'
  <2>1. "InvalidArgument" \in Statuses
    BY DEF Statuses
  <2>2. DOMAIN local' = Requests /\ DOMAIN answer' = Requests
    BY <1>1 DEF Reject, Finish, Typed, TypeOK
  <2>3. SchedulerTypeOK' /\ UNCHANGED <<gauge, served, probe, healthyGauge, up, faults>>
    BY <1>1 DEF Reject, Typed, TypeOK, schedVars, SchedulerTypeOK, metricVars, proberVars, envVars
  <2>4. Finish(q, "InvalidArgument")
    BY <1>1 DEF Reject
  <2> QED  BY <2>1, <2>2, <2>3, <2>4, FinishTypes DEF Typed, TypeOK
<1>2. ASSUME NEW q \in Requests, NEW hashes \in Chains, FirstPick(q, hashes) PROVE Typed'
  BY <1>2, PickReplicaTypes DEF FirstPick
<1>3. ASSUME NEW q \in Requests, RetryPick(q) PROVE Typed'
  <2>1. local[q].hashes \in Chains \cup {<<>>}
    BY LocalFacts
  <2> QED  BY <1>3, <2>1, PickReplicaTypes DEF RetryPick
<1>4. ASSUME NEW q \in Requests, NEW code \in UpstreamCodes, UpstreamReturns(q, code) PROVE Typed'
  <2>1. LocalsOK'
    <3>1. [hashes |-> local[q].hashes, matched |-> local[q].matched,
           shown |-> local[q].shown, result |-> code] \in Locals
      BY LocalFacts DEF Locals
    <3>2. local' = [local EXCEPT ![q] = [hashes |-> local[q].hashes, matched |-> local[q].matched,
                                         shown |-> local[q].shown, result |-> code]]
      BY <1>4, LocalFacts DEF UpstreamReturns
    <3>3. pc[q] # "done" /\ pc' = [pc EXCEPT ![q] = "returned"] /\ answer' = answer
      BY <1>4 DEF UpstreamReturns
    <3>4. local[q].matched <= Len(local[q].hashes)
      BY LocalFacts
    <3> QED  BY <3>1, <3>2, <3>3, <3>4, UpdateTypes
  <2>2. TypeOK'
    BY <1>4 DEF UpstreamReturns, Typed, TypeOK, schedVars, SchedulerTypeOK, metricVars, proberVars,
                envVars, LocalsOK
  <2> QED  BY <2>1, <2>2 DEF Typed
<1>5. ASSUME NEW q \in Requests, PublishPick(q) PROVE Typed'
  <2>1. LocalsOK'
    BY <1>5 DEF PublishPick, Typed, TypeOK, LocalsOK
  <2>2. gauge' \in [Replicas -> Nat]
    BY <1>5, LocalFacts DEF PublishPick, Typed, TypeOK
  <2>3. TypeOK'
    BY <1>5, <2>2 DEF PublishPick, Typed, TypeOK, schedVars, SchedulerTypeOK, proberVars, envVars,
                      LocalsOK
  <2> QED  BY <2>1, <2>3 DEF Typed
<1>6. ASSUME NEW q \in Requests, CompleteCall(q) PROVE Typed'
  <2>1. replica[q] \in Replicas
    BY <1>6 DEF CompleteCall, Typed, TypeOK
  <2>2. SchedulerTypeOK'
    BY <1>6, <2>1, CompleteTypes DEF CompleteCall, Typed, TypeOK
  <2>3. LocalsOK'
    <3>1. inflight'[replica[q]] \in Nat
      BY <2>1, <2>2 DEF SchedulerTypeOK
    <3>2. [hashes |-> local[q].hashes, matched |-> local[q].matched,
           shown |-> inflight'[replica[q]], result |-> local[q].result] \in Locals
      BY <3>1, LocalFacts DEF Locals
    <3>3. local' = [local EXCEPT ![q] = [hashes |-> local[q].hashes, matched |-> local[q].matched,
                                         shown |-> inflight'[replica[q]],
                                         result |-> local[q].result]]
      BY <1>6, LocalFacts DEF CompleteCall
    <3> QED  BY <1>6, <3>2, <3>3, LocalFacts, UpdateTypes DEF CompleteCall
  <2>4. TypeOK'
    BY <1>6, <2>2, <2>3 DEF CompleteCall, Typed, TypeOK, metricVars, proberVars, envVars, LocalsOK
  <2> QED  BY <2>3, <2>4 DEF Typed
<1>7. ASSUME NEW q \in Requests, PublishComplete(q) PROVE Typed'
  <2>1. gauge' \in [Replicas -> Nat]
    BY <1>7, LocalFacts DEF PublishComplete, Typed, TypeOK
  <2>2. SchedulerTypeOK' /\ UNCHANGED <<probe, healthyGauge, up, faults>>
    BY <1>7 DEF PublishComplete, Typed, TypeOK, schedVars, SchedulerTypeOK, proberVars, envVars
  <2>3. served' \in [requests : Nat, matched : Nat, prompt : Nat]
    <3>1. Len(local[q].hashes) \in Nat /\ local[q].matched \in Nat
      BY LocalFacts, LenFacts
    <3> QED  BY <1>7, <3>1 DEF PublishComplete, RecordServed, Typed, TypeOK
  <2>4. CASE pc' = [pc EXCEPT ![q] = "markDown"] /\ pc[q] = "completed"
             /\ UNCHANGED <<replica, failed, local, answer>>
    <3>1. LocalsOK'
      BY <2>4 DEF Typed, TypeOK, LocalsOK
    <3>2. TypeOK'
      BY <2>1, <2>2, <2>3, <2>4 DEF Typed, TypeOK, LocalsOK
    <3> QED  BY <3>1, <3>2 DEF Typed
  <2>5. ASSUME NEW status \in Statuses, Finish(q, status) PROVE Typed'
    <3>1. DOMAIN local' = Requests /\ DOMAIN answer' = Requests
      BY <2>5 DEF Finish, Typed, TypeOK
    <3> QED  BY <2>1, <2>2, <2>3, <2>5, <3>1, FinishTypes DEF Typed, TypeOK
  <2>6. "Ok" \in Statuses /\ local[q].result \in Statuses
    BY LocalFacts DEF Statuses
  <2> QED  BY <1>7, <2>4, <2>5, <2>6 DEF PublishComplete
<1>8. ASSUME NEW q \in Requests, MarkDown(q) PROVE Typed'
  <2>1. replica[q] \in Replicas
    BY <1>8 DEF MarkDown, Typed, TypeOK
  <2>2. SchedulerTypeOK'
    BY <1>8, <2>1, MarkUnhealthyTypes DEF MarkDown, Typed, TypeOK
  <2>3. UNCHANGED <<gauge, served, probe, healthyGauge, up, faults>>
    BY <1>8 DEF MarkDown, metricVars, proberVars, envVars
  <2>4. CASE /\ pc' = [pc EXCEPT ![q] = "retry"]
             /\ failed' = [failed EXCEPT ![q] = replica[q]]
             /\ replica' = [replica EXCEPT ![q] = NoReplica]
             /\ local' = [local EXCEPT ![q] = [NoLocals EXCEPT !.hashes = local[q].hashes]]
             /\ UNCHANGED answer
    <3>1. pc[q] = "markDown"
      BY <1>8 DEF MarkDown
    <3>2. [NoLocals EXCEPT !.hashes = local[q].hashes]
            = [hashes |-> local[q].hashes, matched |-> 0, shown |-> 0, result |-> None]
      BY DEF NoLocals
    <3>3. [hashes |-> local[q].hashes, matched |-> 0, shown |-> 0, result |-> None] \in Locals
      BY LocalFacts DEF Locals
    <3>4. 0 <= Len(local[q].hashes)
      BY LocalFacts, LenFacts
    <3>5. LocalsOK'
      BY <2>4, <3>1, <3>2, <3>3, <3>4, UpdateTypes
    <3>6. TypeOK'
      BY <2>1, <2>2, <2>3, <2>4, <3>5 DEF Typed, TypeOK, LocalsOK
    <3> QED  BY <3>5, <3>6 DEF Typed
  <2>5. CASE Finish(q, "Unavailable")
    <3>1. "Unavailable" \in Statuses
      BY DEF Statuses
    <3>2. DOMAIN local' = Requests /\ DOMAIN answer' = Requests
      BY <2>5 DEF Finish, Typed, TypeOK
    <3> QED  BY <2>2, <2>3, <2>5, <3>1, <3>2, FinishTypes DEF Typed, TypeOK
  <2> QED  BY <1>8, <2>4, <2>5 DEF MarkDown
<1>9. ASSUME NEW q \in Requests, Cancel(q) PROVE Typed'
  BY <1>9 DEF Cancel, Typed, TypeOK, LocalsOK, schedVars, SchedulerTypeOK, metricVars, proberVars,
              envVars
<1>10. CASE ProbeStart
  BY <1>10 DEF ProbeStart, Typed, TypeOK, LocalsOK, schedVars, SchedulerTypeOK, handlerVars,
               metricVars, envVars
<1>11. ASSUME NEW r \in Replicas, ProbeAnswers(r) PROVE Typed'
  BY <1>11 DEF ProbeAnswers, Typed, TypeOK, LocalsOK, schedVars, SchedulerTypeOK, handlerVars,
               metricVars, envVars
<1>12. ASSUME NEW r \in Replicas, ProbeFaults(r) PROVE Typed'
  BY <1>12 DEF ProbeFaults, Typed, TypeOK, LocalsOK, schedVars, SchedulerTypeOK, handlerVars,
               metricVars
<1>13. CASE ProbeApply
  <2>1. Cardinality(ProbedLive) \in Nat
    <3>1. ProbedLive \in SUBSET Replicas
      BY DEF ProbedLive
    <3> QED  BY <3>1, ReplicaFacts, FS_Subset, FS_CardinalityType
  <2>2. SchedulerTypeOK'
    BY <1>13 DEF ProbeApply, Typed, TypeOK, SchedulerTypeOK
  <2> QED  BY <1>13, <2>1, <2>2 DEF ProbeApply, Typed, TypeOK, LocalsOK, handlerVars, metricVars,
                                    envVars
<1>14. ASSUME NEW r \in Replicas, Crash(r) \/ Restart(r) PROVE Typed'
  <2>1. LocalsOK'
    BY <1>14 DEF Crash, Restart, Typed, LocalsOK, handlerVars
  <2>2. SchedulerTypeOK' /\ UNCHANGED <<gauge, served, probe, healthyGauge>>
        /\ UNCHANGED <<pc, replica, failed, local, answer>>
    BY <1>14 DEF Crash, Restart, Typed, TypeOK, schedVars, SchedulerTypeOK, handlerVars, metricVars,
                 proberVars
  <2>3. up' \in [Replicas -> BOOLEAN] /\ faults' \in Nat
    <3>1. CASE Crash(r)
      BY <3>1 DEF Crash, Typed, TypeOK
    <3>2. CASE Restart(r)
      BY <3>2 DEF Restart, Typed, TypeOK
    <3> QED  BY <1>14, <3>1, <3>2
  <2>4. TypeOK'
    BY <2>2, <2>3 DEF Typed, TypeOK
  <2> QED  BY <2>1, <2>4 DEF Typed
<1>15. CASE UNCHANGED vars
  BY <1>15 DEF vars, Typed, TypeOK, LocalsOK, schedVars, SchedulerTypeOK, handlerVars, metricVars,
               proberVars, envVars
<1> QED  BY <1>1, <1>2, <1>3, <1>4, <1>5, <1>6, <1>7, <1>8, <1>9, <1>10, <1>11, <1>12, <1>13,
            <1>14, <1>15 DEF Next, Arrive, Returns, Handle

\* Router's types: every handler is at a known step and holds a replica exactly
\* while the code's decision.replica is in use (server.rs:149-220).
THEOREM RouterTypeCorrect == Spec => []TypeOK
<1>1. Typed => TypeOK
  BY DEF Typed
<1> QED  BY <1>1, TypeInit, TypeNext, PTL DEF Spec
-----------------------------------------------------------------------------
\* What a step does to the scheduler: nothing, one of its methods under the
\* mutex, or the prober's application of a pass.
LEMMA SchedulerSteps ==
    ASSUME Typed, [Next]_vars
    PROVE  \/ UNCHANGED schedVars
           \/ \E hashes : \E r \in Replicas : r \in Choice(hashes) /\ Pick(hashes, r)
           \/ \E r \in Replicas : Complete(r) \/ MarkUnhealthy(r)
           \/ ProbeApply
<1> DEFINE Goal == \/ UNCHANGED schedVars
                   \/ \E hashes : \E r \in Replicas : r \in Choice(hashes) /\ Pick(hashes, r)
                   \/ \E r \in Replicas : Complete(r) \/ MarkUnhealthy(r)
                   \/ ProbeApply
<1>1. ASSUME NEW q, NEW hashes, PickReplica(q, hashes) PROVE Goal
  <2>1. ASSUME NEW r \in Choice(hashes), Pick(hashes, r) PROVE Goal
    BY <2>1, ChoiceAvailable
  <2> QED  BY <1>1, <2>1 DEF PickReplica, PickFails
<1>2. ASSUME NEW q \in Requests, CompleteCall(q) \/ MarkDown(q) PROVE Goal
  <2>1. replica[q] \in Replicas
    BY <1>2 DEF CompleteCall, MarkDown, Typed, TypeOK
  <2> QED  BY <1>2, <2>1 DEF CompleteCall, MarkDown
<1> QED  BY <1>1, <1>2 DEF Next, Arrive, Returns, Handle, Reject, FirstPick, RetryPick,
            UpstreamReturns, PublishPick, PublishComplete, Cancel, ProbeStart, ProbeAnswers,
            ProbeFaults, Crash, Restart, vars

\* A count below the cap is raised by one only by a pick; nothing else raises one.
LEMMA CapNext ==
    ASSUME Typed, InflightCapped, [Next]_vars
    PROVE  InflightCapped'
<1>1. inflight \in [Replicas -> Nat] /\ MaxInflight \in Nat
  BY SchedulerAssumption DEF Typed, TypeOK, SchedulerTypeOK
<1>2. CASE UNCHANGED schedVars
  BY <1>2 DEF schedVars, InflightCapped
<1>3. ASSUME NEW hashes, NEW r \in Replicas, r \in Choice(hashes), Pick(hashes, r)
      PROVE  InflightCapped'
  <2>1. inflight[r] < MaxInflight
    BY <1>3, ChoiceAvailable
  <2>2. inflight' = [inflight EXCEPT ![r] = @ + 1]
    BY <1>3 DEF Pick
  <2> QED  BY <1>1, <2>1, <2>2 DEF InflightCapped
<1>4. ASSUME NEW r \in Replicas, Complete(r) PROVE InflightCapped'
  BY <1>1, <1>4 DEF Complete, InflightCapped
<1>5. ASSUME NEW r \in Replicas, MarkUnhealthy(r) PROVE InflightCapped'
  BY <1>1, <1>5 DEF MarkUnhealthy, InflightCapped
<1>6. CASE ProbeApply
  BY <1>1, <1>6 DEF ProbeApply, InflightCapped
<1> QED  BY <1>2, <1>3, <1>4, <1>5, <1>6, SchedulerSteps

\* Only a healthy replica is picked, and every way out of routing resets.
LEMMA ResetNext ==
    ASSUME Typed, UnhealthyIsReset, [Next]_vars
    PROVE  UnhealthyIsReset'
<1>1. /\ inflight \in [Replicas -> Nat] /\ healthy \in [Replicas -> BOOLEAN]
      /\ DOMAIN cache = Replicas
  BY DEF Typed, TypeOK, SchedulerTypeOK
<1>2. CASE UNCHANGED schedVars
  BY <1>2 DEF schedVars, UnhealthyIsReset
<1>3. ASSUME NEW hashes, NEW r \in Replicas, r \in Choice(hashes), Pick(hashes, r)
      PROVE  UnhealthyIsReset'
  <2>1. healthy[r] /\ healthy' = healthy
    BY <1>3, ChoiceAvailable DEF Pick
  <2>2. \A p \in Replicas : p # r => inflight'[p] = inflight[p] /\ cache'[p] = cache[p]
    BY <1>1, <1>3 DEF Pick
  <2> QED  BY <2>1, <2>2 DEF UnhealthyIsReset
<1>4. ASSUME NEW r \in Replicas, Complete(r) PROVE UnhealthyIsReset'
  BY <1>1, <1>4 DEF Complete, UnhealthyIsReset
<1>5. ASSUME NEW r \in Replicas, MarkUnhealthy(r) PROVE UnhealthyIsReset'
  BY <1>1, <1>5 DEF MarkUnhealthy, UnhealthyIsReset
<1>6. CASE ProbeApply
  BY <1>1, <1>6 DEF ProbeApply, UnhealthyIsReset, ProbedDead
<1> QED  BY <1>2, <1>3, <1>4, <1>5, <1>6, SchedulerSteps

\* The in-flight count of a replica never exceeds the cap that pick tests
\* (scheduler.rs:115), with any number of handlers, resets and late completions.
THEOREM RouterCapped == Spec => []InflightCapped
<1>1. Init => InflightCapped
  BY SchedulerAssumption DEF Init, SchedulerInit, InflightCapped
<1>2. Typed /\ InflightCapped /\ [Next]_vars => InflightCapped'
  BY CapNext
<1> QED  BY <1>1, <1>2, TypeInit, TypeNext, PTL DEF Spec

\* A replica out of routing is idle and cold whenever it comes back
\* (scheduler.rs:216-229), whoever took it out and whatever completed since.
THEOREM RouterResets == Spec => []UnhealthyIsReset
<1>1. Init => UnhealthyIsReset
  BY DEF Init, SchedulerInit, UnhealthyIsReset
<1>2. Typed /\ UnhealthyIsReset /\ [Next]_vars => UnhealthyIsReset'
  BY ResetNext
<1> QED  BY <1>1, <1>2, TypeInit, TypeNext, PTL DEF Spec
-----------------------------------------------------------------------------
LEMMA HeldFacts ==
    ASSUME NEW r
    PROVE  Held(r) = Holders(r) \cup Abandoned(r) /\ IsFiniteSet(Held(r))
<1>1. Held(r) \in SUBSET Requests
  BY DEF Held
<1> QED  BY <1>1, RouterAssumption, FS_Subset DEF Held, Holders, Abandoned

\* The number of handlers at r grows by one when one picks r, and drops by one
\* when one completes.
LEMMA HeldGrows ==
    ASSUME NEW r, NEW q \in Requests, q \notin Held(r), Held(r)' = Held(r) \cup {q}
    PROVE  Cardinality(Held(r)') = Cardinality(Held(r)) + 1
BY HeldFacts, FS_AddElement

LEMMA HeldShrinks ==
    ASSUME NEW r, NEW q \in Held(r), Held(r)' = Held(r) \ {q}
    PROVE  Cardinality(Held(r)') = Cardinality(Held(r)) - 1
BY HeldFacts, FS_RemoveElement

LoadHeld == \A r \in Replicas : inflight[r] <= Cardinality(Held(r))

\* What a step may do to r's in-flight count: reset it, or change it by no more
\* than the number of r's handlers changes by.
LoadMoves ==
    \A r \in Replicas :
        \/ inflight'[r] = 0
        \/ inflight'[r] + Cardinality(Held(r)) <= inflight[r] + Cardinality(Held(r)')

\* A step that picks nothing and completes nothing keeps every handler at its
\* replica, and lowers an in-flight count if it changes it.
LEMMA LoadKept ==
    ASSUME inflight \in [Replicas -> Nat],
           \A r \in Replicas : Held(r)' = Held(r),
           \A r \in Replicas : inflight'[r] = inflight[r] \/ inflight'[r] = 0
    PROVE  LoadMoves
<1> SUFFICES ASSUME NEW r \in Replicas, inflight'[r] # 0
             PROVE  inflight'[r] + Cardinality(Held(r)) <= inflight[r] + Cardinality(Held(r)')
  BY DEF LoadMoves
<1>1. inflight[r] \in Nat /\ Cardinality(Held(r)) \in Nat
  BY HeldFacts, FS_CardinalityType
<1>2. Held(r)' = Held(r) /\ inflight'[r] = inflight[r]
  OBVIOUS
<1> QED  BY <1>1, <1>2

LEMMA LoadPicked ==
    ASSUME Typed, NEW q \in Requests, NEW hashes, pc[q] \in {"idle", "retry"},
           PickReplica(q, hashes)
    PROVE  LoadMoves
<1>1. /\ inflight \in [Replicas -> Nat] /\ DOMAIN pc = Requests
      /\ DOMAIN replica = Requests
  BY DEF Typed, TypeOK, SchedulerTypeOK
<1>2. ASSUME NEW r \in Choice(hashes), Pick(hashes, r), pc' = [pc EXCEPT ![q] = "picked"],
             replica' = [replica EXCEPT ![q] = r]
      PROVE  LoadMoves
  <2> SUFFICES ASSUME NEW p \in Replicas
               PROVE  inflight'[p] + Cardinality(Held(p)) <= inflight[p] + Cardinality(Held(p)')
    BY DEF LoadMoves
  <2>1. inflight[p] \in Nat /\ Cardinality(Held(p)) \in Nat
    BY <1>1, HeldFacts, FS_CardinalityType
  <2>2. q \notin Held(p)
    BY DEF Held
  <2>3. CASE p = r
    <3>1. Held(p)' = Held(p) \cup {q}
      BY <1>1, <1>2, <2>3 DEF Held
    <3>2. Cardinality(Held(p)') = Cardinality(Held(p)) + 1
      BY <2>2, <3>1, HeldGrows
    <3>3. inflight'[p] = inflight[p] + 1
      BY <1>1, <1>2, <2>3 DEF Pick
    <3> QED  BY <2>1, <3>2, <3>3
  <2>4. CASE p # r
    <3>1. Held(p)' = Held(p)
      BY <1>1, <1>2, <2>2, <2>4 DEF Held
    <3>2. inflight'[p] = inflight[p]
      BY <1>1, <1>2, <2>4 DEF Pick
    <3> QED  BY <2>1, <3>1, <3>2
  <2> QED  BY <2>3, <2>4
<1>3. CASE PickFails /\ Finish(q, PickStatus)
  <2>1. \A r \in Replicas : Held(r)' = Held(r)
    BY <1>1, <1>3, ReplicaFacts DEF Finish, Held
  <2>2. \A r \in Replicas : inflight'[r] = inflight[r]
    BY <1>3 DEF PickFails, schedVars
  <2> QED  BY <1>1, <2>1, <2>2, LoadKept
<1> QED  BY <1>2, <1>3 DEF PickReplica

LEMMA LoadCompleted ==
    ASSUME Typed, NEW q \in Requests, CompleteCall(q)
    PROVE  LoadMoves
<1>1. /\ inflight \in [Replicas -> Nat] /\ DOMAIN pc = Requests
      /\ replica[q] \in Replicas
  BY DEF Typed, TypeOK, SchedulerTypeOK, CompleteCall
<1> SUFFICES ASSUME NEW p \in Replicas, inflight'[p] # 0
             PROVE  inflight'[p] + Cardinality(Held(p)) <= inflight[p] + Cardinality(Held(p)')
  BY DEF LoadMoves
<1>2. inflight[p] \in Nat /\ Cardinality(Held(p)) \in Nat
  BY <1>1, HeldFacts, FS_CardinalityType
<1>3. CASE p = replica[q]
  <2>1. q \in Held(p)
    BY <1>3 DEF CompleteCall, Held
  <2>2. Held(p)' = Held(p) \ {q}
    BY <1>1, <1>3 DEF CompleteCall, Held
  <2>3. Cardinality(Held(p)') = Cardinality(Held(p)) - 1
    BY <2>1, <2>2, HeldShrinks
  <2>4. inflight'[p] = IF inflight[p] = 0 THEN 0 ELSE inflight[p] - 1
    BY <1>1, <1>3 DEF CompleteCall, Complete
  <2> QED  BY <1>2, <2>3, <2>4
<1>4. CASE p # replica[q]
  <2>1. Held(p)' = Held(p)
    BY <1>1, <1>4 DEF CompleteCall, Held
  <2>2. inflight'[p] = inflight[p]
    BY <1>1, <1>4 DEF CompleteCall, Complete
  <2> QED  BY <1>2, <2>1, <2>2
<1> QED  BY <1>3, <1>4

LEMMA LoadNext ==
    ASSUME Typed, [Next]_vars
    PROVE  LoadMoves
<1>1. /\ inflight \in [Replicas -> Nat] /\ DOMAIN pc = Requests /\ DOMAIN replica = Requests
      /\ \A q \in Requests : replica[q] = NoReplica <=> pc[q] \in {"idle", "retry", "done"}
  BY DEF Typed, TypeOK, SchedulerTypeOK
<1>2. ASSUME UNCHANGED inflight, \A r \in Replicas : Held(r)' = Held(r) PROVE LoadMoves
  BY <1>1, <1>2, LoadKept
<1>3. ASSUME NEW q \in Requests, Arrive(q) PROVE LoadMoves
  <2>1. CASE Reject(q)
    <3>1. \A r \in Replicas : Held(r)' = Held(r)
      BY <1>1, <2>1 DEF Reject, Finish, Held
    <3> QED  BY <1>2, <2>1, <3>1 DEF Reject, schedVars
  <2>2. ASSUME NEW hashes \in Chains, FirstPick(q, hashes) PROVE LoadMoves
    BY <2>2, LoadPicked DEF FirstPick
  <2> QED  BY <1>3, <2>1, <2>2 DEF Arrive
<1>4. ASSUME NEW q \in Requests, RetryPick(q) PROVE LoadMoves
  BY <1>4, LoadPicked DEF RetryPick
<1>5. ASSUME NEW q \in Requests, Returns(q) \/ PublishPick(q) \/ Cancel(q) PROVE LoadMoves
  <2>1. \A r \in Replicas : Held(r)' = Held(r)
    BY <1>1, <1>5 DEF Returns, UpstreamReturns, PublishPick, Cancel, Held
  <2> QED  BY <1>2, <1>5, <2>1 DEF Returns, UpstreamReturns, PublishPick, Cancel, schedVars
<1>6. ASSUME NEW q \in Requests, PublishComplete(q) PROVE LoadMoves
  <2>1. \A r \in Replicas : Held(r)' = Held(r)
    BY <1>1, <1>6 DEF PublishComplete, Finish, Held
  <2> QED  BY <1>2, <1>6, <2>1 DEF PublishComplete, schedVars
<1>7. ASSUME NEW q \in Requests, MarkDown(q) PROVE LoadMoves
  <2>1. \A r \in Replicas : Held(r)' = Held(r)
    BY <1>1, <1>7 DEF MarkDown, Finish, Held
  <2>2. \A r \in Replicas : inflight'[r] = inflight[r] \/ inflight'[r] = 0
    BY <1>1, <1>7 DEF MarkDown, MarkUnhealthy
  <2> QED  BY <1>1, <2>1, <2>2, LoadKept
<1>8. ASSUME UNCHANGED handlerVars, UNCHANGED schedVars \/ ProbeApply PROVE LoadMoves
  <2>1. \A r \in Replicas : Held(r)' = Held(r)
    BY <1>8 DEF handlerVars, Held
  <2>2. \A r \in Replicas : inflight'[r] = inflight[r] \/ inflight'[r] = 0
    BY <1>1, <1>8 DEF ProbeApply, schedVars
  <2> QED  BY <1>1, <2>1, <2>2, LoadKept
<1>9. ASSUME NEW q \in Requests, CompleteCall(q) PROVE LoadMoves
  BY <1>9, LoadCompleted
<1>10. CASE ProbeStart \/ ProbeApply \/ UNCHANGED vars
  BY <1>8, <1>10 DEF ProbeStart, ProbeApply, vars
<1>11. ASSUME NEW r \in Replicas, ProbeAnswers(r) \/ ProbeFaults(r) \/ Crash(r) \/ Restart(r)
       PROVE  LoadMoves
  BY <1>8, <1>11 DEF ProbeAnswers, ProbeFaults, Crash, Restart
<1> QED  BY <1>3, <1>4, <1>5, <1>6, <1>7, <1>9, <1>10, <1>11 DEF Next, Handle

LEMMA LoadKeptHeld ==
    ASSUME Typed, Typed', LoadHeld, LoadMoves
    PROVE  LoadHeld'
<1> SUFFICES ASSUME NEW r \in Replicas PROVE inflight'[r] <= Cardinality(Held(r)')
  BY DEF LoadHeld
<1>1. inflight[r] \in Nat /\ inflight'[r] \in Nat
  BY DEF Typed, TypeOK, SchedulerTypeOK
<1>2. Cardinality(Held(r)) \in Nat /\ inflight[r] <= Cardinality(Held(r))
  BY HeldFacts, FS_CardinalityType DEF LoadHeld
<1>3. Cardinality(Held(r)') \in Nat
  <2>1. Held(r)' \in SUBSET Requests
    BY DEF Held
  <2> QED  BY <2>1, RouterAssumption, FS_Subset, FS_CardinalityType
<1> QED  BY <1>1, <1>2, <1>3 DEF LoadMoves

\* A replica's in-flight count is at most the number of requests that hold it
\* or were abandoned while they did (scheduler.rs:204-224): the only way to
\* keep load that nobody will ever release is a dropped handler.
THEOREM RouterLoadAccounted == Spec => []LoadAccounted
<1>1. Init => LoadHeld
  <2> SUFFICES ASSUME Init, NEW r \in Replicas PROVE inflight[r] <= Cardinality(Held(r))
    BY DEF LoadHeld
  <2>1. Cardinality(Held(r)) \in Nat /\ inflight[r] = 0
    BY HeldFacts, FS_CardinalityType DEF Init, SchedulerInit
  <2> QED  BY <2>1
<1>2. Typed /\ LoadHeld /\ [Next]_vars => LoadHeld'
  BY TypeNext, LoadNext, LoadKeptHeld
<1>3. LoadHeld => LoadAccounted
  BY HeldFacts DEF LoadHeld, LoadAccounted
<1> QED  BY <1>1, <1>2, <1>3, TypeInit, TypeNext, PTL DEF Spec
-----------------------------------------------------------------------------
\* The requests answered Ok, which the counter counts.
Answered == {q \in Requests : answer[q] = "Ok"}

LEMMA AnsweredFinite == IsFiniteSet(Answered)
<1>1. Answered \in SUBSET Requests
  BY DEF Answered
<1> QED  BY <1>1, RouterAssumption, FS_Subset

\* Only PublishComplete counts a request; every other step leaves the counters
\* alone and answers nobody Ok.
LEMMA CountsElsewhere ==
    ASSUME Typed, [Next]_vars, \A q \in Requests : ~PublishComplete(q)
    PROVE  served' = served /\ Answered' = Answered
<1>1. DOMAIN answer = Requests /\ (\A q \in Requests : answer[q] = "Ok" => pc[q] = "done")
  BY DEF Typed, TypeOK, LocalsOK
<1>2. ASSUME NEW q \in Requests, NEW status, status # "Ok", pc[q] # "done", Finish(q, status)
      PROVE  Answered' = Answered
  BY <1>1, <1>2 DEF Finish, Answered
<1>3. ASSUME NEW q \in Requests, NEW hashes, pc[q] # "done", PickReplica(q, hashes)
      PROVE  Answered' = Answered
  <2>1. PickStatus # "Ok"
    BY DEF PickStatus
  <2>2. CASE UNCHANGED answer
    BY <2>2 DEF Answered
  <2> QED  BY <1>2, <1>3, <2>1, <2>2 DEF PickReplica
<1>4. ASSUME NEW q \in Requests, Arrive(q) \/ RetryPick(q)
      PROVE  served' = served /\ Answered' = Answered
  <2>1. ASSUME Reject(q) PROVE served' = served /\ Answered' = Answered
    BY <1>2, <2>1 DEF Reject, metricVars
  <2>2. ASSUME NEW hashes, FirstPick(q, hashes) PROVE served' = served /\ Answered' = Answered
    BY <1>3, <2>2 DEF FirstPick, metricVars
  <2>3. ASSUME RetryPick(q) PROVE served' = served /\ Answered' = Answered
    BY <1>3, <2>3 DEF RetryPick, metricVars
  <2> QED  BY <1>4, <2>1, <2>2, <2>3 DEF Arrive
<1>5. ASSUME NEW q \in Requests, MarkDown(q) PROVE served' = served /\ Answered' = Answered
  <2>1. CASE UNCHANGED answer
    BY <1>5, <2>1 DEF MarkDown, metricVars, Answered
  <2>2. CASE Finish(q, "Unavailable")
    BY <1>2, <1>5, <2>2 DEF MarkDown, metricVars
  <2> QED  BY <1>5, <2>1, <2>2 DEF MarkDown
<1>6. ASSUME UNCHANGED <<served, answer>> PROVE served' = served /\ Answered' = Answered
  BY <1>6 DEF Answered
<1>7. ASSUME NEW q \in Requests, Returns(q) \/ PublishPick(q) \/ CompleteCall(q) \/ Cancel(q)
      PROVE  served' = served /\ Answered' = Answered
  BY <1>6, <1>7 DEF Returns, UpstreamReturns, PublishPick, CompleteCall, Cancel, metricVars
<1>8. ASSUME NEW r \in Replicas, ProbeAnswers(r) \/ ProbeFaults(r) \/ Crash(r) \/ Restart(r)
      PROVE  served' = served /\ Answered' = Answered
  BY <1>6, <1>8 DEF ProbeAnswers, ProbeFaults, Crash, Restart, handlerVars, metricVars
<1>9. ASSUME ProbeStart \/ ProbeApply \/ UNCHANGED vars
      PROVE  served' = served /\ Answered' = Answered
  BY <1>6, <1>9 DEF ProbeStart, ProbeApply, vars, handlerVars, metricVars
<1> QED  BY <1>4, <1>5, <1>7, <1>8, <1>9 DEF Next, Handle

LEMMA ServedNext ==
    ASSUME Typed, ServedOnce, [Next]_vars
    PROVE  ServedOnce'
<1>1. /\ served \in [requests : Nat, matched : Nat, prompt : Nat]
      /\ served.requests = Cardinality(Answered) /\ served.matched <= served.prompt
  BY DEF Typed, TypeOK, ServedOnce, Answered
<1> SUFFICES served'.requests = Cardinality(Answered') /\ served'.matched <= served'.prompt
  BY DEF ServedOnce, Answered
<1>2. CASE \A q \in Requests : ~PublishComplete(q)
  BY <1>1, <1>2, CountsElsewhere
<1>3. ASSUME NEW q \in Requests, PublishComplete(q)
      PROVE  served'.requests = Cardinality(Answered') /\ served'.matched <= served'.prompt
  <2>1. DOMAIN answer = Requests /\ answer[q] # "Ok"
    BY <1>3 DEF PublishComplete, Typed, TypeOK, LocalsOK
  <2>2. CASE RecordServed(q) /\ Finish(q, "Ok")
    <3>1. Answered' = Answered \cup {q} /\ q \notin Answered
      BY <2>1, <2>2 DEF Finish, Answered
    <3>2. Cardinality(Answered') = Cardinality(Answered) + 1
      BY <3>1, AnsweredFinite, FS_AddElement
    <3>3. /\ Len(local[q].hashes) \in Nat /\ local[q].matched \in Nat
          /\ local[q].matched <= Len(local[q].hashes)
      BY LocalFacts, LenFacts
    <3> QED  BY <1>1, <2>2, <3>2, <3>3 DEF RecordServed
  <2>3. CASE UNCHANGED <<answer, served>>
    BY <1>1, <2>3 DEF Answered
  <2>4. CASE local[q].result # "Ok" /\ Finish(q, local[q].result) /\ UNCHANGED served
    <3>1. Answered' = Answered
      BY <2>1, <2>4 DEF Finish, Answered
    <3> QED  BY <1>1, <2>4, <3>1
  <2> QED  BY <1>3, <2>2, <2>3, <2>4 DEF PublishComplete
<1> QED  BY <1>2, <1>3

\* requests_total counts every request answered Ok once, retried or not, and
\* the block counters never claim more hits than blocks (server.rs:112-124).
THEOREM RouterServedOnce == Spec => []ServedOnce
<1>1. Init => ServedOnce
  <2> SUFFICES ASSUME Init PROVE ServedOnce  OBVIOUS
  <2>1. Answered = {}
    BY DEF Init, Answered, None
  <2>2. Cardinality(Answered) = 0
    BY <2>1, FS_EmptySet
  <2> QED  BY <2>2 DEF Init, ServedOnce, Answered
<1>2. Typed /\ ServedOnce /\ [Next]_vars => ServedOnce'
  BY ServedNext
<1> QED  BY <1>1, <1>2, TypeInit, TypeNext, PTL DEF Spec
-----------------------------------------------------------------------------
\* Router implements RouterContract.
\* What the handlers' program counters say about the current call and attempt.
CallsKnown ==
    \A q \in Requests :
        /\ local[q].result # None <=> pc[q] \in {"returned", "completed", "markDown"}
        /\ pc[q] = "markDown" => IsTransportFailure(local[q].result)
        /\ pc[q] = "idle" => failed[q] = NoReplica
        /\ pc[q] = "retry" => failed[q] # NoReplica

\* Only q's handler moves.
OnlyMoves(q) ==
    /\ \A p \in Requests \ {q} :
           pc'[p] = pc[p] /\ failed'[p] = failed[p] /\ local'[p] = local[p] /\ answer'[p] = answer[p]
    /\ DOMAIN answer' = Requests

\* No request moves, as the contract sees it; what can be picked may change.
Hidden ==
    UNCHANGED <<[q \in Requests |-> Phase(q)], [q \in Requests |-> local[q].result], answer>>

\* What the contract allows a step of q's handler to do.
Allowed(q) == Contract!Serve(q) \/ Hidden
-----------------------------------------------------------------------------
LEMMA FinishMoves ==
    ASSUME Typed, NEW q \in Requests, NEW status, Finish(q, status)
    PROVE  /\ OnlyMoves(q)
           /\ pc'[q] = "done" /\ failed'[q] = NoReplica /\ local'[q].result = None
           /\ answer'[q] = status
<1>1. NoLocals.result = None
  BY DEF NoLocals
<1> QED  BY <1>1 DEF Finish, OnlyMoves, Typed, TypeOK

\* A handler that picks goes on with a replica, or is refused.
LEMMA PickMoves ==
    ASSUME Typed, NEW q \in Requests, NEW hashes, PickReplica(q, hashes)
    PROVE  /\ OnlyMoves(q)
           /\ \/ /\ Available # {} /\ pc'[q] = "picked"
                 /\ failed'[q] = failed[q] /\ local'[q].result = None /\ answer' = answer
              \/ /\ Available = {} /\ pc'[q] = "done" /\ failed'[q] = NoReplica
                 /\ local'[q].result = None /\ answer'[q] = PickStatus
                 /\ DOMAIN answer' = Requests
<1>1. ASSUME NEW r \in Choice(hashes),
             pc' = [pc EXCEPT ![q] = "picked"],
             local' = [local EXCEPT ![q] = [hashes |-> hashes, matched |-> MatchedBlocks(r, hashes),
                                            shown |-> inflight'[r], result |-> None]],
             UNCHANGED <<failed, answer>>
      PROVE  /\ OnlyMoves(q) /\ Available # {} /\ pc'[q] = "picked"
             /\ failed'[q] = failed[q] /\ local'[q].result = None /\ answer' = answer
  <2>1. Available # {}
    BY ChoiceAvailable DEF Available, Healthy
  <2> QED  BY <1>1, <2>1 DEF OnlyMoves, Typed, TypeOK
<1>2. CASE PickFails /\ Finish(q, PickStatus)
  BY <1>2, FinishMoves DEF PickFails, OnlyMoves
<1> QED  BY <1>1, <1>2 DEF PickReplica

\* What each step of a handler moves.
LEMMA HandlerMoves ==
    ASSUME Typed, NEW q \in Requests
    PROVE  /\ Reject(q) =>
                  /\ OnlyMoves(q) /\ pc[q] = "idle" /\ pc'[q] = "done" /\ failed'[q] = NoReplica
                  /\ local'[q].result = None /\ answer'[q] = "InvalidArgument"
           /\ PublishPick(q) =>
                  /\ OnlyMoves(q) /\ pc[q] = "picked" /\ pc'[q] = "upstream"
                  /\ UNCHANGED <<failed, local, answer>>
           /\ Cancel(q) =>
                  /\ OnlyMoves(q) /\ pc[q] = "upstream" /\ pc'[q] = "cancelled"
                  /\ UNCHANGED <<failed, local, answer>>
<1>1. Reject(q) =>
          /\ OnlyMoves(q) /\ pc[q] = "idle" /\ pc'[q] = "done" /\ failed'[q] = NoReplica
          /\ local'[q].result = None /\ answer'[q] = "InvalidArgument"
  BY FinishMoves DEF Reject
<1> QED  BY <1>1 DEF PublishPick, Cancel, OnlyMoves, Typed, TypeOK

LEMMA CallMoves ==
    ASSUME Typed, NEW q \in Requests
    PROVE  /\ \A code : UpstreamReturns(q, code) =>
                  /\ OnlyMoves(q) /\ pc[q] = "upstream" /\ pc'[q] = "returned"
                  /\ local'[q].result = code /\ UNCHANGED <<failed, answer>>
           /\ CompleteCall(q) =>
                  /\ OnlyMoves(q) /\ pc[q] = "returned" /\ pc'[q] = "completed"
                  /\ local'[q].result = local[q].result /\ UNCHANGED <<failed, answer>>
<1>1. DOMAIN local = Requests /\ DOMAIN pc = Requests /\ DOMAIN answer = Requests
  BY DEF Typed, TypeOK
<1>2. ASSUME NEW code, UpstreamReturns(q, code)
      PROVE  /\ OnlyMoves(q) /\ pc[q] = "upstream" /\ pc'[q] = "returned"
             /\ local'[q].result = code /\ UNCHANGED <<failed, answer>>
  <2>1. local' = [local EXCEPT ![q] = [hashes |-> local[q].hashes, matched |-> local[q].matched,
                                       shown |-> local[q].shown, result |-> code]]
    BY <1>2, LocalFacts DEF UpstreamReturns
  <2> QED  BY <1>1, <1>2, <2>1 DEF UpstreamReturns, OnlyMoves
<1>3. ASSUME CompleteCall(q)
      PROVE  /\ OnlyMoves(q) /\ pc[q] = "returned" /\ pc'[q] = "completed"
             /\ local'[q].result = local[q].result /\ UNCHANGED <<failed, answer>>
  <2>1. local' = [local EXCEPT ![q] = [hashes |-> local[q].hashes, matched |-> local[q].matched,
                                       shown |-> inflight'[replica[q]],
                                       result |-> local[q].result]]
    BY <1>3, LocalFacts DEF CompleteCall
  <2> QED  BY <1>1, <1>3, <2>1 DEF CompleteCall, OnlyMoves
<1> QED  BY <1>2, <1>3

\* What ends an attempt: the result is passed on, or the replica is marked down
\* and the handler tries again or gives up.
LEMMA EndMoves ==
    ASSUME Typed, NEW q \in Requests
    PROVE  /\ PublishComplete(q) =>
                  /\ OnlyMoves(q) /\ pc[q] = "completed"
                  /\ \/ /\ IsTransportFailure(local[q].result) /\ pc'[q] = "markDown"
                        /\ UNCHANGED <<failed, local, answer>>
                     \/ /\ ~IsTransportFailure(local[q].result) /\ pc'[q] = "done"
                        /\ failed'[q] = NoReplica /\ local'[q].result = None
                        /\ answer'[q] = local[q].result
           /\ MarkDown(q) =>
                  /\ OnlyMoves(q) /\ pc[q] = "markDown" /\ local'[q].result = None
                  /\ \/ /\ failed[q] = NoReplica /\ pc'[q] = "retry" /\ failed'[q] # NoReplica
                        /\ answer' = answer
                     \/ /\ failed[q] # NoReplica /\ pc'[q] = "done" /\ failed'[q] = NoReplica
                        /\ answer'[q] = "Unavailable"
<1>1. /\ DOMAIN local = Requests /\ DOMAIN pc = Requests /\ DOMAIN failed = Requests
      /\ DOMAIN answer = Requests
  BY DEF Typed, TypeOK
<1>2. ASSUME PublishComplete(q)
      PROVE  /\ OnlyMoves(q) /\ pc[q] = "completed"
             /\ \/ /\ IsTransportFailure(local[q].result) /\ pc'[q] = "markDown"
                   /\ UNCHANGED <<failed, local, answer>>
                \/ /\ ~IsTransportFailure(local[q].result) /\ pc'[q] = "done"
                   /\ failed'[q] = NoReplica /\ local'[q].result = None
                   /\ answer'[q] = local[q].result
  <2>1. ~IsTransportFailure("Ok")
    BY DEF IsTransportFailure
  <2>2. CASE local[q].result = "Ok" /\ Finish(q, "Ok")
    BY <1>2, <2>1, <2>2, FinishMoves DEF PublishComplete
  <2>3. CASE /\ IsTransportFailure(local[q].result) /\ pc' = [pc EXCEPT ![q] = "markDown"]
             /\ UNCHANGED <<failed, local, answer>>
    BY <1>1, <1>2, <2>3 DEF PublishComplete, OnlyMoves
  <2>4. CASE ~IsTransportFailure(local[q].result) /\ Finish(q, local[q].result)
    BY <1>2, <2>4, FinishMoves DEF PublishComplete
  <2> QED  BY <1>2, <2>2, <2>3, <2>4 DEF PublishComplete
<1>3. ASSUME MarkDown(q)
      PROVE  /\ OnlyMoves(q) /\ pc[q] = "markDown" /\ local'[q].result = None
             /\ \/ /\ failed[q] = NoReplica /\ pc'[q] = "retry" /\ failed'[q] # NoReplica
                   /\ answer' = answer
                \/ /\ failed[q] # NoReplica /\ pc'[q] = "done" /\ failed'[q] = NoReplica
                   /\ answer'[q] = "Unavailable"
  <2>1. pc[q] = "markDown" /\ replica[q] # NoReplica
    BY <1>3 DEF MarkDown, Typed, TypeOK
  <2>2. CASE /\ failed[q] = NoReplica
             /\ pc' = [pc EXCEPT ![q] = "retry"]
             /\ failed' = [failed EXCEPT ![q] = replica[q]]
             /\ local' = [local EXCEPT ![q] = [NoLocals EXCEPT !.hashes = local[q].hashes]]
             /\ UNCHANGED answer
    <3>1. [NoLocals EXCEPT !.hashes = local[q].hashes].result = None
      BY DEF NoLocals
    <3> QED  BY <1>1, <2>1, <2>2, <3>1 DEF OnlyMoves
  <2>3. CASE failed[q] # NoReplica /\ Finish(q, "Unavailable")
    BY <2>1, <2>3, FinishMoves
  <2> QED  BY <1>3, <2>2, <2>3 DEF MarkDown
<1> QED  BY <1>2, <1>3
-----------------------------------------------------------------------------

\* A step of q's handler alone keeps CallsKnown if it keeps q's part of it.
LEMMA CallsKept ==
    ASSUME CallsKnown, NEW q \in Requests, OnlyMoves(q),
           local'[q].result # None <=> pc'[q] \in {"returned", "completed", "markDown"},
           pc'[q] = "markDown" => IsTransportFailure(local'[q].result),
           pc'[q] = "idle" => failed'[q] = NoReplica,
           pc'[q] = "retry" => failed'[q] # NoReplica
    PROVE  CallsKnown'
BY DEF CallsKnown, OnlyMoves

\* The abstract state changes at q, and nowhere else.
LEMMA MapsAt ==
    ASSUME Typed, Typed', NEW q \in Requests, OnlyMoves(q),
           NEW where, NEW code, Phase(q)' = where, local'[q].result = code
    PROVE  /\ Contract!Becomes(q, where, code)
           /\ answer' = [answer EXCEPT ![q] = answer'[q]]
<1>1. \A p \in Requests \ {q} : Phase(p)' = Phase(p) /\ local'[p].result = local[p].result
  BY DEF OnlyMoves, Phase
<1>2. [p \in Requests |-> Phase(p)]' = [[p \in Requests |-> Phase(p)] EXCEPT ![q] = where]
  BY <1>1
<1>3. [p \in Requests |-> local[p].result]'
        = [[p \in Requests |-> local[p].result] EXCEPT ![q] = code]
  BY <1>1
<1>4. answer \in [Requests -> Statuses] /\ answer' \in [Requests -> Statuses]
  BY DEF Typed, LocalsOK
<1>5. answer' = [answer EXCEPT ![q] = answer'[q]]
  BY <1>4 DEF OnlyMoves
<1> QED  BY <1>2, <1>3, <1>5 DEF Contract!Becomes

LEMMA AnswersAt ==
    ASSUME Typed, Typed', NEW q \in Requests, OnlyMoves(q), NEW status,
           Phase(q)' = "done", local'[q].result = None, answer'[q] = status
    PROVE  Contract!Answers(q, status)
<1>1. Contract!Becomes(q, "done", None) /\ answer' = [answer EXCEPT ![q] = answer'[q]]
  BY MapsAt
<1> QED  BY <1>1 DEF Contract!Answers, Contract!None, None

\* Where each step of a handler is in its request's life.
LEMMA PhaseFacts ==
    ASSUME NEW q \in Requests
    PROVE  /\ pc[q] = "idle" => Phase(q) = "idle"
           /\ pc[q] = "retry" => Phase(q) = "between"
           /\ pc[q] = "done" => Phase(q) = "done"
           /\ pc[q] = "cancelled" => Phase(q) = "gone"
           /\ pc[q] \in {"picked", "upstream", "returned", "completed", "markDown"} =>
                  Phase(q) = IF failed[q] = NoReplica THEN "first" ELSE "second"
BY DEF Phase

LEMMA FaultsAre ==
    ASSUME NEW code
    PROVE  IsTransportFailure(code) <=> code \in Contract!Retryable
BY DEF IsTransportFailure, Contract!Retryable

\* The handler of q moves on without a step of its request.
LEMMA Stutters ==
    ASSUME Typed, Typed', NEW q \in Requests, OnlyMoves(q),
           Phase(q)' = Phase(q), local'[q].result = local[q].result, answer' = answer
    PROVE  Hidden
<1>1. \A p \in Requests : Phase(p)' = Phase(p) /\ local'[p].result = local[p].result
  BY DEF OnlyMoves, Phase
<1>2. [p \in Requests |-> Phase(p)]' = [p \in Requests |-> Phase(p)]
  BY <1>1
<1>3. [p \in Requests |-> local[p].result]' = [p \in Requests |-> local[p].result]
  BY <1>1
<1> QED  BY <1>2, <1>3 DEF Hidden
-----------------------------------------------------------------------------
\* Before the calls: an answer without a call, or a pick.
LEMMA PickAllowed ==
    ASSUME Typed, Typed', CallsKnown, NEW q \in Requests, NEW hashes,
           pc[q] \in {"idle", "retry"}, PickReplica(q, hashes)
    PROVE  Allowed(q) /\ CallsKnown'
<1>1. OnlyMoves(q)
  BY PickMoves
<1>3. \/ pc[q] = "idle" /\ Phase(q) = "idle" /\ failed[q] = NoReplica
      \/ pc[q] = "retry" /\ Phase(q) = "between" /\ failed[q] # NoReplica
  BY PhaseFacts DEF CallsKnown
<1>4. CASE /\ Available # {} /\ pc'[q] = "picked" /\ failed'[q] = failed[q]
           /\ local'[q].result = None /\ answer' = answer
  <2>1. Phase(q)' = IF failed[q] = NoReplica THEN "first" ELSE "second"
    BY <1>4 DEF Phase
  <2>2. Routing = "open"
    BY <1>4 DEF Routing
  <2>3. ASSUME failed[q] = NoReplica PROVE Contract!Forward(q)
    <3>1. Contract!Becomes(q, "first", None)
      BY <1>1, <1>4, <2>1, <2>3, MapsAt
    <3> QED  BY <1>3, <1>4, <2>2, <2>3, <3>1 DEF Contract!Forward, Contract!None, None
  <2>4. ASSUME failed[q] # NoReplica PROVE Contract!Forward(q)
    <3>1. Contract!Becomes(q, "second", None)
      BY <1>1, <1>4, <2>1, <2>4, MapsAt
    <3> QED  BY <1>3, <1>4, <2>2, <2>4, <3>1 DEF Contract!Forward, Contract!None, None
  <2> QED  BY <1>1, <1>4, <2>3, <2>4, CallsKept DEF Allowed, Contract!Serve
<1>5. CASE /\ Available = {} /\ pc'[q] = "done" /\ failed'[q] = NoReplica
           /\ local'[q].result = None /\ answer'[q] = PickStatus
  <2>1. Phase(q)' = "done"
    BY <1>5 DEF Phase
  <2>2. \/ Routing = "down" /\ PickStatus = "Unavailable"
        \/ Routing = "saturated" /\ PickStatus = "ResourceExhausted"
    BY <1>5 DEF Routing, PickStatus, PickError
  <2>3. Contract!Answers(q, answer'[q])
    BY <1>1, <1>5, <2>1, AnswersAt
  <2>4. Contract!Refuse(q)
    BY <1>3, <1>5, <2>2, <2>3 DEF Contract!Refuse
  <2> QED  BY <1>1, <1>5, <2>4, CallsKept DEF Allowed, Contract!Serve
<1> QED  BY <1>4, <1>5, PickMoves

LEMMA RejectAllowed ==
    ASSUME Typed, Typed', CallsKnown, NEW q \in Requests, Reject(q)
    PROVE  Allowed(q) /\ CallsKnown'
<1>1. /\ OnlyMoves(q) /\ pc[q] = "idle" /\ pc'[q] = "done" /\ failed'[q] = NoReplica
      /\ local'[q].result = None /\ answer'[q] = "InvalidArgument"
  BY HandlerMoves
<1>2. Phase(q)' = "done" /\ Phase(q) = "idle"
  BY <1>1 DEF Phase
<1>3. Contract!Answers(q, "InvalidArgument")
  BY <1>1, <1>2, AnswersAt
<1>4. Contract!Reject(q)
  BY <1>2, <1>3 DEF Contract!Reject
<1> QED  BY <1>1, <1>4, CallsKept DEF Allowed, Contract!Serve

\* During a call: its gauge is written, its client leaves, or it returns.
LEMMA CallAllowed ==
    ASSUME Typed, Typed', CallsKnown, NEW q \in Requests, NEW code,
           \/ PublishPick(q) \/ Cancel(q) \/ UpstreamReturns(q, code) \/ CompleteCall(q)
    PROVE  Allowed(q) /\ CallsKnown'
<1> DEFINE attempt == IF failed[q] = NoReplica THEN "first" ELSE "second"
<1>1. CASE PublishPick(q)
  <2>1. /\ OnlyMoves(q) /\ pc[q] = "picked" /\ pc'[q] = "upstream"
        /\ UNCHANGED <<failed, local, answer>>
    BY <1>1, HandlerMoves
  <2>2. Phase(q)' = Phase(q)
    BY <2>1 DEF Phase
  <2>3. local'[q].result = None
    BY <2>1 DEF CallsKnown
  <2> QED  BY <2>1, <2>2, <2>3, Stutters, CallsKept DEF Allowed
<1>2. CASE Cancel(q)
  <2>1. /\ OnlyMoves(q) /\ pc[q] = "upstream" /\ pc'[q] = "cancelled"
        /\ UNCHANGED <<failed, local, answer>>
    BY <1>2, HandlerMoves
  <2>2. local[q].result = None /\ local'[q].result = None
    BY <2>1 DEF CallsKnown
  <2>3. Phase(q)' = "gone" /\ Phase(q) = attempt
    BY <2>1 DEF Phase
  <2>4. Contract!Becomes(q, "gone", None)
    BY <2>1, <2>2, <2>3, MapsAt
  <2>5. Contract!Abandon(q)
    BY <2>1, <2>2, <2>3, <2>4 DEF Contract!Abandon, Contract!None, None
  <2> QED  BY <2>1, <2>2, <2>5, CallsKept DEF Allowed, Contract!Serve
<1>3. CASE UpstreamReturns(q, code)
  <2>1. /\ OnlyMoves(q) /\ pc[q] = "upstream" /\ pc'[q] = "returned"
        /\ local'[q].result = code /\ UNCHANGED <<failed, answer>>
    BY <1>3, CallMoves
  <2>2. local[q].result = None /\ code \in UpstreamCodes /\ code # None
    BY <1>3, <2>1, RouterAssumption DEF UpstreamReturns, CallsKnown, None
  <2>3. Phase(q)' = Phase(q) /\ Phase(q) = attempt
    BY <2>1 DEF Phase
  <2>4. Contract!Becomes(q, Phase(q), code)
    BY <2>1, <2>3, MapsAt
  <2>5. Contract!Hear(q, code)
    BY <2>1, <2>2, <2>3, <2>4 DEF Contract!Hear, Contract!None, None
  <2> QED  BY <2>1, <2>2, <2>5, CallsKept DEF Allowed, Contract!Serve
<1>4. CASE CompleteCall(q)
  <2>1. /\ OnlyMoves(q) /\ pc[q] = "returned" /\ pc'[q] = "completed"
        /\ local'[q].result = local[q].result /\ UNCHANGED <<failed, answer>>
    BY <1>4, CallMoves
  <2>2. Phase(q)' = Phase(q)
    BY <2>1 DEF Phase
  <2>3. local'[q].result # None
    BY <2>1 DEF CallsKnown
  <2> QED  BY <2>1, <2>2, <2>3, Stutters, CallsKept DEF Allowed
<1> QED  BY <1>1, <1>2, <1>3, <1>4

\* After a call: its result is passed on, or the second attempt follows.
LEMMA EndAllowed ==
    ASSUME Typed, Typed', CallsKnown, NEW q \in Requests, PublishComplete(q) \/ MarkDown(q)
    PROVE  Allowed(q) /\ CallsKnown'
<1> DEFINE attempt == IF failed[q] = NoReplica THEN "first" ELSE "second"
<1>1. OnlyMoves(q) /\ pc[q] \in {"completed", "markDown"} /\ local[q].result # None
  BY EndMoves DEF CallsKnown
<1>2. Phase(q) = attempt
  BY <1>1 DEF Phase
<1>4. CASE /\ IsTransportFailure(local[q].result) /\ pc'[q] = "markDown"
           /\ UNCHANGED <<failed, local, answer>>
  <2>1. Phase(q)' = Phase(q)
    BY <1>1, <1>4 DEF Phase
  <2> QED  BY <1>1, <1>4, <2>1, Stutters, CallsKept DEF Allowed
<1>5. CASE /\ ~IsTransportFailure(local[q].result) /\ pc'[q] = "done" /\ failed'[q] = NoReplica
           /\ local'[q].result = None /\ answer'[q] = local[q].result
  <2>1. Phase(q)' = "done"
    BY <1>5 DEF Phase
  <2>2. local[q].result \notin Contract!Retryable \cup {None}
    BY <1>1, <1>5, FaultsAre
  <2>3. Contract!Answers(q, local[q].result)
    BY <1>1, <1>5, <2>1, AnswersAt
  <2>4. Contract!PassOn(q)
    BY <1>2, <2>2, <2>3 DEF Contract!PassOn, Contract!None, None
  <2> QED  BY <1>1, <1>5, <2>4, CallsKept DEF Allowed, Contract!Serve
<1>6. CASE MarkDown(q)
  <2>1. pc[q] = "markDown" /\ local'[q].result = None
    BY <1>6, EndMoves
  <2>2. local[q].result \in Contract!Retryable
    BY <2>1, FaultsAre DEF CallsKnown
  <2>3. CASE failed[q] = NoReplica /\ pc'[q] = "retry" /\ failed'[q] # NoReplica /\ answer' = answer
    <3>1. Phase(q)' = "between" /\ Phase(q) = "first"
      BY <1>2, <2>3 DEF Phase
    <3>2. Contract!Becomes(q, "between", None)
      BY <1>1, <2>1, <3>1, MapsAt
    <3>3. Contract!TryAgain(q)
      BY <2>2, <2>3, <3>1, <3>2 DEF Contract!TryAgain, Contract!None, None
    <3> QED  BY <1>1, <2>1, <2>3, <3>3, CallsKept DEF Allowed, Contract!Serve
  <2>4. CASE /\ failed[q] # NoReplica /\ pc'[q] = "done" /\ failed'[q] = NoReplica
             /\ answer'[q] = "Unavailable"
    <3>1. Phase(q)' = "done" /\ Phase(q) = "second"
      BY <1>2, <2>4 DEF Phase
    <3>2. Contract!Answers(q, "Unavailable")
      BY <1>1, <2>1, <2>4, <3>1, AnswersAt
    <3>3. Contract!GiveUp(q)
      BY <2>2, <3>1, <3>2 DEF Contract!GiveUp
    <3> QED  BY <1>1, <2>1, <2>4, <3>3, CallsKept DEF Allowed, Contract!Serve
  <2> QED  BY <1>6, <2>3, <2>4, EndMoves
<1> QED  BY <1>4, <1>5, <1>6, EndMoves

\* Steps of the prober and of the world leave every request where it was.
LEMMA OthersAllowed ==
    ASSUME CallsKnown, UNCHANGED handlerVars
    PROVE  Hidden /\ CallsKnown'
<1>1. \A q \in Requests : Phase(q)' = Phase(q)
  BY DEF handlerVars, Phase
<1>2. [q \in Requests |-> Phase(q)]' = [q \in Requests |-> Phase(q)]
  BY <1>1
<1> QED  BY <1>2 DEF Hidden, handlerVars, CallsKnown

\* Every step is one the contract allows.
LEMMA StepAllowed ==
    ASSUME Typed, Typed', CallsKnown, [Next]_vars
    PROVE  CallsKnown' /\ (Hidden \/ \E q \in Requests : Contract!Serve(q))
<1> DEFINE Goal == CallsKnown' /\ (Hidden \/ \E q \in Requests : Contract!Serve(q))
<1>1. ASSUME NEW q \in Requests, Arrive(q) PROVE Goal
  BY <1>1, RejectAllowed, PickAllowed DEF Arrive, FirstPick, Allowed
<1>2. ASSUME NEW q \in Requests, Returns(q) PROVE Goal
  BY <1>2, CallAllowed DEF Returns, Allowed
<1>3. ASSUME NEW q \in Requests, PublishPick(q) \/ Cancel(q) \/ CompleteCall(q) PROVE Goal
  <2>1. \A code : Allowed(q) /\ CallsKnown'
    BY <1>3, CallAllowed
  <2> QED  BY <2>1 DEF Allowed
<1>4. ASSUME NEW q \in Requests, PublishComplete(q) \/ MarkDown(q) PROVE Goal
  BY <1>4, EndAllowed DEF Allowed
<1>5. ASSUME NEW q \in Requests, RetryPick(q) PROVE Goal
  BY <1>5, PickAllowed DEF RetryPick, Allowed
<1>6. CASE UNCHANGED handlerVars
  BY <1>6, OthersAllowed
<1>7. ASSUME NEW r \in Replicas, ProbeAnswers(r) \/ ProbeFaults(r) \/ Crash(r) \/ Restart(r)
      PROVE  Goal
  BY <1>6, <1>7 DEF ProbeAnswers, ProbeFaults, Crash, Restart
<1>8. CASE ProbeStart \/ ProbeApply \/ UNCHANGED vars
  BY <1>6, <1>8 DEF ProbeStart, ProbeApply, vars
<1> QED  BY <1>1, <1>2, <1>3, <1>4, <1>5, <1>7, <1>8 DEF Next, Handle

\* Whatever the prober, faults and other handlers do between its critical
\* sections, a handler keeps the router's promise about its request
\* (server.rs:149-220).
THEOREM RefinesContract == Spec => ImplementsContract
<1>1. Init => Contract!Init
  <2> SUFFICES ASSUME Init PROVE Contract!Init  OBVIOUS
  <2>1. \A q \in Requests : Phase(q) = "idle"
    BY DEF Init, Phase
  <2>2. \A q \in Requests : local[q].result = None
    BY DEF Init, NoLocals
  <2>3. Routing \in Contract!Routings
    BY DEF Routing, Contract!Routings
  <2> QED  BY <2>1, <2>2, <2>3 DEF Init, Contract!Init, Contract!None, None
<1>2. Init => CallsKnown
  BY DEF Init, CallsKnown, NoLocals
<1>3. Typed /\ Typed' /\ CallsKnown /\ [Next]_vars
        => CallsKnown' /\ [Contract!Next]_(Contract!contractVars)
  <2>1. (Routing \in Contract!Routings)'
    BY DEF Routing, Contract!Routings
  <2> QED  BY <2>1, StepAllowed DEF Hidden, Contract!Next
<1> QED  BY <1>1, <1>2, <1>3, TypeInit, TypeNext, PTL DEF Spec, ImplementsContract, Contract!Spec
=============================================================================
