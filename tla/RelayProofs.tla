------------------------------ MODULE RelayProofs ------------------------------
(***************************************************************************)
(* Theorems about StreamRelay, for any number of streams beside any number *)
(* of unary requests: its types, the accounting of in-flight load, and the *)
(* order of the responses.                                                 *)
(***************************************************************************)
EXTENDS StreamRelay, RouterProofs

\* RelayTypeOK without the part that speaks of Router's variables.
StreamsOK ==
    /\ client \in [Streams -> {"open", "halfClosed", "gone"}]
    /\ sent \in [Streams -> Seq(Messages)]
    /\ cursor \in [Streams -> Nat]
    /\ task \in [Streams -> {"reading", "picked", "opening", "markDown", "relaying", "sending",
                             "reporting", "completing", "completed", "ended"}]
    /\ job \in [Streams -> Jobs]
    /\ then \in [Streams -> {"reading", "ended"}]
    /\ responses \in [Streams -> Seq(Responses)]
    /\ taken \in [Streams -> Nat]
    /\ \A s \in Streams :
        /\ cursor[s] <= Len(sent[s])
        /\ taken[s] <= Len(responses[s]) /\ Len(responses[s]) - taken[s] <= ChannelSize
        /\ task[s] \in {"reading", "ended"} => job[s].replica = NoReplica
        /\ task[s] \notin {"reading", "ended", "reporting"} => job[s].replica # NoReplica

RelayTyped == Typed /\ StreamsOK
-----------------------------------------------------------------------------
LEMMA RelayTypeInit == RelayInit => RelayTyped
<1> SUFFICES ASSUME RelayInit PROVE RelayTyped  OBVIOUS
<1>1. Typed
  BY TypeInit DEF RelayInit
<1>2. NoJob \in Jobs /\ NoJob.replica = NoReplica
  BY RelayAssumption DEF NoJob, Jobs
<1>3. <<>> \in Seq(Messages) /\ <<>> \in Seq(Responses) /\ Len(<<>>) = 0
  OBVIOUS
<1>4. StreamsOK
  BY <1>2, <1>3, RelayAssumption DEF RelayInit, StreamsOK
<1> QED  BY <1>1, <1>4 DEF RelayTyped

\* A step of a task changes of Router's state only the scheduler and the metrics.
LEMMA OwnTypes ==
    ASSUME Typed, SchedulerTypeOK', gauge' \in [Replicas -> Nat],
           served' \in [requests : Nat, matched : Nat, prompt : Nat],
           UNCHANGED <<handlerVars, proberVars, envVars>>
    PROVE  Typed'
BY DEF Typed, TypeOK, LocalsOK, handlerVars, proberVars, envVars

LEMMA UnchangedTypes ==
    ASSUME Typed, UNCHANGED vars
    PROVE  Typed'
BY TypeNext

\* The fields of a job.
LEMMA JobFacts ==
    ASSUME StreamsOK, NEW s \in Streams
    PROVE  /\ job[s] \in Jobs
           /\ job[s].replica \in Replicas \cup {NoReplica}
           /\ job[s].hashes \in Chains \cup {<<>>}
           /\ job[s].matched \in Nat /\ job[s].shown \in Nat /\ job[s].chunks \in 0..MaxChunks
           /\ \A n : [job EXCEPT ![s].shown = n]
                = [job EXCEPT ![s] = [replica |-> job[s].replica, hashes |-> job[s].hashes,
                                      matched |-> job[s].matched, shown |-> n,
                                      chunks |-> job[s].chunks]]
           /\ \A n : [job EXCEPT ![s].chunks = n]
                = [job EXCEPT ![s] = [replica |-> job[s].replica, hashes |-> job[s].hashes,
                                      matched |-> job[s].matched, shown |-> job[s].shown,
                                      chunks |-> n]]
<1>1. job \in [Streams -> Jobs]
  BY DEF StreamsOK
<1>2. job[s] \in Jobs
  BY <1>1
<1>3. \A n : [job[s] EXCEPT !.shown = n]
           = [replica |-> job[s].replica, hashes |-> job[s].hashes, matched |-> job[s].matched,
              shown |-> n, chunks |-> job[s].chunks]
  BY <1>2 DEF Jobs
<1>4. \A n : [job[s] EXCEPT !.chunks = n]
           = [replica |-> job[s].replica, hashes |-> job[s].hashes, matched |-> job[s].matched,
              shown |-> job[s].shown, chunks |-> n]
  BY <1>2 DEF Jobs
<1> QED  BY <1>1, <1>2, <1>3, <1>4 DEF Jobs
-----------------------------------------------------------------------------
LEMMA ClientTypes ==
    ASSUME RelayTyped, NEW s \in Streams, Client(s)
    PROVE  RelayTyped'
<1>1. UNCHANGED vars
  BY DEF Client, Sends, HalfCloses, Takes, Leaves
<1>2. Typed'
  BY <1>1, UnchangedTypes DEF RelayTyped
<1>3. CASE Sends(s)
  <2>1. PICK m \in Messages : sent' = [sent EXCEPT ![s] = Append(@, m)]
    BY <1>3 DEF Sends
  <2>2. sent[s] \in Seq(Messages) /\ cursor[s] \in Nat
    BY DEF RelayTyped, StreamsOK
  <2>3. Append(sent[s], m) \in Seq(Messages) /\ Len(Append(sent[s], m)) = Len(sent[s]) + 1
    BY <2>2
  <2>4. StreamsOK'
    BY <1>3, <2>1, <2>2, <2>3 DEF Sends, RelayTyped, StreamsOK, taskVars
  <2> QED  BY <1>2, <2>4 DEF RelayTyped
<1>4. CASE HalfCloses(s) \/ Leaves(s)
  <2>1. client' = [client EXCEPT ![s] = "halfClosed"] \/ client' = [client EXCEPT ![s] = "gone"]
    BY <1>4 DEF HalfCloses, Leaves
  <2>2. UNCHANGED <<sent, taken, taskVars>>
    BY <1>4 DEF HalfCloses, Leaves
  <2>3. client' \in [Streams -> {"open", "halfClosed", "gone"}]
    BY <2>1 DEF RelayTyped, StreamsOK
  <2>4. StreamsOK'
    BY <2>2, <2>3 DEF RelayTyped, StreamsOK, taskVars
  <2> QED  BY <1>2, <2>4 DEF RelayTyped
<1>5. CASE Takes(s)
  <2>1. responses[s] \in Seq(Responses) /\ taken[s] \in Nat
    BY DEF RelayTyped, StreamsOK
  <2>2. Len(responses[s]) \in Nat
    BY <2>1
  <2>3. StreamsOK'
    BY <1>5, <2>1, <2>2, RelayAssumption DEF Takes, RelayTyped, StreamsOK, taskVars
  <2> QED  BY <1>2, <2>3 DEF RelayTyped
<1> QED  BY <1>3, <1>4, <1>5 DEF Client

\* A step that moves the task and changes nothing else of the streams.
LEMMA MoveTypes ==
    ASSUME StreamsOK, NEW s \in Streams,
           NEW where \in {"reading", "picked", "opening", "markDown", "relaying", "sending",
                          "reporting", "completing", "completed", "ended"},
           Goes(s, where),
           where \in {"reading", "ended"} => job[s].replica = NoReplica,
           where \notin {"reading", "ended", "reporting"} => job[s].replica # NoReplica,
           UNCHANGED <<clientVars, cursor, job, then, responses>>
    PROVE  StreamsOK'
BY DEF Goes, StreamsOK, clientVars

\* A step that moves the task and replaces its job.
LEMMA JobTypes ==
    ASSUME StreamsOK, NEW s \in Streams, NEW j \in Jobs, job' = [job EXCEPT ![s] = j],
           NEW where \in {"reading", "picked", "opening", "markDown", "relaying", "sending",
                          "reporting", "completing", "completed", "ended"},
           Goes(s, where),
           where \in {"reading", "ended"} => j.replica = NoReplica,
           where \notin {"reading", "ended", "reporting"} => j.replica # NoReplica,
           UNCHANGED <<clientVars, cursor, then, responses>>
    PROVE  StreamsOK'
BY DEF Goes, StreamsOK, clientVars

LEMMA ReadsTypes ==
    ASSUME RelayTyped, NEW s \in Streams, ReadsMessage(s)
    PROVE  RelayTyped'
<1> DEFINE m == NextMessage(s)
<1>1. /\ task[s] = "reading" /\ cursor[s] \in Nat /\ cursor[s] < Len(sent[s])
      /\ sent[s] \in Seq(Messages) /\ job[s].replica = NoReplica
  BY DEF ReadsMessage, RelayTyped, StreamsOK
<1>2. cursor' = [cursor EXCEPT ![s] = @ + 1] /\ cursor[s] + 1 <= Len(sent[s])
  <2>1. Len(sent[s]) \in Nat
    BY <1>1
  <2> QED  BY <1>1, <2>1 DEF ReadsMessage
<1>3. m \in Messages
  <2>1. cursor[s] + 1 \in 1..Len(sent[s])
    BY <1>1, <1>2
  <2> QED  BY <1>1, <2>1 DEF NextMessage
<1>4. UNCHANGED <<handlerVars, metricVars, proberVars, envVars, clientVars, responses>>
  BY DEF ReadsMessage
<1>5. gauge' \in [Replicas -> Nat] /\ served' \in [requests : Nat, matched : Nat, prompt : Nat]
  BY <1>4 DEF metricVars, RelayTyped, Typed, TypeOK
<1>6. CASE m.kind = "prompt" /\ \E r \in Choice(m.hashes) :
                /\ Pick(m.hashes, r)
                /\ job' = [job EXCEPT ![s] = [replica |-> r, hashes |-> m.hashes,
                                              matched |-> MatchedBlocks(r, m.hashes),
                                              shown |-> inflight'[r], chunks |-> 0]]
                /\ Goes(s, "picked") /\ UNCHANGED then
  <2> PICK r \in Choice(m.hashes) :
                /\ Pick(m.hashes, r)
                /\ job' = [job EXCEPT ![s] = [replica |-> r, hashes |-> m.hashes,
                                              matched |-> MatchedBlocks(r, m.hashes),
                                              shown |-> inflight'[r], chunks |-> 0]]
                /\ Goes(s, "picked") /\ UNCHANGED then
    BY <1>6
  <2>1. r \in Replicas /\ r # NoReplica
    BY ChoiceAvailable, ReplicaFacts
  <2>2. SchedulerTypeOK'
    BY PickTypes DEF RelayTyped, Typed, TypeOK
  <2>3. inflight'[r] \in Nat
    BY <2>1, <2>2 DEF SchedulerTypeOK
  <2>4. m.hashes \in Chains \cup {<<>>}
    BY <1>3 DEF Messages
  <2>5. MatchedBlocks(r, m.hashes) \in Nat
    BY <2>4, MatchedFacts
  <2>6. [replica |-> r, hashes |-> m.hashes, matched |-> MatchedBlocks(r, m.hashes),
         shown |-> inflight'[r], chunks |-> 0] \in Jobs
    BY <2>1, <2>3, <2>4, <2>5, RelayAssumption DEF Jobs
  <2>7. Typed'
    BY <1>4, <1>5, <2>2, OwnTypes DEF RelayTyped
  <2>8. StreamsOK'
    BY <1>1, <1>2, <1>4, <2>1, <2>6 DEF RelayTyped, StreamsOK, Goes, clientVars
  <2> QED  BY <2>7, <2>8 DEF RelayTyped
<1>7. ASSUME UNCHANGED schedVars, UNCHANGED job, Goes(s, "reporting"),
             then' \in [Streams -> {"reading", "ended"}]
      PROVE  RelayTyped'
  <2>1. SchedulerTypeOK'
    BY <1>7 DEF schedVars, SchedulerTypeOK, RelayTyped, Typed, TypeOK
  <2>2. Typed'
    BY <1>4, <1>5, <2>1, OwnTypes DEF RelayTyped
  <2>3. StreamsOK'
    BY <1>1, <1>2, <1>4, <1>7 DEF RelayTyped, StreamsOK, Goes, clientVars
  <2> QED  BY <2>2, <2>3 DEF RelayTyped
<1>8. then \in [Streams -> {"reading", "ended"}]
      /\ [then EXCEPT ![s] = "ended"] \in [Streams -> {"reading", "ended"}]
  BY DEF RelayTyped, StreamsOK
<1> QED  BY <1>6, <1>7, <1>8 DEF ReadsMessage, PickFails

LEMMA PublishTypes ==
    ASSUME RelayTyped, NEW s \in Streams, PublishesPick(s) \/ PublishesComplete(s)
    PROVE  RelayTyped'
<1>1. /\ StreamsOK /\ UNCHANGED <<schedVars, handlerVars, proberVars, envVars>>
      /\ job[s].replica \in Replicas
  BY JobFacts DEF PublishesPick, PublishesComplete, RelayTyped, StreamsOK
<1>2. SchedulerTypeOK'
  BY <1>1 DEF schedVars, SchedulerTypeOK, RelayTyped, Typed, TypeOK
<1>3. gauge' = [gauge EXCEPT ![job[s].replica] = job[s].shown] /\ job[s].shown \in Nat
  BY <1>1, JobFacts DEF PublishesPick, PublishesComplete
<1>4. gauge' \in [Replicas -> Nat]
  BY <1>3 DEF RelayTyped, Typed, TypeOK
<1>5. served' \in [requests : Nat, matched : Nat, prompt : Nat]
  <2>1. job[s].matched \in Nat /\ Len(job[s].hashes) \in Nat
    BY <1>1, JobFacts, LenFacts
  <2> QED  BY <2>1 DEF PublishesPick, PublishesComplete, RelayTyped, Typed, TypeOK
<1>6. Typed'
  BY <1>1, <1>2, <1>4, <1>5, OwnTypes DEF RelayTyped
<1>7. CASE PublishesPick(s)
  <2>1. StreamsOK'
    BY <1>1, <1>7, MoveTypes, ReplicaFacts DEF PublishesPick
  <2> QED  BY <1>6, <2>1 DEF RelayTyped
<1>8. CASE PublishesComplete(s)
  <2>1. NoJob \in Jobs /\ NoJob.replica = NoReplica
    BY RelayAssumption DEF NoJob, Jobs
  <2>2. then[s] \in {"reading", "ended"}
    BY <1>1 DEF StreamsOK
  <2>3. StreamsOK'
    BY <1>1, <1>8, <2>1, <2>2, JobTypes DEF PublishesComplete
  <2> QED  BY <1>6, <2>3 DEF RelayTyped
<1> QED  BY <1>7, <1>8

\* The task's methods on the scheduler.
LEMMA MethodTypes ==
    ASSUME RelayTyped, NEW s \in Streams, MarksDown(s) \/ CompletesJob(s)
    PROVE  RelayTyped'
<1>1. /\ StreamsOK /\ UNCHANGED <<handlerVars, metricVars, proberVars, envVars>>
      /\ job[s].replica \in Replicas /\ job[s].replica # NoReplica
  BY JobFacts DEF MarksDown, CompletesJob, RelayTyped, StreamsOK
<1>2. SchedulerTypeOK'
  BY <1>1, MarkUnhealthyTypes, CompleteTypes DEF MarksDown, CompletesJob, RelayTyped, Typed, TypeOK
<1>3. Typed'
  <2>1. gauge' \in [Replicas -> Nat] /\ served' \in [requests : Nat, matched : Nat, prompt : Nat]
    BY <1>1 DEF metricVars, RelayTyped, Typed, TypeOK
  <2> QED  BY <1>1, <1>2, <2>1, OwnTypes DEF RelayTyped
<1>4. CASE MarksDown(s)
  <2>1. StreamsOK'
    BY <1>1, <1>4, MoveTypes DEF MarksDown
  <2> QED  BY <1>3, <2>1 DEF RelayTyped
<1>5. CASE CompletesJob(s)
  <2> DEFINE j == [replica |-> job[s].replica, hashes |-> job[s].hashes,
                   matched |-> job[s].matched, shown |-> inflight'[job[s].replica],
                   chunks |-> job[s].chunks]
  <2>1. inflight'[job[s].replica] \in Nat
    BY <1>1, <1>2 DEF SchedulerTypeOK
  <2>2. j \in Jobs /\ j.replica # NoReplica
    BY <1>1, <2>1, JobFacts DEF Jobs
  <2>3. job' = [job EXCEPT ![s] = j]
    BY <1>1, <1>5, JobFacts DEF CompletesJob
  <2> HIDE DEF j
  <2>4. StreamsOK'
    BY <1>1, <1>5, <2>2, <2>3, JobTypes DEF CompletesJob
  <2> QED  BY <1>3, <2>4 DEF RelayTyped
<1> QED  BY <1>4, <1>5

LEMMA UpstreamTypes ==
    ASSUME RelayTyped, NEW s \in Streams, ReadsEnd(s) \/ Upstream(s)
    PROVE  RelayTyped'
<1>1. UNCHANGED vars
  BY DEF ReadsEnd, Upstream, UpstreamOpens, UpstreamRefuses, UpstreamSpeaks, UpstreamEnds,
         UpstreamBreaks
<1>2. Typed' /\ StreamsOK
  BY <1>1, UnchangedTypes DEF RelayTyped
<1>3. CASE ReadsEnd(s)
  <2>1. job[s].replica = NoReplica
    BY <1>2, <1>3 DEF ReadsEnd, StreamsOK
  <2>2. StreamsOK'
    BY <1>2, <1>3, <2>1, MoveTypes DEF ReadsEnd
  <2> QED  BY <1>2, <2>2 DEF RelayTyped
<1>4. ASSUME Upstream(s) PROVE job[s].replica # NoReplica
  BY <1>2, <1>4 DEF Upstream, UpstreamOpens, UpstreamRefuses, UpstreamSpeaks, UpstreamEnds,
                    UpstreamBreaks, StreamsOK
<1>5. CASE UpstreamOpens(s)
  <2>1. StreamsOK'
    BY <1>2, <1>4, <1>5, MoveTypes DEF UpstreamOpens, Upstream
  <2> QED  BY <1>2, <2>1 DEF RelayTyped
<1>6. ASSUME NEW code \in UpstreamCodes, UpstreamRefuses(s, code) PROVE RelayTyped'
  <2>1. CASE IsTransportFailure(code)
    <3>1. Goes(s, "markDown")
      BY <1>6, <2>1 DEF UpstreamRefuses
    <3>2. StreamsOK'
      BY <1>2, <1>4, <1>6, <3>1, MoveTypes DEF UpstreamRefuses, Upstream
    <3> QED  BY <1>2, <3>2 DEF RelayTyped
  <2>2. CASE ~IsTransportFailure(code)
    <3>1. Goes(s, "reporting")
      BY <1>6, <2>2 DEF UpstreamRefuses
    <3>2. StreamsOK'
      BY <1>2, <1>4, <1>6, <3>1, MoveTypes DEF UpstreamRefuses, Upstream
    <3> QED  BY <1>2, <3>2 DEF RelayTyped
  <2> QED  BY <2>1, <2>2
<1>7. CASE UpstreamSpeaks(s)
  <2> DEFINE j == [replica |-> job[s].replica, hashes |-> job[s].hashes,
                   matched |-> job[s].matched, shown |-> job[s].shown,
                   chunks |-> job[s].chunks + 1]
  <2>1. job[s].chunks + 1 \in 0..MaxChunks
    BY <1>2, <1>7, JobFacts, RelayAssumption DEF UpstreamSpeaks
  <2>2. j \in Jobs /\ j.replica # NoReplica
    BY <1>2, <1>4, <1>7, <2>1, JobFacts DEF Jobs, Upstream
  <2>3. job' = [job EXCEPT ![s] = j]
    BY <1>2, <1>7, JobFacts DEF UpstreamSpeaks
  <2> HIDE DEF j
  <2>4. StreamsOK'
    BY <1>2, <1>7, <2>2, <2>3, JobTypes DEF UpstreamSpeaks
  <2> QED  BY <1>2, <2>4 DEF RelayTyped
<1>8. CASE UpstreamEnds(s)
  <2>1. StreamsOK'
    BY <1>2, <1>4, <1>8, MoveTypes DEF UpstreamEnds, Upstream
  <2> QED  BY <1>2, <2>1 DEF RelayTyped
<1>9. CASE UpstreamBreaks(s)
  <2>1. StreamsOK'
    BY <1>2, <1>9, MoveTypes DEF UpstreamBreaks
  <2> QED  BY <1>2, <2>1 DEF RelayTyped
<1> QED  BY <1>3, <1>5, <1>6, <1>7, <1>8, <1>9 DEF Upstream

\* A response enters the channel only when there is room for it.
LEMMA RoomFacts ==
    ASSUME StreamsOK, NEW s \in Streams, HasRoom(s), NEW x \in Responses
    PROVE  /\ Append(responses[s], x) \in Seq(Responses)
           /\ taken[s] <= Len(Append(responses[s], x))
           /\ Len(Append(responses[s], x)) - taken[s] <= ChannelSize
<1>1. responses[s] \in Seq(Responses) /\ taken[s] \in Nat /\ taken[s] <= Len(responses[s])
  BY DEF StreamsOK
<1>2. Len(responses[s]) - taken[s] < ChannelSize
  BY DEF HasRoom
<1>3. Len(Append(responses[s], x)) = Len(responses[s]) + 1 /\ Len(responses[s]) \in Nat
      /\ Append(responses[s], x) \in Seq(Responses)
  BY <1>1
<1> QED  BY <1>1, <1>2, <1>3, RelayAssumption

LEMMA SendTypes ==
    ASSUME RelayTyped, NEW s \in Streams, SendsChunk(s) \/ SendFails(s) \/ Reports(s)
    PROVE  RelayTyped'
<1>1. Typed' /\ StreamsOK
  BY UnchangedTypes DEF SendsChunk, SendFails, Reports, RelayTyped
<1>2. ASSUME NEW x \in Responses, HasRoom(s),
             responses' = [responses EXCEPT ![s] = Append(@, x)],
             NEW where \in {"relaying", "completing", "reading", "ended"}, Goes(s, where),
             where \in {"reading", "ended"} <=> job[s].replica = NoReplica,
             UNCHANGED <<clientVars, cursor, job, then>>
      PROVE  RelayTyped'
  <2>1. StreamsOK'
    BY <1>1, <1>2, RoomFacts DEF StreamsOK, Goes, clientVars
  <2> QED  BY <1>1, <2>1 DEF RelayTyped
<1>3. cursor[s] \in Nat /\ job[s].chunks \in Nat /\ then[s] \in {"reading", "ended"}
  BY <1>1, JobFacts, RelayAssumption DEF StreamsOK
<1>4. CASE SendsChunk(s)
  <2>1. [msg |-> cursor[s], kind |-> "chunk", n |-> job[s].chunks] \in Responses
    BY <1>3 DEF Responses
  <2>2. job[s].replica # NoReplica
    BY <1>1, <1>4 DEF SendsChunk, StreamsOK
  <2> QED  BY <1>2, <1>4, <2>1, <2>2 DEF SendsChunk
<1>5. CASE SendFails(s)
  <2>1. job[s].replica # NoReplica
    BY <1>1, <1>5 DEF SendFails, StreamsOK
  <2>2. StreamsOK'
    BY <1>1, <1>5, <2>1 DEF SendFails, StreamsOK, Goes, clientVars
  <2> QED  BY <1>1, <2>2 DEF RelayTyped
<1>6. CASE Reports(s)
  <2> DEFINE where == IF job[s].replica # NoReplica THEN "completing" ELSE then[s]
  <2>1. /\ where \in {"completing", "reading", "ended"}
        /\ where \in {"reading", "ended"} <=> job[s].replica = NoReplica
        /\ Goes(s, where)
    BY <1>3, <1>6 DEF Reports
  <2>2. [msg |-> cursor[s], kind |-> "error", n |-> 0] \in Responses
    BY <1>3 DEF Responses
  <2> HIDE DEF where
  <2>3. CASE UNCHANGED responses
    <3>1. StreamsOK'
      BY <1>1, <1>6, <2>1, <2>3, MoveTypes DEF Reports
    <3> QED  BY <1>1, <3>1 DEF RelayTyped
  <2>4. CASE HasRoom(s) /\ responses' = [responses EXCEPT ![s] =
                                Append(@, [msg |-> cursor[s], kind |-> "error", n |-> 0])]
    BY <1>2, <1>6, <2>1, <2>2, <2>4 DEF Reports
  <2> QED  BY <1>6, <2>3, <2>4 DEF Reports
<1> QED  BY <1>4, <1>5, <1>6

LEMMA RelayTypeNext == RelayTyped /\ [RelayNext]_allVars => RelayTyped'
<1> SUFFICES ASSUME RelayTyped, [RelayNext]_allVars PROVE RelayTyped'  OBVIOUS
<1>1. CASE (Next \/ UNCHANGED vars) /\ UNCHANGED relayVars
  <2>1. Typed'
    BY <1>1, TypeNext DEF RelayTyped
  <2>2. StreamsOK'
    BY <1>1 DEF RelayTyped, StreamsOK, relayVars, clientVars, taskVars
  <2> QED  BY <2>1, <2>2 DEF RelayTyped
<1>2. ASSUME NEW s \in Streams, Task(s) PROVE RelayTyped'
  BY <1>2, ReadsTypes, PublishTypes, MethodTypes, UpstreamTypes, SendTypes DEF Task
<1> QED  BY <1>1, <1>2, ClientTypes, UpstreamTypes DEF RelayNext, allVars

\* A task is at a known step and holds a replica exactly while it uses one, and
\* its channel never overflows (server.rs:284-394).
THEOREM RelayTypeCorrect == RelaySpec => []RelayTypeOK
<1>1. RelayTyped => RelayTypeOK
  BY DEF RelayTyped, StreamsOK, Typed, RelayTypeOK
<1> QED  BY <1>1, RelayTypeInit, RelayTypeNext, PTL DEF RelaySpec
-----------------------------------------------------------------------------
LEMMA StreamHoldersFinite ==
    ASSUME NEW r
    PROVE  IsFiniteSet(StreamHolders(r)) /\ Cardinality(StreamHolders(r)) \in Nat
<1>1. StreamHolders(r) \in SUBSET Streams
  BY DEF StreamHolders
<1> QED  BY <1>1, RelayAssumption, FS_Subset, FS_CardinalityType

RelayLoadHeld ==
    \A r \in Replicas : inflight[r] <= Cardinality(Held(r)) + Cardinality(StreamHolders(r))

\* What a step of a stream may do to r's in-flight count; compare LoadMoves.
StreamMoves ==
    \A r \in Replicas :
        \/ inflight'[r] = 0
        \/ inflight'[r] + Cardinality(StreamHolders(r))
              <= inflight[r] + Cardinality(StreamHolders(r)')

\* Steps that neither pick nor complete.
LEMMA StreamKept ==
    ASSUME RelayTyped, \A r \in Replicas : StreamHolders(r)' = StreamHolders(r),
           \A r \in Replicas : inflight'[r] = inflight[r] \/ inflight'[r] = 0
    PROVE  StreamMoves
<1> SUFFICES ASSUME NEW r \in Replicas, inflight'[r] # 0
             PROVE  inflight'[r] + Cardinality(StreamHolders(r))
                      <= inflight[r] + Cardinality(StreamHolders(r)')
  BY DEF StreamMoves
<1>1. inflight[r] \in Nat /\ Cardinality(StreamHolders(r)) \in Nat
  BY StreamHoldersFinite DEF RelayTyped, Typed, TypeOK, SchedulerTypeOK
<1>2. StreamHolders(r)' = StreamHolders(r) /\ inflight'[r] = inflight[r]
  OBVIOUS
<1> QED  BY <1>1, <1>2

LEMMA StreamPicks ==
    ASSUME RelayTyped, NEW s \in Streams, ReadsMessage(s)
    PROVE  StreamMoves
<1> DEFINE m == NextMessage(s)
<1>1. /\ inflight \in [Replicas -> Nat] /\ DOMAIN job = Streams /\ DOMAIN task = Streams
      /\ task[s] = "reading" /\ job[s].replica = NoReplica
  BY DEF ReadsMessage, RelayTyped, Typed, TypeOK, SchedulerTypeOK, StreamsOK
<1>2. ASSUME UNCHANGED job, Goes(s, "reporting"), UNCHANGED schedVars PROVE StreamMoves
  <2>1. \A r \in Replicas : StreamHolders(r)' = StreamHolders(r)
    BY <1>1, <1>2, ReplicaFacts DEF StreamHolders, Goes
  <2> QED  BY <1>2, <2>1, StreamKept DEF schedVars
<1>3. ASSUME NEW r \in Choice(m.hashes), Pick(m.hashes, r), Goes(s, "picked"),
             NEW j, j.replica = r, job' = [job EXCEPT ![s] = j]
      PROVE  StreamMoves
  <2> SUFFICES ASSUME NEW p \in Replicas
               PROVE  inflight'[p] + Cardinality(StreamHolders(p))
                        <= inflight[p] + Cardinality(StreamHolders(p)')
    BY DEF StreamMoves
  <2>1. /\ inflight[p] \in Nat /\ IsFiniteSet(StreamHolders(p))
        /\ Cardinality(StreamHolders(p)) \in Nat
    BY <1>1, StreamHoldersFinite
  <2>2. s \notin StreamHolders(p)
    BY <1>1, ReplicaFacts DEF StreamHolders
  <2>3. CASE p = r
    <3>1. StreamHolders(p)' = StreamHolders(p) \cup {s}
      BY <1>1, <1>3, <2>3 DEF StreamHolders, Goes
    <3>2. Cardinality(StreamHolders(p)') = Cardinality(StreamHolders(p)) + 1
      BY <2>1, <2>2, <3>1, FS_AddElement
    <3>3. inflight'[p] = inflight[p] + 1
      BY <1>1, <1>3, <2>3 DEF Pick
    <3> QED  BY <2>1, <3>2, <3>3
  <2>4. CASE p # r
    <3>1. StreamHolders(p)' = StreamHolders(p)
      BY <1>1, <1>3, <2>2, <2>4 DEF StreamHolders, Goes
    <3>2. inflight'[p] = inflight[p]
      BY <1>1, <1>3, <2>4 DEF Pick
    <3> QED  BY <2>1, <3>1, <3>2
  <2> QED  BY <2>3, <2>4
<1>4. ASSUME m.kind = "prompt",
             \E r \in Choice(m.hashes) :
                /\ Pick(m.hashes, r)
                /\ job' = [job EXCEPT ![s] = [replica |-> r, hashes |-> m.hashes,
                                              matched |-> MatchedBlocks(r, m.hashes),
                                              shown |-> inflight'[r], chunks |-> 0]],
             Goes(s, "picked")
      PROVE  StreamMoves
  BY <1>3, <1>4
<1> HIDE DEF m
<1> QED  BY <1>2, <1>4 DEF ReadsMessage, PickFails, m

LEMMA StreamCompletes ==
    ASSUME RelayTyped, NEW s \in Streams, CompletesJob(s)
    PROVE  StreamMoves
<1>1. /\ inflight \in [Replicas -> Nat] /\ DOMAIN job = Streams /\ DOMAIN task = Streams
      /\ task[s] = "completing" /\ job[s].replica \in Replicas
  BY JobFacts DEF CompletesJob, RelayTyped, Typed, TypeOK, SchedulerTypeOK, StreamsOK
<1>2. \A t \in Streams : job'[t].replica = job[t].replica
  <2>1. job' = [job EXCEPT ![s] = [replica |-> job[s].replica, hashes |-> job[s].hashes,
                                   matched |-> job[s].matched,
                                   shown |-> inflight'[job[s].replica],
                                   chunks |-> job[s].chunks]]
    BY JobFacts DEF CompletesJob, RelayTyped
  <2> QED  BY <1>1, <2>1
<1> SUFFICES ASSUME NEW p \in Replicas, inflight'[p] # 0
             PROVE  inflight'[p] + Cardinality(StreamHolders(p))
                      <= inflight[p] + Cardinality(StreamHolders(p)')
  BY DEF StreamMoves
<1>3. /\ inflight[p] \in Nat /\ IsFiniteSet(StreamHolders(p))
      /\ Cardinality(StreamHolders(p)) \in Nat
  BY <1>1, StreamHoldersFinite
<1>4. CASE p = job[s].replica
  <2>1. s \in StreamHolders(p) /\ StreamHolders(p)' = StreamHolders(p) \ {s}
    BY <1>1, <1>2, <1>4 DEF StreamHolders, CompletesJob, Goes
  <2>2. Cardinality(StreamHolders(p)') = Cardinality(StreamHolders(p)) - 1
    BY <1>3, <2>1, FS_RemoveElement
  <2>3. inflight'[p] = IF inflight[p] = 0 THEN 0 ELSE inflight[p] - 1
    BY <1>1, <1>4 DEF CompletesJob, Complete
  <2> QED  BY <1>3, <2>2, <2>3
<1>5. CASE p # job[s].replica
  <2>1. StreamHolders(p)' = StreamHolders(p)
    BY <1>1, <1>2, <1>5 DEF StreamHolders, CompletesJob, Goes
  <2>2. inflight'[p] = inflight[p]
    BY <1>1, <1>5 DEF CompletesJob, Complete
  <2> QED  BY <1>3, <2>1, <2>2
<1> QED  BY <1>4, <1>5

\* Every step of a stream.
LEMMA StreamLoads ==
    ASSUME RelayTyped, NEW s \in Streams, Client(s) \/ Upstream(s) \/ Task(s)
    PROVE  StreamMoves
<1>1. /\ inflight \in [Replicas -> Nat] /\ DOMAIN job = Streams /\ DOMAIN task = Streams
      /\ StreamsOK
  BY DEF RelayTyped, Typed, TypeOK, SchedulerTypeOK, StreamsOK
<1>2. ASSUME NEW where, where # "completed", task[s] # "completed", UNCHANGED job,
             Goes(s, where)
      PROVE  \A r \in Replicas : StreamHolders(r)' = StreamHolders(r)
  BY <1>1, <1>2 DEF StreamHolders, Goes
<1>3. CASE Client(s)
  <2>1. \A r \in Replicas : StreamHolders(r)' = StreamHolders(r)
    BY <1>3 DEF Client, Sends, HalfCloses, Takes, Leaves, taskVars, StreamHolders
  <2> QED  BY <1>3, <2>1, StreamKept
           DEF Client, Sends, HalfCloses, Takes, Leaves, vars, schedVars
<1>4. CASE Upstream(s)
  <2>1. UNCHANGED inflight
    BY <1>4 DEF Upstream, UpstreamOpens, UpstreamRefuses, UpstreamSpeaks, UpstreamEnds,
                UpstreamBreaks, vars, schedVars
  <2>2. CASE UpstreamSpeaks(s)
    <3>1. \A t \in Streams : job'[t].replica = job[t].replica
      <4>1. job' = [job EXCEPT ![s] = [replica |-> job[s].replica, hashes |-> job[s].hashes,
                                       matched |-> job[s].matched, shown |-> job[s].shown,
                                       chunks |-> job[s].chunks + 1]]
        BY <1>1, <2>2, JobFacts DEF UpstreamSpeaks
      <4> QED  BY <1>1, <4>1
    <3>2. \A r \in Replicas : StreamHolders(r)' = StreamHolders(r)
      BY <1>1, <2>2, <3>1 DEF UpstreamSpeaks, Goes, StreamHolders
    <3> QED  BY <2>1, <3>2, StreamKept
  <2>3. ASSUME NEW code \in UpstreamCodes, UpstreamRefuses(s, code)
        PROVE  \A r \in Replicas : StreamHolders(r)' = StreamHolders(r)
    BY <1>2, <2>3 DEF UpstreamRefuses
  <2>4. CASE UpstreamOpens(s) \/ UpstreamEnds(s) \/ UpstreamBreaks(s)
    <3>1. \A r \in Replicas : StreamHolders(r)' = StreamHolders(r)
      BY <1>2, <2>4 DEF UpstreamOpens, UpstreamEnds, UpstreamBreaks
    <3> QED  BY <2>1, <3>1, StreamKept
  <2> QED  BY <1>4, <2>1, <2>2, <2>3, <2>4, StreamKept DEF Upstream
<1>5. CASE MarksDown(s)
  <2>1. \A r \in Replicas : StreamHolders(r)' = StreamHolders(r)
    BY <1>2, <1>5 DEF MarksDown
  <2>2. \A r \in Replicas : inflight'[r] = inflight[r] \/ inflight'[r] = 0
    BY <1>1, <1>5 DEF MarksDown, MarkUnhealthy
  <2> QED  BY <2>1, <2>2, StreamKept
<1>6. CASE ReadsEnd(s) \/ PublishesPick(s) \/ SendsChunk(s) \/ SendFails(s) \/ Reports(s)
  <2>1. UNCHANGED inflight
    BY <1>6 DEF ReadsEnd, PublishesPick, SendsChunk, SendFails, Reports, vars, schedVars
  <2>2. CASE Reports(s)
    <3>1. then[s] # "completed"
      BY <1>1 DEF StreamsOK
    <3>2. \A r \in Replicas : StreamHolders(r)' = StreamHolders(r)
      BY <1>2, <2>2, <3>1 DEF Reports
    <3> QED  BY <2>1, <3>2, StreamKept
  <2>3. CASE ReadsEnd(s) \/ PublishesPick(s) \/ SendsChunk(s) \/ SendFails(s)
    <3>1. \A r \in Replicas : StreamHolders(r)' = StreamHolders(r)
      BY <1>2, <2>3 DEF ReadsEnd, PublishesPick, SendsChunk, SendFails
    <3> QED  BY <2>1, <3>1, StreamKept
  <2> QED  BY <1>6, <2>2, <2>3
<1>7. CASE PublishesComplete(s)
  <2>1. UNCHANGED inflight
    BY <1>7 DEF PublishesComplete, schedVars
  <2>2. \A r \in Replicas : s \notin StreamHolders(r) /\ s \notin StreamHolders(r)'
    BY <1>1, <1>7, ReplicaFacts DEF PublishesComplete, StreamHolders, NoJob
  <2>3. \A t \in Streams \ {s} : job'[t] = job[t] /\ task'[t] = task[t]
    BY <1>1, <1>7 DEF PublishesComplete, Goes
  <2>4. \A r \in Replicas : StreamHolders(r)' = StreamHolders(r)
    BY <2>2, <2>3 DEF StreamHolders
  <2> QED  BY <2>1, <2>4, StreamKept
<1> QED  BY <1>3, <1>4, <1>5, <1>6, <1>7, StreamPicks, StreamCompletes DEF Task

\* Steps of Router move the handlers and leave the streams' holders alone, steps
\* of a stream the other way round.
LEMMA RelayLoadNext == RelayTyped /\ RelayLoadHeld /\ [RelayNext]_allVars => RelayLoadHeld'
<1> SUFFICES ASSUME RelayTyped, RelayLoadHeld, [RelayNext]_allVars, NEW r \in Replicas
             PROVE  inflight'[r] <= Cardinality(Held(r)') + Cardinality(StreamHolders(r)')
  BY DEF RelayLoadHeld
<1>1. RelayTyped'
  BY RelayTypeNext
<1>2. inflight[r] \in Nat /\ inflight'[r] \in Nat
  BY <1>1 DEF RelayTyped, Typed, TypeOK, SchedulerTypeOK
<1>3. /\ Cardinality(Held(r)) \in Nat /\ Cardinality(StreamHolders(r)) \in Nat
      /\ inflight[r] <= Cardinality(Held(r)) + Cardinality(StreamHolders(r))
  BY HeldFacts, StreamHoldersFinite, FS_CardinalityType DEF RelayLoadHeld
<1>4. Cardinality(Held(r)') \in Nat /\ Cardinality(StreamHolders(r)') \in Nat
  <2>1. Held(r)' \in SUBSET Requests /\ StreamHolders(r)' \in SUBSET Streams
    BY DEF Held, StreamHolders
  <2> QED  BY <2>1, RouterAssumption, RelayAssumption, FS_Subset, FS_CardinalityType
<1>5. CASE [Next]_vars /\ UNCHANGED relayVars
  <2>1. LoadMoves
    BY <1>5, LoadNext DEF RelayTyped
  <2>2. StreamHolders(r)' = StreamHolders(r)
    BY <1>5 DEF StreamHolders, relayVars, taskVars
  <2> QED  BY <1>2, <1>3, <1>4, <2>1, <2>2 DEF LoadMoves
<1>6. ASSUME NEW s \in Streams, Client(s) \/ Upstream(s) \/ Task(s)
      PROVE  inflight'[r] <= Cardinality(Held(r)') + Cardinality(StreamHolders(r)')
  <2>1. StreamMoves
    BY <1>6, StreamLoads
  <2>2. UNCHANGED handlerVars
    <3>1. CASE Client(s) \/ Upstream(s)
      BY <3>1 DEF Client, Sends, HalfCloses, Takes, Leaves, Upstream, UpstreamOpens,
                  UpstreamRefuses, UpstreamSpeaks, UpstreamEnds, UpstreamBreaks, vars
    <3>2. CASE Task(s)
      BY <3>2 DEF Task, ReadsMessage, ReadsEnd, PublishesPick, MarksDown, SendsChunk, SendFails,
                  Reports, CompletesJob, PublishesComplete, vars
    <3> QED  BY <1>6, <3>1, <3>2
  <2>3. Held(r)' = Held(r)
    BY <2>2 DEF Held, handlerVars
  <2> QED  BY <1>2, <1>3, <1>4, <2>1, <2>3 DEF StreamMoves
<1> QED  BY <1>5, <1>6 DEF RelayNext, allVars

\* A replica's in-flight count is at most its requests, held or abandoned, and
\* the streams that use it: a stream that returns early, that is reported to or
\* that took its replica down leaves no load behind (server.rs:344-394).
THEOREM RelayLoadAlwaysAccounted == RelaySpec => []RelayLoadAccounted
<1>1. RelayInit => RelayLoadHeld
  <2> SUFFICES ASSUME RelayInit, NEW r \in Replicas
               PROVE  inflight[r] <= Cardinality(Held(r)) + Cardinality(StreamHolders(r))
    BY DEF RelayLoadHeld
  <2>1. Cardinality(Held(r)) \in Nat /\ Cardinality(StreamHolders(r)) \in Nat /\ inflight[r] = 0
    BY HeldFacts, StreamHoldersFinite, FS_CardinalityType DEF RelayInit, Init, SchedulerInit
  <2> QED  BY <2>1
<1>2. RelayLoadHeld => RelayLoadAccounted
  BY HeldFacts DEF RelayLoadHeld, RelayLoadAccounted
<1> QED  BY <1>1, <1>2, RelayTypeInit, RelayTypeNext, RelayLoadNext, PTL DEF RelaySpec
-----------------------------------------------------------------------------
\* The order of the responses.

AnswersTo(rs, m) == {j \in DOMAIN rs : rs[j].msg = m}

\* RelayInOrder, of one sequence of responses.
Ordered(rs) ==
    \A j \in DOMAIN rs :
        /\ \A i \in 1..(j - 1) :
            /\ rs[i].msg <= rs[j].msg
            /\ rs[i].kind = "error" => rs[i].msg < rs[j].msg
        /\ rs[j].kind = "chunk" => rs[j].n = Cardinality({i \in 1..j : rs[i].msg = rs[j].msg})

\* Nothing has been said of a message not yet read, no error of the one being
\* answered, and of its chunks as many as the replica has sent; the last of them
\* may be on its way into the channel.
AnsweringOK(rs, at, m, chunks) ==
    /\ \A j \in DOMAIN rs : rs[j].msg <= m
    /\ at \in {"picked", "opening", "markDown", "relaying", "sending", "reporting"} =>
        \A j \in AnswersTo(rs, m) : rs[j].kind # "error"
    /\ at \in {"picked", "opening", "markDown", "relaying", "sending"} =>
        chunks = Cardinality(AnswersTo(rs, m)) + (IF at = "sending" THEN 1 ELSE 0)

InOrder ==
    \A s \in Streams :
        /\ Ordered(responses[s])
        /\ AnsweringOK(responses[s], task[s], cursor[s], job[s].chunks)

LEMMA AnswersFinite ==
    ASSUME NEW rs \in Seq(Responses), NEW m
    PROVE  IsFiniteSet(AnswersTo(rs, m))
<1>1. DOMAIN rs = 1..Len(rs) /\ Len(rs) \in Nat
  OBVIOUS
<1>2. IsFiniteSet(1..Len(rs))
  BY <1>1, FS_Interval
<1>3. AnswersTo(rs, m) \in SUBSET (1..Len(rs))
  BY <1>1 DEF AnswersTo
<1> QED  BY <1>2, <1>3, FS_Subset

\* What may be appended to responses in order.
LEMMA AppendInOrder ==
    ASSUME NEW rs \in Seq(Responses), NEW x \in Responses, Ordered(rs),
           \A j \in DOMAIN rs : rs[j].msg <= x.msg,
           \A j \in AnswersTo(rs, x.msg) : rs[j].kind # "error",
           x.kind = "chunk" => x.n = Cardinality(AnswersTo(rs, x.msg)) + 1
    PROVE  /\ Ordered(Append(rs, x))
           /\ \A j \in DOMAIN Append(rs, x) : Append(rs, x)[j].msg <= x.msg
           /\ x.kind = "chunk" =>
                /\ \A j \in AnswersTo(Append(rs, x), x.msg) : Append(rs, x)[j].kind # "error"
                /\ x.n = Cardinality(AnswersTo(Append(rs, x), x.msg))
<1> DEFINE n == Len(rs)
           next == Append(rs, x)
<1>1. n \in Nat /\ DOMAIN rs = 1..n
  OBVIOUS
<1>2. /\ DOMAIN next = 1..(n + 1) /\ next[n + 1] = x
      /\ \A j \in 1..n : next[j] = rs[j] /\ rs[j] \in Responses
  OBVIOUS
<1>3. x.msg \in Nat /\ \A j \in 1..n : rs[j].msg \in Nat
  BY <1>2 DEF Responses
<1>4. x.kind \in {"chunk", "error"} /\ \A j \in 1..n : rs[j].kind \in {"chunk", "error"}
  BY <1>2 DEF Responses
<1> HIDE DEF n, next
<1>5. AnswersTo(next, x.msg) = AnswersTo(rs, x.msg) \cup {n + 1}
      /\ n + 1 \notin AnswersTo(rs, x.msg)
  BY <1>1, <1>2 DEF AnswersTo
<1>6. Cardinality(AnswersTo(next, x.msg)) = Cardinality(AnswersTo(rs, x.msg)) + 1
  <2>1. IsFiniteSet(AnswersTo(rs, x.msg))
    BY AnswersFinite
  <2> QED  BY <1>5, <2>1, FS_AddElement
<1>7. \A j \in DOMAIN next : next[j].msg <= x.msg
  BY <1>1, <1>2, <1>3
<1>8. x.kind = "chunk" =>
        /\ \A j \in AnswersTo(next, x.msg) : next[j].kind # "error"
        /\ x.n = Cardinality(AnswersTo(next, x.msg))
  BY <1>1, <1>2, <1>5, <1>6 DEF AnswersTo
<1>9. Ordered(next)
  <2> SUFFICES ASSUME NEW j \in 1..(n + 1)
               PROVE  /\ \A i \in 1..(j - 1) :
                            /\ next[i].msg <= next[j].msg
                            /\ next[i].kind = "error" => next[i].msg < next[j].msg
                      /\ next[j].kind = "chunk" =>
                            next[j].n = Cardinality({i \in 1..j : next[i].msg = next[j].msg})
    BY <1>2 DEF Ordered
  <2>1. CASE j = n + 1
    <3>1. {i \in 1..j : next[i].msg = next[j].msg} = AnswersTo(next, x.msg)
      BY <1>2, <2>1 DEF AnswersTo
    <3>2. \A i \in 1..(j - 1) : i \in 1..n /\ next[i] = rs[i] /\ next[j] = x
      BY <1>1, <1>2, <2>1
    <3>3. \A i \in 1..n : rs[i].msg <= x.msg /\ (rs[i].kind = "error" => rs[i].msg < x.msg)
      BY <1>1, <1>3 DEF AnswersTo
    <3> QED  BY <1>2, <1>8, <2>1, <3>1, <3>2, <3>3
  <2>2. CASE j \in 1..n
    <3>1. \A i \in 1..j : i \in 1..n /\ next[i] = rs[i]
      BY <1>1, <1>2, <2>2
    <3>2. {i \in 1..j : next[i].msg = next[j].msg} = {i \in 1..j : rs[i].msg = rs[j].msg}
      BY <1>2, <2>2, <3>1
    <3>3. \A i \in 1..(j - 1) : i \in 1..j
      BY <1>1, <2>2
    <3> QED  BY <1>1, <1>2, <2>2, <3>1, <3>2, <3>3 DEF Ordered
  <2> QED  BY <1>1, <2>1, <2>2
<1> QED  BY <1>7, <1>8, <1>9 DEF next

LEMMA InOrderInit == RelayInit => InOrder
<1> SUFFICES ASSUME RelayInit, NEW s \in Streams
             PROVE  /\ Ordered(responses[s])
                    /\ AnsweringOK(responses[s], task[s], cursor[s], job[s].chunks)
  BY DEF InOrder
<1>1. responses[s] = <<>> /\ DOMAIN <<>> = {} /\ task[s] = "reading"
  BY DEF RelayInit
<1> QED  BY <1>1 DEF Ordered, AnsweringOK

\* A step that sends nothing, and changes at most where the task of s is and how
\* many chunks it has been given.
LEMMA NothingSent ==
    ASSUME RelayTyped, InOrder, NEW s \in Streams, UNCHANGED <<cursor, responses>>,
           \A t \in Streams \ {s} : task'[t] = task[t] /\ job'[t] = job[t],
           AnsweringOK(responses[s], task'[s], cursor[s], job'[s].chunks)
    PROVE  InOrder'
BY DEF InOrder, RelayTyped, StreamsOK

\* A step that sends x for the message being answered.
LEMMA SentInOrder ==
    ASSUME RelayTyped, InOrder, NEW s \in Streams, NEW x \in Responses,
           UNCHANGED <<cursor, job>>,
           responses' = [responses EXCEPT ![s] = Append(@, x)],
           x.msg = cursor[s],
           task[s] \in {"sending", "reporting"},
           x.kind = "chunk" => task[s] = "sending" /\ task'[s] = "relaying" /\ x.n = job[s].chunks,
           x.kind = "error" => task'[s] \in {"completing", "reading", "ended"},
           \A t \in Streams \ {s} : task'[t] = task[t]
    PROVE  InOrder'
<1>1. /\ responses[s] \in Seq(Responses) /\ DOMAIN responses = Streams
      /\ Ordered(responses[s])
      /\ AnsweringOK(responses[s], task[s], cursor[s], job[s].chunks)
      /\ x.kind \in {"chunk", "error"}
  BY DEF RelayTyped, StreamsOK, InOrder, Responses
<1> DEFINE rs == responses[s]
           next == Append(rs, x)
<1>2. /\ \A j \in DOMAIN rs : rs[j].msg <= x.msg
      /\ \A j \in AnswersTo(rs, x.msg) : rs[j].kind # "error"
      /\ x.kind = "chunk" => x.n = Cardinality(AnswersTo(rs, x.msg)) + 1
  BY <1>1 DEF AnsweringOK
<1>3. /\ Ordered(next)
      /\ \A j \in DOMAIN next : next[j].msg <= x.msg
      /\ x.kind = "chunk" =>
            /\ \A j \in AnswersTo(next, x.msg) : next[j].kind # "error"
            /\ x.n = Cardinality(AnswersTo(next, x.msg))
  BY <1>1, <1>2, AppendInOrder
<1>4. responses'[s] = next /\ \A t \in Streams \ {s} : responses'[t] = responses[t]
  BY <1>1
<1> HIDE DEF rs, next
<1>5. Cardinality(AnswersTo(next, x.msg)) + 0 = Cardinality(AnswersTo(next, x.msg))
      \/ x.kind = "error"
  <2>1. x.n \in Nat
    BY DEF Responses
  <2> QED  BY <1>1, <1>3, <2>1
<1>6. Ordered(next) /\ AnsweringOK(next, task'[s], cursor[s], job[s].chunks)
  BY <1>1, <1>3, <1>5 DEF AnsweringOK
<1>7. \A t \in Streams : /\ Ordered(responses'[t])
                         /\ AnsweringOK(responses'[t], task'[t], cursor[t], job[t].chunks)
  BY <1>4, <1>6 DEF InOrder
<1> QED  BY <1>7 DEF InOrder

\* Nothing has been sent for the message just read.
LEMMA ReadsInOrder ==
    ASSUME RelayTyped, InOrder, NEW s \in Streams, ReadsMessage(s)
    PROVE  InOrder'
<1>1. /\ responses[s] \in Seq(Responses) /\ cursor[s] \in Nat /\ DOMAIN job = Streams
      /\ DOMAIN task = Streams /\ DOMAIN cursor = Streams
      /\ Ordered(responses[s])
      /\ AnsweringOK(responses[s], task[s], cursor[s], job[s].chunks)
  BY DEF RelayTyped, StreamsOK, InOrder
<1>2. UNCHANGED responses /\ cursor' = [cursor EXCEPT ![s] = cursor[s] + 1]
  BY DEF ReadsMessage
<1>3. \A j \in DOMAIN responses[s] : responses[s][j].msg <= cursor[s] + 1
                                      /\ responses[s][j].msg # cursor[s] + 1
  <2>1. ASSUME NEW j \in DOMAIN responses[s]
        PROVE  responses[s][j].msg \in Nat /\ responses[s][j].msg <= cursor[s]
    <3>1. responses[s][j] \in Responses
      BY <1>1
    <3> QED  BY <1>1, <3>1 DEF Responses, AnsweringOK
  <2> QED  BY <1>1, <2>1
<1>4. AnswersTo(responses[s], cursor[s] + 1) = {}
  BY <1>3 DEF AnswersTo
<1>5. \/ task' = [task EXCEPT ![s] = "reporting"] /\ job' = job
      \/ /\ task' = [task EXCEPT ![s] = "picked"]
         /\ \E j : j.chunks = 0 /\ job' = [job EXCEPT ![s] = j]
  <2>1. CASE \E r \in Choice(NextMessage(s).hashes) :
                job' = [job EXCEPT ![s] = [replica |-> r, hashes |-> NextMessage(s).hashes,
                                    matched |-> MatchedBlocks(r, NextMessage(s).hashes),
                                    shown |-> inflight'[r], chunks |-> 0]]
    <3>1. \E j : j.chunks = 0 /\ job' = [job EXCEPT ![s] = j]
      BY <2>1
    <3> QED  BY <3>1 DEF ReadsMessage, Goes
  <2> QED  BY <2>1 DEF ReadsMessage, Goes
<1>6. /\ \A t \in Streams \ {s} : cursor'[t] = cursor[t] /\ task'[t] = task[t] /\ job'[t] = job[t]
      /\ cursor'[s] = cursor[s] + 1
      /\ task'[s] = "reporting" \/ (task'[s] = "picked" /\ job'[s].chunks = 0)
  BY <1>1, <1>2, <1>5
<1>7. AnsweringOK(responses[s], task'[s], cursor[s] + 1, job'[s].chunks)
  <2>1. Cardinality(AnswersTo(responses[s], cursor[s] + 1)) = 0
    BY <1>4, FS_EmptySet
  <2>2. \A j \in DOMAIN responses[s] : responses[s][j].msg <= cursor[s] + 1
    BY <1>3
  <2>3. AnsweringOK(responses[s], "reporting", cursor[s] + 1, job'[s].chunks)
    BY <1>4, <2>2 DEF AnsweringOK
  <2>4. AnsweringOK(responses[s], "picked", cursor[s] + 1, 0)
    BY <1>4, <2>1, <2>2 DEF AnsweringOK
  <2> QED  BY <1>6, <2>3, <2>4
<1>8. \A t \in Streams : /\ Ordered(responses[t])
                         /\ AnsweringOK(responses[t], task'[t], cursor'[t], job'[t].chunks)
  BY <1>6, <1>7 DEF InOrder
<1> QED  BY <1>2, <1>8 DEF InOrder

\* The steps that send nothing.
LEMMA QuietInOrder ==
    ASSUME RelayTyped, InOrder, NEW s \in Streams,
           \/ ReadsEnd(s) \/ PublishesPick(s) \/ MarksDown(s) \/ SendFails(s)
           \/ CompletesJob(s) \/ PublishesComplete(s) \/ Upstream(s)
    PROVE  InOrder'
<1>1. /\ DOMAIN job = Streams /\ DOMAIN task = Streams /\ job[s].chunks \in 0..MaxChunks
      /\ then[s] \in {"reading", "ended"}
      /\ AnsweringOK(responses[s], task[s], cursor[s], job[s].chunks)
  BY JobFacts DEF RelayTyped, StreamsOK, InOrder
<1>2. UNCHANGED <<cursor, responses>>
  BY DEF ReadsEnd, PublishesPick, MarksDown, SendFails, CompletesJob, PublishesComplete,
         Upstream, UpstreamOpens, UpstreamRefuses, UpstreamSpeaks, UpstreamEnds, UpstreamBreaks
<1>3. ASSUME NEW where, Goes(s, where), UNCHANGED job,
             AnsweringOK(responses[s], where, cursor[s], job[s].chunks)
      PROVE  InOrder'
  <2>1. task'[s] = where /\ \A t \in Streams \ {s} : task'[t] = task[t] /\ job'[t] = job[t]
    BY <1>1, <1>3 DEF Goes
  <2> QED  BY <1>2, <1>3, <2>1, NothingSent
<1>4. ASSUME NEW where, Goes(s, where), NEW j, job' = [job EXCEPT ![s] = j],
             AnsweringOK(responses[s], where, cursor[s], j.chunks)
      PROVE  InOrder'
  <2>1. /\ task'[s] = where /\ job'[s] = j
        /\ \A t \in Streams \ {s} : task'[t] = task[t] /\ job'[t] = job[t]
    BY <1>1, <1>4 DEF Goes
  <2> QED  BY <1>2, <1>4, <2>1, NothingSent
<1>5. \A k : \A where \in {"completing", "completed", "reading", "ended"} :
          AnsweringOK(responses[s], where, cursor[s], k)
  BY <1>1 DEF AnsweringOK
<1>6. CASE ReadsEnd(s) \/ SendFails(s) \/ UpstreamEnds(s)
  BY <1>3, <1>5, <1>6 DEF ReadsEnd, SendFails, UpstreamEnds
<1>7. CASE PublishesPick(s) \/ UpstreamOpens(s)
  <2>1. task[s] \in {"picked", "opening"}
    BY <1>7 DEF PublishesPick, UpstreamOpens
  <2>2. \A where \in {"opening", "relaying"} :
          AnsweringOK(responses[s], where, cursor[s], job[s].chunks)
    BY <1>1, <2>1 DEF AnsweringOK
  <2> QED  BY <1>3, <1>7, <2>2 DEF PublishesPick, UpstreamOpens
<1>8. CASE MarksDown(s) \/ UpstreamBreaks(s) \/ \E code \in UpstreamCodes : UpstreamRefuses(s, code)
  <2>1. task[s] \in {"markDown", "relaying", "opening"} /\ UNCHANGED job
    BY <1>8 DEF MarksDown, UpstreamBreaks, UpstreamRefuses
  <2>2. Goes(s, "reporting") \/ (task[s] = "opening" /\ Goes(s, "markDown"))
    BY <1>8 DEF MarksDown, UpstreamBreaks, UpstreamRefuses
  <2>3. AnsweringOK(responses[s], "reporting", cursor[s], job[s].chunks)
    BY <1>1, <2>1 DEF AnsweringOK
  <2>4. task[s] = "opening" => AnsweringOK(responses[s], "markDown", cursor[s], job[s].chunks)
    BY <1>1 DEF AnsweringOK
  <2> QED  BY <1>3, <2>1, <2>2, <2>3, <2>4
<1>9. CASE UpstreamSpeaks(s)
  <2> DEFINE j == [replica |-> job[s].replica, hashes |-> job[s].hashes,
                   matched |-> job[s].matched, shown |-> job[s].shown,
                   chunks |-> job[s].chunks + 1]
  <2>1. job' = [job EXCEPT ![s] = j] /\ Goes(s, "sending") /\ task[s] = "relaying"
    BY <1>9, JobFacts DEF UpstreamSpeaks, RelayTyped
  <2>2. j.chunks = job[s].chunks + 1
    OBVIOUS
  <2> HIDE DEF j
  <2>3. AnsweringOK(responses[s], "sending", cursor[s], job[s].chunks + 1)
    <3>1. job[s].chunks = Cardinality(AnswersTo(responses[s], cursor[s])) + 0
      BY <1>1, <2>1 DEF AnsweringOK
    <3>2. Cardinality(AnswersTo(responses[s], cursor[s])) \in Nat
      BY AnswersFinite, FS_CardinalityType DEF RelayTyped, StreamsOK
    <3> QED  BY <1>1, <2>1, <3>1, <3>2 DEF AnsweringOK
  <2> QED  BY <1>4, <2>1, <2>2, <2>3
<1>10. CASE CompletesJob(s)
  <2>1. job' = [job EXCEPT ![s] = [replica |-> job[s].replica, hashes |-> job[s].hashes,
                                   matched |-> job[s].matched,
                                   shown |-> inflight'[job[s].replica],
                                   chunks |-> job[s].chunks]]
    BY <1>10, JobFacts DEF CompletesJob, RelayTyped
  <2> QED  BY <1>4, <1>5, <1>10, <2>1 DEF CompletesJob
<1>11. CASE PublishesComplete(s)
  BY <1>1, <1>4, <1>5, <1>11 DEF PublishesComplete
<1> QED  BY <1>6, <1>7, <1>8, <1>9, <1>10, <1>11 DEF Upstream

LEMMA SendsInOrder ==
    ASSUME RelayTyped, InOrder, NEW s \in Streams, SendsChunk(s) \/ Reports(s)
    PROVE  InOrder'
<1>1. /\ DOMAIN job = Streams /\ DOMAIN task = Streams /\ cursor[s] \in Nat
      /\ job[s].chunks \in 0..MaxChunks /\ MaxChunks \in Nat
      /\ then[s] \in {"reading", "ended"}
  BY JobFacts, RelayAssumption DEF RelayTyped, StreamsOK
<1>2. UNCHANGED <<cursor, job>>
  BY DEF SendsChunk, Reports
<1>3. CASE SendsChunk(s)
  <2> DEFINE x == [msg |-> cursor[s], kind |-> "chunk", n |-> job[s].chunks]
  <2>1. x \in Responses /\ x.msg = cursor[s] /\ x.kind = "chunk" /\ x.n = job[s].chunks
    BY <1>1 DEF Responses
  <2>2. /\ responses' = [responses EXCEPT ![s] = Append(@, x)]
        /\ task[s] = "sending" /\ task'[s] = "relaying"
        /\ \A t \in Streams \ {s} : task'[t] = task[t]
    BY <1>1, <1>3 DEF SendsChunk, Goes
  <2> HIDE DEF x
  <2> QED  BY <1>2, <2>1, <2>2, SentInOrder
<1>4. CASE Reports(s)
  <2>1. /\ task[s] = "reporting" /\ task'[s] \in {"completing", "reading", "ended"}
        /\ \A t \in Streams \ {s} : task'[t] = task[t]
    BY <1>1, <1>4 DEF Reports, Goes
  <2>2. CASE UNCHANGED responses
    <3>1. AnsweringOK(responses[s], task'[s], cursor[s], job'[s].chunks)
      BY <1>2, <2>1 DEF AnsweringOK, InOrder
    <3> QED  BY <1>2, <2>1, <2>2, <3>1, NothingSent
  <2>3. CASE responses' = [responses EXCEPT ![s] =
                                Append(@, [msg |-> cursor[s], kind |-> "error", n |-> 0])]
    <3> DEFINE x == [msg |-> cursor[s], kind |-> "error", n |-> 0]
    <3>1. x \in Responses /\ x.msg = cursor[s] /\ x.kind = "error"
      BY <1>1 DEF Responses
    <3>2. responses' = [responses EXCEPT ![s] = Append(@, x)]
      BY <2>3
    <3> HIDE DEF x
    <3> QED  BY <1>2, <2>1, <3>1, <3>2, SentInOrder
  <2> QED  BY <1>4, <2>2, <2>3 DEF Reports
<1> QED  BY <1>3, <1>4

LEMMA InOrderNext == RelayTyped /\ InOrder /\ [RelayNext]_allVars => InOrder'
<1> SUFFICES ASSUME RelayTyped, InOrder, [RelayNext]_allVars PROVE InOrder'  OBVIOUS
<1>1. ASSUME UNCHANGED taskVars PROVE InOrder'
  BY <1>1 DEF InOrder, taskVars
<1>2. ASSUME NEW s \in Streams, Client(s) PROVE InOrder'
  BY <1>1, <1>2 DEF Client, Sends, HalfCloses, Takes, Leaves
<1>3. ASSUME NEW s \in Streams, Task(s) PROVE InOrder'
  BY <1>3, ReadsInOrder, QuietInOrder, SendsInOrder DEF Task
<1> QED  BY <1>1, <1>2, <1>3, QuietInOrder DEF RelayNext, relayVars, allVars

\* The client gets the answers in the order of its messages, the chunks of an
\* answer one after the other, and nothing of an answer after the error that
\* ends it: what a replica sent is never sent again (server.rs:361-363).
THEOREM AnswersStayInOrder == RelaySpec => []RelayInOrder
<1>1. InOrder => RelayInOrder
  BY DEF InOrder, Ordered, RelayInOrder
<1> QED  BY <1>1, InOrderInit, InOrderNext, RelayTypeInit, RelayTypeNext, PTL DEF RelaySpec
=============================================================================
