----------------------------- MODULE StreamProofs -----------------------------
(***************************************************************************)
(* Theorems about StreamPath, for any number of streams, messages, chunks  *)
(* and faults: its steps are steps of StreamRelay, whose invariants it     *)
(* therefore has, and no answer is cut short in silence.                   *)
(***************************************************************************)
EXTENDS StreamPath, RelayProofs

Servings ==
    [replica : Replicas \cup {NoReplica},
     at : {"none", "reading", "decoding", "rejecting", "rejected", "ended", "killed"}]

\* The calls, and what the replicas' tasks have put into their channels.
PathTyped ==
    /\ serving \in [Calls -> Servings]
    /\ pipe \in [Calls -> Seq({"part", "final", "error"})]

\* A stream calls a replica only for a message it has read.
CallsOK ==
    \A s \in Streams :
        /\ Len(sent[s]) <= MaxMessages
        /\ task[s] \notin {"reading", "ended"} => cursor[s] > 0

\* Nobody serves a call before it is made: a call is made once.
NotYet(task0, p) == task0 = [replica |-> NoReplica, at |-> "none"] /\ p = <<>>

Fresh ==
    \A s \in Streams, k \in 1..MaxMessages :
        k > cursor[s] \/ (k = cursor[s] /\ task[s] \in {"picked", "opening"})
            => NotYet(serving[<<s, k>>], pipe[<<s, k>>])

\* A task that has answered, and that the relay still listens to, has ended its
\* answer with the last chunk or with an error.
Ended(p) == Len(p) > 0 /\ p[Len(p)] \in {"final", "error"}

PipeOK(at, p, attached) ==
    /\ at \in {"none", "reading", "rejecting"} => p = <<>>
    /\ at = "decoding" => Len(p) <= MaxChunks /\ (Len(p) = MaxChunks => Ended(p))
    /\ at \in {"rejected", "ended"} /\ attached => Ended(p)

PipesOK == \A c \in Calls : PipeOK(serving[c].at, pipe[c], Attached(c))

\* AnswersWhole, of one message: rs is all that was sent to the client, p all
\* that the replica sent for message k.
Whole(rs, k, p) ==
    \E j \in DOMAIN rs :
        /\ rs[j].msg = k
        /\ \/ rs[j].kind = "error"
           \/ rs[j].n \in DOMAIN p /\ p[rs[j].n] \in {"final", "error"}

\* What the relay has taken it has sent on, and a message is answered as soon
\* as its replica is about to be completed.
Sofar(at, rs, m, chunks) ==
    /\ at \in {"picked", "opening"} => chunks = 0
    /\ at = "relaying" /\ chunks > 0 => \E j \in DOMAIN rs : rs[j].msg = m /\ rs[j].n = chunks

Done(at, k, m) == k < m \/ at \in {"reading", "ended", "completing", "completed"}

AnswersOK ==
    \A s \in Streams :
        /\ Sofar(task[s], responses[s], cursor[s], job[s].chunks)
        /\ client[s] # "gone" =>
            \A k \in 1..cursor[s] :
                Done(task[s], k, cursor[s]) => Whole(responses[s], k, pipe[<<s, k>>])

PathOK == PathTyped /\ CallsOK /\ Fresh /\ PipesOK /\ AnswersOK
-----------------------------------------------------------------------------
\* Whatever the replica's tasks do, the relay takes steps of StreamRelay.
LEMMA PathSteps == [PathNext]_fullVars => [RelayNext]_allVars
<1> SUFFICES ASSUME [PathNext]_fullVars PROVE [RelayNext]_allVars  OBVIOUS
<1>1. CASE RouterSteps
  BY <1>1 DEF RouterSteps, RelayNext
<1>2. ASSUME NEW s \in Streams,
             \/ Client(s) \/ Task(s) \/ CallResolves(s) \/ AnswerArrives(s) \/ ConnectionBreaks(s)
      PROVE  RelayNext
  <2>1. Client(s) \/ Task(s) \/ Upstream(s)
    BY <1>2 DEF CallResolves, AnswerArrives, ConnectionBreaks, Upstream
  <2> QED  BY <2>1 DEF RelayNext
<1>3. ASSUME NEW c \in Calls, ReplicaTask(c) PROVE UNCHANGED allVars
  BY <1>3 DEF ReplicaTask, ReplicaReads, ReplicaDecodes, ReplicaRejects, ReplicaStops
<1>4. ASSUME NEW r \in Replicas, RestartsUnseen(r) PROVE UNCHANGED allVars
  BY <1>4 DEF RestartsUnseen
<1> QED  BY <1>1, <1>2, <1>3, <1>4 DEF PathNext, fullVars

\* With this replica at its end, the relay behaves as StreamRelay says: the safety
\* part of ImplementsRelay (service.rs:238-302).
THEOREM PathImplementsRelay == PathSpec => RelaySpec
<1>1. PathInit => RelayInit
  BY DEF PathInit
<1> QED  BY <1>1, PathSteps, PTL DEF PathSpec, RelaySpec

\* So the relay's types, its load and its order are kept with this replica, its
\* tasks and its channels at the other end (server.rs:304-382, service.rs:238-302).
THEOREM PathKeepsRelay == PathSpec => [](RelayTypeOK /\ RelayLoadAccounted /\ RelayInOrder)
BY PathImplementsRelay, RelayTypeCorrect, RelayLoadAlwaysAccounted, AnswersStayInOrder, PTL
-----------------------------------------------------------------------------
LEMMA PathInitOK == PathInit => PathOK
<1> SUFFICES ASSUME PathInit PROVE PathOK  OBVIOUS
<1>1. /\ \A s \in Streams : /\ sent[s] = <<>> /\ task[s] = "reading" /\ cursor[s] = 0
                            /\ responses[s] = <<>>
      /\ serving = [c \in Calls |-> [replica |-> NoReplica, at |-> "none"]]
      /\ pipe = [c \in Calls |-> <<>>]
  BY DEF PathInit, RelayInit
<1>2. PathTyped
  BY <1>1 DEF PathTyped, Servings
<1>3. CallsOK
  BY <1>1, RelayAssumption DEF CallsOK
<1>4. Fresh
  BY <1>1 DEF Fresh, NotYet, Calls
<1>5. PipesOK
  BY <1>1 DEF PipesOK, PipeOK
<1>6. AnswersOK
  BY <1>1 DEF AnswersOK, Sofar
<1> QED  BY <1>2, <1>3, <1>4, <1>5, <1>6 DEF PathOK

\* The calls of a stream, and what of the relay bears on them.
LEMMA CallFacts ==
    ASSUME RelayTyped, CallsOK, NEW s \in Streams
    PROVE  /\ cursor[s] \in Nat /\ cursor[s] <= MaxMessages /\ MaxMessages \in Nat
           /\ \A k \in 1..cursor[s] : <<s, k>> \in Calls
           /\ task[s] \notin {"reading", "ended"} => CallOf(s) \in Calls
<1>1. /\ cursor[s] \in Nat /\ cursor[s] <= Len(sent[s]) /\ Len(sent[s]) <= MaxMessages
      /\ sent[s] \in Seq(Messages) /\ MaxMessages \in Nat
  BY RelayAssumption DEF RelayTyped, StreamsOK, CallsOK
<1>2. cursor[s] <= MaxMessages
  <2>1. Len(sent[s]) \in Nat
    BY <1>1
  <2> QED  BY <1>1, <2>1
<1>3. \A k \in 1..cursor[s] : <<s, k>> \in Calls
  BY <1>1, <1>2 DEF Calls
<1> QED  BY <1>1, <1>2, <1>3 DEF CallsOK, CallOf

\* A step of one stream.
LEMMA OneStream ==
    ASSUME RelayTyped, NEW s \in Streams, Client(s) \/ Upstream(s) \/ Task(s)
    PROVE  \A t \in Streams \ {s} :
              /\ client'[t] = client[t] /\ sent'[t] = sent[t] /\ cursor'[t] = cursor[t]
              /\ task'[t] = task[t] /\ job'[t] = job[t] /\ responses'[t] = responses[t]
<1>1. /\ DOMAIN client = Streams /\ DOMAIN sent = Streams /\ DOMAIN cursor = Streams
      /\ DOMAIN task = Streams /\ DOMAIN job = Streams /\ DOMAIN responses = Streams
  BY DEF RelayTyped, StreamsOK
<1>2. CASE Client(s)
  BY <1>1, <1>2 DEF Client, Sends, HalfCloses, Takes, Leaves, taskVars
<1>3. CASE Upstream(s)
  BY <1>1, <1>3 DEF Upstream, UpstreamOpens, UpstreamRefuses, UpstreamSpeaks, UpstreamEnds,
                    UpstreamBreaks, Goes, clientVars
<1>4. CASE Task(s)
  <2>1. CASE ReadsMessage(s)
    BY <1>1, <2>1 DEF ReadsMessage, Goes, clientVars
  <2>2. CASE ReadsEnd(s) \/ PublishesPick(s) \/ MarksDown(s) \/ SendsChunk(s) \/ SendFails(s)
    BY <1>1, <2>2 DEF ReadsEnd, PublishesPick, MarksDown, SendsChunk, SendFails, Goes, clientVars
  <2>3. CASE Reports(s) \/ CompletesJob(s) \/ PublishesComplete(s)
    BY <1>1, <2>3 DEF Reports, CompletesJob, PublishesComplete, Goes, clientVars
  <2> QED  BY <1>4, <2>1, <2>2, <2>3 DEF Task
<1> QED  BY <1>2, <1>3, <1>4

\* A step of s itself: where its task goes from where, and what becomes of its
\* client, its responses and what it has taken.
LEMMA ItsStream ==
    ASSUME RelayTyped, NEW s \in Streams, Client(s) \/ Upstream(s) \/ Task(s)
    PROVE  /\ client'[s] # "gone" => client[s] # "gone"
           /\ Len(sent'[s]) = Len(sent[s])
                \/ (Len(sent[s]) < MaxMessages /\ Len(sent'[s]) = Len(sent[s]) + 1)
           /\ responses'[s] = responses[s]
                \/ \E x \in Responses : responses'[s] = Append(responses[s], x)
           /\ \/ UNCHANGED <<task, cursor, job>>
              \/ /\ task[s] = "reading" /\ task'[s] \in {"picked", "reporting"}
                 /\ cursor'[s] = cursor[s] + 1
                 /\ task'[s] = "picked" => job'[s].chunks = 0
              \/ /\ cursor'[s] = cursor[s]
                 /\ \/ /\ task[s] = "reading" /\ task'[s] = "ended"
                    \/ /\ task[s] = "picked" /\ task'[s] = "opening"
                       /\ job'[s].chunks = job[s].chunks
                    \/ /\ task[s] = "opening"
                       /\ \/ /\ UpstreamOpens(s) /\ task'[s] = "relaying"
                             /\ job'[s].chunks = job[s].chunks
                          \/ task'[s] \in {"markDown", "reporting"}
                    \/ /\ task[s] = "markDown" /\ task'[s] = "reporting"
                    \/ /\ task[s] = "relaying" /\ UpstreamSpeaks(s)
                       /\ task'[s] = "sending"
                    \/ /\ task[s] = "relaying"
                       /\ \/ UpstreamEnds(s) /\ task'[s] = "completing"
                          \/ task'[s] = "reporting"
                    \/ /\ task[s] = "sending" /\ client'[s] = "gone" /\ task'[s] = "completing"
                    \/ /\ task[s] = "sending" /\ task'[s] = "relaying"
                       /\ job'[s].chunks = job[s].chunks
                       /\ responses'[s] = Append(responses[s],
                            [msg |-> cursor[s], kind |-> "chunk", n |-> job[s].chunks])
                    \/ /\ task[s] = "reporting"
                       /\ task'[s] \in {"completing", "reading", "ended"}
                       /\ \/ client'[s] = "gone"
                          \/ responses'[s] = Append(responses[s],
                               [msg |-> cursor[s], kind |-> "error", n |-> 0])
                    \/ /\ task[s] = "completing" /\ task'[s] = "completed"
                    \/ /\ task[s] = "completed" /\ task'[s] \in {"reading", "ended"}
<1>1. /\ DOMAIN client = Streams /\ DOMAIN sent = Streams /\ DOMAIN cursor = Streams
      /\ DOMAIN task = Streams /\ DOMAIN job = Streams /\ DOMAIN responses = Streams
      /\ sent[s] \in Seq(Messages) /\ cursor[s] \in Nat /\ job[s].chunks \in Nat
      /\ then[s] \in {"reading", "ended"} /\ StreamsOK
  BY JobFacts, RelayAssumption DEF RelayTyped, StreamsOK
<1>2. CASE Client(s)
  <2>1. UNCHANGED <<task, cursor, job, responses>>
    BY <1>2 DEF Client, Sends, HalfCloses, Takes, Leaves, taskVars
  <2>2. client'[s] # "gone" => client[s] # "gone"
    BY <1>1, <1>2 DEF Client, Sends, HalfCloses, Takes, Leaves, taskVars
  <2>3. Len(sent'[s]) = Len(sent[s])
          \/ (Len(sent[s]) < MaxMessages /\ Len(sent'[s]) = Len(sent[s]) + 1)
    BY <1>1, <1>2 DEF Client, Sends, HalfCloses, Takes, Leaves
  <2> QED  BY <2>1, <2>2, <2>3
<1>3. CASE Upstream(s)
  <2>1. UNCHANGED <<client, sent, responses, cursor>>
    BY <1>3 DEF Upstream, UpstreamOpens, UpstreamRefuses, UpstreamSpeaks, UpstreamEnds,
                UpstreamBreaks, clientVars
  <2>2. CASE UpstreamOpens(s)
    BY <1>1, <2>1, <2>2 DEF UpstreamOpens, Goes
  <2>3. ASSUME NEW code \in UpstreamCodes, UpstreamRefuses(s, code)
        PROVE  task[s] = "opening" /\ task'[s] \in {"markDown", "reporting"}
    BY <1>1, <2>3 DEF UpstreamRefuses, Goes
  <2>4. CASE UpstreamSpeaks(s)
    BY <1>1, <2>1, <2>4 DEF UpstreamSpeaks, Goes
  <2>5. CASE UpstreamEnds(s)
    BY <1>1, <2>1, <2>5 DEF UpstreamEnds, Goes
  <2>6. CASE UpstreamBreaks(s)
    BY <1>1, <2>1, <2>6 DEF UpstreamBreaks, Goes
  <2> QED  BY <1>3, <2>1, <2>2, <2>3, <2>4, <2>5, <2>6 DEF Upstream
<1>4. CASE Task(s)
  <2>1. UNCHANGED <<client, sent>>
    BY <1>4 DEF Task, ReadsMessage, ReadsEnd, PublishesPick, MarksDown, SendsChunk, SendFails,
                Reports, CompletesJob, PublishesComplete, clientVars
  <2>2. CASE ReadsMessage(s)
    <3>1. /\ task[s] = "reading" /\ responses' = responses
          /\ cursor'[s] = cursor[s] + 1
      BY <1>1, <2>2 DEF ReadsMessage
    <3>2. task'[s] = "reporting" \/ (task'[s] = "picked" /\ job'[s].chunks = 0)
      <4>1. ASSUME NEW r \in Choice(NextMessage(s).hashes),
                   job' = [job EXCEPT ![s] = [replica |-> r, hashes |-> NextMessage(s).hashes,
                                matched |-> MatchedBlocks(r, NextMessage(s).hashes),
                                shown |-> inflight'[r], chunks |-> 0]]
            PROVE  job'[s].chunks = 0
        BY <1>1, <4>1
      <4> QED  BY <1>1, <2>2, <4>1 DEF ReadsMessage, Goes
    <3> QED  BY <2>1, <3>1, <3>2
  <2>3. CASE ReadsEnd(s) \/ PublishesPick(s) \/ MarksDown(s)
    BY <1>1, <2>1, <2>3 DEF ReadsEnd, PublishesPick, MarksDown, Goes
  <2>4. CASE SendsChunk(s)
    <3>1. [msg |-> cursor[s], kind |-> "chunk", n |-> job[s].chunks] \in Responses
      BY <1>1 DEF Responses
    <3> QED  BY <1>1, <2>1, <2>4, <3>1 DEF SendsChunk, Goes
  <2>5. CASE SendFails(s)
    BY <1>1, <2>1, <2>5 DEF SendFails, Goes
  <2>6. CASE Reports(s)
    <3>1. [msg |-> cursor[s], kind |-> "error", n |-> 0] \in Responses
      BY <1>1 DEF Responses
    <3>2. task'[s] \in {"completing", "reading", "ended"}
      BY <1>1, <2>6 DEF Reports, Goes
    <3> QED  BY <1>1, <2>1, <2>6, <3>1, <3>2 DEF Reports
  <2>7. CASE CompletesJob(s) \/ PublishesComplete(s)
    BY <1>1, <2>1, <2>7 DEF CompletesJob, PublishesComplete, Goes
  <2> QED  BY <1>4, <2>2, <2>3, <2>4, <2>5, <2>6, <2>7 DEF Task
<1> QED  BY <1>2, <1>3, <1>4

LEMMA CursorMoves ==
    ASSUME RelayTyped, NEW s \in Streams, Client(s) \/ Upstream(s) \/ Task(s)
    PROVE  \/ task'[s] = task[s] /\ cursor'[s] = cursor[s]
           \/ task[s] = "reading" /\ cursor'[s] = cursor[s] + 1
           \/ /\ cursor'[s] = cursor[s]
              /\ task[s] \notin {"reading", "ended"} \/ task'[s] = "ended"
              /\ task'[s] \in {"picked", "opening"} => task[s] = "picked"
BY ItsStream

\* The steps of the streams, as PathNext puts them together with the replica's.
StreamStep(s) ==
    \/ (Client(s) \/ Task(s)) /\ UNCHANGED pathVars
    \/ CallResolves(s) \/ AnswerArrives(s) \/ ConnectionBreaks(s)

LEMMA StreamStepIs ==
    ASSUME NEW s \in Streams, StreamStep(s)
    PROVE  Client(s) \/ Upstream(s) \/ Task(s)
BY DEF StreamStep, CallResolves, AnswerArrives, ConnectionBreaks, Upstream

LEMMA CallsStep ==
    ASSUME RelayTyped, CallsOK, NEW s \in Streams, StreamStep(s)
    PROVE  CallsOK'
<1>1. Client(s) \/ Upstream(s) \/ Task(s)
  BY StreamStepIs
<1>2. \A t \in Streams \ {s} : sent'[t] = sent[t] /\ cursor'[t] = cursor[t] /\ task'[t] = task[t]
  BY <1>1, OneStream
<1>3. /\ cursor[s] \in Nat /\ sent[s] \in Seq(Messages) /\ MaxMessages \in Nat
      /\ Len(sent[s]) <= MaxMessages
      /\ task[s] \notin {"reading", "ended"} => cursor[s] > 0
  BY RelayAssumption DEF RelayTyped, StreamsOK, CallsOK
<1>4. Len(sent[s]) \in Nat
  BY <1>3
<1>5. Len(sent'[s]) <= MaxMessages
  <2>1. \/ Len(sent'[s]) = Len(sent[s])
        \/ Len(sent[s]) < MaxMessages /\ Len(sent'[s]) = Len(sent[s]) + 1
    BY <1>1, ItsStream
  <2> QED  BY <1>3, <1>4, <2>1
<1>6. task'[s] \notin {"reading", "ended"} => cursor'[s] > 0
  BY <1>1, <1>3, CursorMoves
<1>7. \A t \in Streams : /\ Len(sent'[t]) <= MaxMessages
                         /\ task'[t] \notin {"reading", "ended"} => cursor'[t] > 0
  BY <1>2, <1>5, <1>6 DEF CallsOK
<1> QED  BY <1>7 DEF CallsOK

\* What StreamStep does to the calls: at most, it has the replica serve one that
\* was being opened.
LEMMA StreamCalls ==
    ASSUME RelayTyped, PathTyped, CallsOK, NEW s \in Streams, StreamStep(s)
    PROVE  /\ pipe' = pipe
           /\ \/ serving' = serving /\ ~UpstreamOpens(s)
              \/ /\ task[s] = "opening" /\ task'[s] \notin {"picked", "opening"}
                 /\ cursor'[s] = cursor[s] /\ CallOf(s) \in Calls
                 /\ job[s].replica \in Replicas
                 /\ \/ serving' = serving /\ ~UpstreamOpens(s)
                    \/ serving' = [serving EXCEPT ![CallOf(s)] =
                                    [replica |-> job[s].replica, at |-> "reading"]]
<1>1. CASE (Client(s) \/ Task(s)) /\ UNCHANGED pathVars
  <2>1. ~UpstreamOpens(s)
    <3>1. SUFFICES ASSUME UpstreamOpens(s) PROVE FALSE  OBVIOUS
    <3>2. task[s] = "opening" /\ task'[s] = "relaying"
      BY <3>1 DEF UpstreamOpens, Goes, RelayTyped, StreamsOK
    <3>3. CASE Client(s)
      BY <3>2, <3>3 DEF Client, Sends, HalfCloses, Takes, Leaves, taskVars
    <3>4. CASE Task(s)
      BY <3>2, <3>4 DEF Task, ReadsMessage, ReadsEnd, PublishesPick, MarksDown, SendsChunk,
                        SendFails, Reports, CompletesJob, PublishesComplete
    <3> QED  BY <1>1, <3>3, <3>4
  <2> QED  BY <1>1, <2>1 DEF pathVars
<1>2. CASE AnswerArrives(s) \/ ConnectionBreaks(s)
  BY <1>2 DEF AnswerArrives, ConnectionBreaks, UpstreamSpeaks, UpstreamEnds, UpstreamBreaks,
              UpstreamOpens, pathVars
<1>3. CASE CallResolves(s)
  <2>1. pipe' = pipe
    BY <1>3 DEF CallResolves
  <2>2. task[s] = "opening" /\ cursor'[s] = cursor[s]
    BY <1>3 DEF CallResolves, UpstreamOpens, UpstreamRefuses
  <2>3. DOMAIN task = Streams
    BY DEF RelayTyped, StreamsOK
  <2>4. task'[s] \notin {"picked", "opening"}
    BY <1>3, <2>3 DEF CallResolves, UpstreamOpens, UpstreamRefuses, Goes
  <2>5. CallOf(s) \in Calls
    BY <2>2, CallFacts
  <2>6. job[s].replica \in Replicas
    BY <2>2, JobFacts DEF RelayTyped, StreamsOK
  <2>7. \/ serving' = serving /\ ~UpstreamOpens(s)
        \/ serving' = [serving EXCEPT ![CallOf(s)] =
                         [replica |-> job[s].replica, at |-> "reading"]]
    <3>1. CASE UpstreamOpens(s) /\ Spawned(s)
      BY <3>1 DEF Spawned
    <3>2. ASSUME NEW code \in UpstreamCodes, UpstreamRefuses(s, code),
                 (up[job[s].replica] /\ Spawned(s)) \/ UNCHANGED serving
          PROVE  \/ serving' = serving /\ ~UpstreamOpens(s)
                 \/ serving' = [serving EXCEPT ![CallOf(s)] =
                                  [replica |-> job[s].replica, at |-> "reading"]]
      <4>1. ~UpstreamOpens(s)
        BY <2>3, <3>2 DEF UpstreamRefuses, UpstreamOpens, Goes
      <4> QED  BY <3>2, <4>1 DEF Spawned
    <3> QED  BY <1>3, <3>1, <3>2 DEF CallResolves
  <2> QED  BY <2>1, <2>2, <2>4, <2>5, <2>6, <2>7
<1> QED  BY <1>1, <1>2, <1>3 DEF StreamStep

LEMMA FreshStep ==
    ASSUME RelayTyped, PathTyped, CallsOK, Fresh, NEW s \in Streams, StreamStep(s)
    PROVE  PathTyped' /\ Fresh'
<1>1. Client(s) \/ Upstream(s) \/ Task(s)
  BY StreamStepIs
<1>2. \A t \in Streams \ {s} : cursor'[t] = cursor[t] /\ task'[t] = task[t]
  BY <1>1, OneStream
<1>3. PathTyped'
  <2>1. [replica |-> job[s].replica, at |-> "reading"] \in Servings
    BY JobFacts DEF RelayTyped, Servings
  <2> QED  BY <2>1, StreamCalls DEF PathTyped
<1>4. cursor[s] \in Nat /\ MaxMessages \in Nat
  BY CallFacts
<1>5. ASSUME NEW t \in Streams, NEW k \in 1..MaxMessages,
             k > cursor'[t] \/ (k = cursor'[t] /\ task'[t] \in {"picked", "opening"})
      PROVE  NotYet(serving'[<<t, k>>], pipe'[<<t, k>>])
  <2>1. k > cursor[t] \/ (k = cursor[t] /\ task[t] \in {"picked", "opening"})
    <3>1. CASE t # s
      BY <1>2, <1>5, <3>1
    <3>2. CASE t = s
      BY <1>1, <1>4, <1>5, <3>2, CursorMoves
    <3> QED  BY <3>1, <3>2
  <2>2. NotYet(serving[<<t, k>>], pipe[<<t, k>>])
    BY <2>1 DEF Fresh
  <2>3. pipe'[<<t, k>>] = pipe[<<t, k>>]
    BY StreamCalls
  <2>4. serving'[<<t, k>>] = serving[<<t, k>>]
    <3>1. <<t, k>> \in Calls
      BY DEF Calls
    <3>2. ASSUME task[s] = "opening", task'[s] \notin {"picked", "opening"},
                 cursor'[s] = cursor[s]
          PROVE  <<t, k>> # CallOf(s)
      BY <1>4, <1>5, <3>2 DEF CallOf
    <3> QED  BY <3>1, <3>2, StreamCalls DEF PathTyped
  <2> QED  BY <2>2, <2>3, <2>4
<1>6. Fresh'
  BY <1>5 DEF Fresh
<1> QED  BY <1>3, <1>6

\* A call that a stream starts to listen to has not been answered yet.
LEMMA PipesStep ==
    ASSUME RelayTyped, PathTyped, CallsOK, Fresh, PipesOK, NEW s \in Streams, StreamStep(s)
    PROVE  PipesOK'
<1>1. Client(s) \/ Upstream(s) \/ Task(s)
  BY StreamStepIs
<1>2. \A t \in Streams \ {s} : cursor'[t] = cursor[t] /\ task'[t] = task[t]
  BY <1>1, OneStream
<1>3. \A c \in Calls : Attached(c)' =>
          Attached(c) \/ (c = CallOf(s) /\ UpstreamOpens(s) /\ task[s] = "opening")
  <2> SUFFICES ASSUME NEW c \in Calls, Attached(c)', ~Attached(c)
               PROVE  c = CallOf(s) /\ UpstreamOpens(s) /\ task[s] = "opening"
    OBVIOUS
  <2>1. c[1] \in Streams
    BY DEF Calls
  <2>2. c = <<c[1], cursor'[c[1]]>> /\ task'[c[1]] \in {"relaying", "sending"}
    BY DEF Attached, CallOf
  <2>3. ~(c = <<c[1], cursor[c[1]]>> /\ task[c[1]] \in {"relaying", "sending"})
    BY DEF Attached, CallOf
  <2>4. c[1] = s
    BY <1>2, <2>1, <2>2, <2>3
  <2>5. cursor'[s] = cursor[s] /\ UpstreamOpens(s) /\ task[s] = "opening"
    BY <1>1, <2>2, <2>3, <2>4, ItsStream
  <2> QED  BY <2>2, <2>4, <2>5 DEF CallOf
<1>4. ASSUME NEW c \in Calls PROVE PipeOK(serving'[c].at, pipe'[c], Attached(c)')
  <2>1. PipeOK(serving[c].at, pipe[c], Attached(c)) /\ pipe'[c] = pipe[c]
    BY StreamCalls DEF PipesOK
  <2>2. CASE serving'[c] = serving[c] /\ ~(c = CallOf(s) /\ UpstreamOpens(s) /\ task[s] = "opening")
    BY <1>3, <2>1, <2>2 DEF PipeOK
  <2>3. CASE c = CallOf(s) /\ task[s] = "opening"
             /\ serving' = [serving EXCEPT ![CallOf(s)] =
                              [replica |-> job[s].replica, at |-> "reading"]]
    <3>1. pipe[c] = <<>>
      <4>1. /\ c = <<s, cursor[s]>> /\ cursor[s] \in Nat /\ cursor[s] <= MaxMessages
            /\ cursor[s] > 0 /\ MaxMessages \in Nat
        BY <2>3, CallFacts DEF CallOf, CallsOK
      <4>2. cursor[s] \in 1..MaxMessages
        BY <4>1
      <4> QED  BY <2>3, <4>1, <4>2 DEF Fresh, NotYet
    <3>2. serving'[c].at = "reading"
      BY <2>3 DEF PathTyped
    <3> QED  BY <2>1, <3>1, <3>2 DEF PipeOK
  <2>4. \/ serving'[c] = serving[c] /\ ~(c = CallOf(s) /\ UpstreamOpens(s) /\ task[s] = "opening")
        \/ /\ c = CallOf(s) /\ task[s] = "opening"
           /\ serving' = [serving EXCEPT ![CallOf(s)] =
                            [replica |-> job[s].replica, at |-> "reading"]]
    BY StreamCalls DEF PathTyped
  <2> QED  BY <2>2, <2>3, <2>4
<1> QED  BY <1>4 DEF PipesOK

\* What has been sent stays sent.
LEMMA WholeGrows ==
    ASSUME NEW rs \in Seq(Responses), NEW rs2, NEW k,
           NEW p \in Seq({"part", "final", "error"}), NEW p2,
           Whole(rs, k, p),
           rs2 = rs \/ \E x \in Responses : rs2 = Append(rs, x),
           p2 = p \/ \E y \in {"part", "final", "error"} : p2 = Append(p, y)
    PROVE  Whole(rs2, k, p2)
<1>1. PICK j \in DOMAIN rs :
        /\ rs[j].msg = k
        /\ \/ rs[j].kind = "error"
           \/ rs[j].n \in DOMAIN p /\ p[rs[j].n] \in {"final", "error"}
  BY DEF Whole
<1>2. j \in DOMAIN rs2 /\ rs2[j] = rs[j]
  OBVIOUS
<1>3. ASSUME NEW y \in {"part", "final", "error"}, p2 = Append(p, y), NEW n \in DOMAIN p
      PROVE  n \in DOMAIN p2 /\ p2[n] = p[n]
  BY <1>3
<1>4. \A n \in DOMAIN p : n \in DOMAIN p2 /\ p2[n] = p[n]
  BY <1>3
<1> QED  BY <1>1, <1>2, <1>4 DEF Whole

\* The end of the answer comes after all of it.
LEMMA EndsWhole ==
    ASSUME RelayTyped, PathTyped, CallsOK, PipesOK, AnswersOK, NEW s \in Streams, StreamStep(s),
           UpstreamEnds(s)
    PROVE  Whole(responses[s], cursor[s], pipe[<<s, cursor[s]>>])
<1>1. task[s] = "relaying" /\ task'[s] = "completing"
  BY DEF UpstreamEnds, Goes, RelayTyped, StreamsOK
<1>2. job[s].chunks = Len(pipe[CallOf(s)]) /\ serving[CallOf(s)].at = "ended"
  <2>1. CASE Client(s)
    BY <1>1, <2>1 DEF Client, Sends, HalfCloses, Takes, Leaves, taskVars
  <2>2. CASE Task(s)
    BY <1>1, <2>2 DEF Task, ReadsMessage, ReadsEnd, PublishesPick, MarksDown, SendsChunk,
                      SendFails, Reports, CompletesJob, PublishesComplete
  <2>3. CASE CallResolves(s)
    BY <1>1, <2>3 DEF CallResolves, UpstreamOpens, UpstreamRefuses
  <2>4. ~UpstreamSpeaks(s) /\ ~UpstreamBreaks(s)
    BY <1>1 DEF UpstreamSpeaks, UpstreamBreaks, Goes, RelayTyped, StreamsOK
  <2> QED  BY <2>1, <2>2, <2>3, <2>4 DEF StreamStep, AnswerArrives, ConnectionBreaks
<1> DEFINE c == <<s, cursor[s]>>
<1>3. c \in Calls /\ CallOf(s) = c
  BY <1>1, CallFacts DEF CallOf
<1>4. Attached(c)
  BY <1>1 DEF Attached, CallOf
<1>5. Ended(pipe[c])
  BY <1>2, <1>3, <1>4 DEF PipesOK, PipeOK
<1>6. pipe[c] \in Seq({"part", "final", "error"})
  BY <1>3 DEF PathTyped
<1> HIDE DEF c
<1>7. Len(pipe[c]) \in Nat /\ Len(pipe[c]) > 0 /\ Len(pipe[c]) \in DOMAIN pipe[c]
      /\ pipe[c][Len(pipe[c])] \in {"final", "error"}
  BY <1>5, <1>6 DEF Ended
<1>8. PICK j \in DOMAIN responses[s] :
        responses[s][j].msg = cursor[s] /\ responses[s][j].n = Len(pipe[c])
  BY <1>1, <1>2, <1>3, <1>7 DEF AnswersOK, Sofar
<1> QED  BY <1>7, <1>8 DEF Whole, c

LEMMA AnswersStep ==
    ASSUME RelayTyped, PathTyped, CallsOK, PipesOK, AnswersOK, NEW s \in Streams, StreamStep(s)
    PROVE  AnswersOK'
<1>1. Client(s) \/ Upstream(s) \/ Task(s)
  BY StreamStepIs
<1>2. pipe' = pipe
  BY StreamCalls
<1> DEFINE rs == responses[s]  m == cursor[s]  at == task[s]  at2 == task'[s]
           gone == client[s] = "gone"  chunks == job[s].chunks
<1>3. /\ rs \in Seq(Responses) /\ m \in Nat
      /\ \A k \in 1..m : <<s, k>> \in Calls /\ pipe[<<s, k>>] \in Seq({"part", "final", "error"})
      /\ at \notin {"reading", "ended"} => m \in 1..m
  BY CallFacts DEF RelayTyped, StreamsOK, PathTyped, CallsOK
<1>4. /\ Sofar(at, rs, m, chunks)
      /\ ~gone => \A k \in 1..m : Done(at, k, m) => Whole(rs, k, pipe[<<s, k>>])
  BY DEF AnswersOK
<1>5. client'[s] # "gone" => ~gone
  BY <1>1, ItsStream
<1>6. responses'[s] = rs \/ \E x \in Responses : responses'[s] = Append(rs, x)
  BY <1>1, ItsStream
<1>7. ~gone => \A k \in 1..m : Done(at, k, m) => Whole(responses'[s], k, pipe[<<s, k>>])
  BY <1>3, <1>4, <1>6, WholeGrows
\* What the step adds for the message being answered.
<1>8. \/ UNCHANGED <<task, cursor, job>>
      \/ at = "reading" /\ cursor'[s] = m + 1 /\ at2 \in {"picked", "reporting"}
         /\ (at2 = "picked" => job'[s].chunks = 0)
      \/ /\ cursor'[s] = m
         /\ Sofar(at2, responses'[s], m, job'[s].chunks)
         /\ \/ Done(at, m, m) \/ ~Done(at2, m, m)
            \/ client'[s] = "gone"
            \/ m \in 1..m /\ Whole(responses'[s], m, pipe[<<s, m>>])
  <2>1. ASSUME responses'[s] = Append(rs, [msg |-> m, kind |-> "error", n |-> 0])
        PROVE  Whole(responses'[s], m, pipe[<<s, m>>])
    <3>1. /\ Len(rs) + 1 \in DOMAIN responses'[s]
          /\ responses'[s][Len(rs) + 1] = [msg |-> m, kind |-> "error", n |-> 0]
      BY <1>3, <2>1
    <3> QED  BY <3>1 DEF Whole
  <2>2. ASSUME responses'[s] = Append(rs, [msg |-> m, kind |-> "chunk", n |-> chunks])
        PROVE  Sofar("relaying", responses'[s], m, chunks)
    <3>1. /\ Len(rs) + 1 \in DOMAIN responses'[s]
          /\ responses'[s][Len(rs) + 1] = [msg |-> m, kind |-> "chunk", n |-> chunks]
      BY <1>3, <2>2
    <3> QED  BY <3>1 DEF Sofar
  <2>3. ASSUME UpstreamEnds(s), at = "relaying"
        PROVE  m \in 1..m /\ Whole(responses'[s], m, pipe[<<s, m>>])
    <3>1. Whole(rs, m, pipe[<<s, m>>])
      BY <2>3, EndsWhole
    <3>2. m \in 1..m /\ pipe[<<s, m>>] \in Seq({"part", "final", "error"})
      BY <1>3, <2>3
    <3>3. rs \in Seq(Responses)
      BY <1>3
    <3> DEFINE p == pipe[<<s, m>>]
               rs2 == responses'[s]
    <3>4. /\ p \in Seq({"part", "final", "error"}) /\ Whole(rs, m, p)
          /\ rs2 = rs \/ \E x \in Responses : rs2 = Append(rs, x)
      BY <1>6, <3>1, <3>2
    <3> HIDE DEF p, rs, rs2
    <3>5. Whole(rs2, m, p)
      BY <3>3, <3>4, WholeGrows
    <3> QED  BY <3>2, <3>5 DEF p, rs2
  <2>4. ASSUME at2 \notin {"picked", "opening", "relaying"}
        PROVE  Sofar(at2, responses'[s], m, job'[s].chunks)
    BY <2>4 DEF Sofar
  <2>5. at \in {"picked", "opening"} => chunks = 0
    BY <1>4 DEF Sofar
  <2>6. ASSUME job'[s].chunks = 0 PROVE Sofar(at2, responses'[s], m, job'[s].chunks)
    BY <2>6 DEF Sofar
  <2>7. \A t \in {"picked", "opening", "markDown", "relaying", "sending", "reporting"} :
            ~Done(t, m, m)
    BY <1>3 DEF Done
  <2>8. \A t \in {"reading", "ended", "completing", "completed"} : Done(t, m, m)
    BY DEF Done
  <2> HIDE DEF rs, m, at, at2, gone, chunks
  <2>9. \/ UNCHANGED <<task, cursor, job>>
        \/ /\ at = "reading" /\ at2 \in {"picked", "reporting"}
           /\ cursor'[s] = m + 1
           /\ at2 = "picked" => job'[s].chunks = 0
        \/ /\ cursor'[s] = m
           /\ \/ at = "reading" /\ at2 = "ended"
              \/ at = "picked" /\ at2 = "opening" /\ job'[s].chunks = chunks
              \/ at = "opening" /\ at2 = "relaying" /\ job'[s].chunks = chunks
              \/ at \in {"opening", "markDown", "relaying"}
                 /\ at2 \in {"markDown", "reporting", "sending"}
              \/ at = "relaying" /\ UpstreamEnds(s) /\ at2 = "completing"
              \/ at = "sending" /\ client'[s] = "gone" /\ at2 = "completing"
              \/ /\ at = "sending" /\ at2 = "relaying" /\ job'[s].chunks = chunks
                 /\ responses'[s] = Append(rs, [msg |-> m, kind |-> "chunk", n |-> chunks])
              \/ /\ at = "reporting" /\ at2 \in {"completing", "reading", "ended"}
                 /\ \/ client'[s] = "gone"
                    \/ responses'[s] = Append(rs, [msg |-> m, kind |-> "error", n |-> 0])
              \/ at = "completing" /\ at2 = "completed"
              \/ at = "completed" /\ at2 \in {"reading", "ended"}
    BY <1>1, ItsStream DEF rs, m, at, at2, chunks
  <2>10. at = "reporting" => m \in 1..m
    BY <1>3
  <2> QED  BY <2>1, <2>2, <2>3, <2>4, <2>5, <2>6, <2>7, <2>8, <2>9, <2>10
<1>9. Sofar(at2, responses'[s], cursor'[s], job'[s].chunks)
  <2>1. CASE UNCHANGED <<task, cursor, job>>
    <3>1. at2 = at /\ cursor'[s] = m /\ job'[s].chunks = chunks
      BY <2>1
    <3>2. \A j \in DOMAIN rs : j \in DOMAIN responses'[s] /\ responses'[s][j] = rs[j]
      BY <1>3, <1>6
    <3> HIDE DEF rs, m, at, at2, chunks
    <3>3. Sofar(at, responses'[s], m, chunks)
      BY <1>4, <3>2 DEF Sofar
    <3> QED  BY <3>1, <3>3
  <2>2. CASE at2 \in {"picked", "reporting"} /\ (at2 = "picked" => job'[s].chunks = 0)
    BY <2>2 DEF Sofar
  <2> QED  BY <1>8, <2>1, <2>2
<1>10. ASSUME client'[s] # "gone", NEW k \in 1..cursor'[s], Done(at2, k, cursor'[s])
       PROVE  Whole(responses'[s], k, pipe'[<<s, k>>])
  <2>1. CASE UNCHANGED <<task, cursor, job>>
    BY <1>2, <1>5, <1>7, <1>10, <2>1
  <2>2. CASE at = "reading" /\ cursor'[s] = m + 1 /\ at2 \in {"picked", "reporting"}
    <3>1. k \in 1..m /\ Done(at, k, m)
      BY <1>3, <1>10, <2>2 DEF Done
    <3> QED  BY <1>2, <1>5, <1>7, <1>10, <3>1
  <2>3. CASE /\ cursor'[s] = m
             /\ \/ Done(at, m, m) \/ ~Done(at2, m, m)
                \/ Whole(responses'[s], m, pipe[<<s, m>>])
    <3>1. k \in 1..m
      BY <1>10, <2>3
    <3>2. CASE k = m
      <4>1. Done(at2, m, m)
        BY <1>10, <2>3, <3>2
      <4> QED  BY <1>2, <1>5, <1>7, <1>10, <2>3, <3>1, <3>2, <4>1
    <3>3. CASE k # m
      <4>1. Done(at, k, m)
        BY <1>3, <3>1, <3>3 DEF Done
      <4> QED  BY <1>2, <1>5, <1>7, <1>10, <3>1, <4>1
    <3> QED  BY <3>2, <3>3
  <2> QED  BY <1>8, <1>10, <2>1, <2>2, <2>3
<1>11. ASSUME NEW t \in Streams
       PROVE  /\ Sofar(task'[t], responses'[t], cursor'[t], job'[t].chunks)
              /\ client'[t] # "gone" =>
                   \A k \in 1..cursor'[t] :
                       Done(task'[t], k, cursor'[t]) => Whole(responses'[t], k, pipe'[<<t, k>>])
  <2>1. CASE t = s
    BY <1>9, <1>10, <2>1
  <2>2. CASE t # s
    <3>1. /\ client'[t] = client[t] /\ cursor'[t] = cursor[t] /\ task'[t] = task[t]
          /\ job'[t] = job[t] /\ responses'[t] = responses[t]
      BY <1>1, <2>2, OneStream
    <3> QED  BY <1>2, <3>1 DEF AnswersOK
  <2> QED  BY <2>1, <2>2
<1> QED  BY <1>11 DEF AnswersOK
-----------------------------------------------------------------------------
\* A step of a replica's task.
LEMMA ReplicaStep ==
    ASSUME RelayTyped, PathOK, NEW c \in Calls, ReplicaTask(c)
    PROVE  PathOK'
<1>1. /\ PathTyped /\ CallsOK /\ Fresh /\ PipesOK /\ AnswersOK
      /\ UNCHANGED allVars
      /\ serving[c].at \in {"reading", "decoding", "rejecting", "rejected"}
  BY DEF PathOK, ReplicaTask, ReplicaReads, ReplicaDecodes, ReplicaRejects, ReplicaStops
<1>2. /\ serving[c] \in Servings
      /\ pipe[c] \in Seq({"part", "final", "error"}) /\ Len(pipe[c]) \in Nat
      /\ DOMAIN serving = Calls /\ DOMAIN pipe = Calls
      /\ PipeOK(serving[c].at, pipe[c], Attached(c)) /\ MaxChunks \in Nat
  BY <1>1, RelayAssumption DEF PathTyped, PipesOK
<1>3. \A where : [serving EXCEPT ![c].at = where]
                   = [serving EXCEPT ![c] = [replica |-> serving[c].replica, at |-> where]]
  <2>1. \A where : [serving[c] EXCEPT !.at = where]
                      = [replica |-> serving[c].replica, at |-> where]
    BY <1>2 DEF Servings
  <2> QED  BY <2>1
<1>4. Attached(c)' = Attached(c) /\ \A d \in Calls : Attached(d)' = Attached(d)
  BY <1>1 DEF Attached, CallOf, allVars, relayVars, taskVars
<1>5. ASSUME NEW where \in {"decoding", "rejecting", "rejected", "ended"}, NEW p,
             ServingAt(c, where), pipe' = [pipe EXCEPT ![c] = p],
             p = pipe[c] \/ \E y \in {"part", "final", "error"} : p = Append(pipe[c], y),
             PipeOK(where, p, Attached(c))
      PROVE  PathOK'
  <2>1. serving' = [serving EXCEPT ![c] = [replica |-> serving[c].replica, at |-> where]]
    BY <1>3, <1>5 DEF ServingAt
  <2>2. p \in Seq({"part", "final", "error"})
    <3>1. ASSUME NEW y \in {"part", "final", "error"}
          PROVE  Append(pipe[c], y) \in Seq({"part", "final", "error"})
      BY <1>2
    <3> QED  BY <1>2, <1>5, <3>1
  <2>3. PathTyped'
    BY <1>1, <1>2, <1>5, <2>1, <2>2 DEF PathTyped, Servings
  <2>4. CallsOK'
    BY <1>1 DEF CallsOK, allVars, relayVars, clientVars, taskVars
  <2>5. Fresh'
    BY <1>1, <1>2, <1>5, <2>1 DEF Fresh, NotYet, allVars, relayVars, taskVars
  <2>6. PipesOK'
    <3>1. \A d \in Calls : PipeOK(serving'[d].at, pipe'[d], Attached(d))
      BY <1>1, <1>2, <1>5, <2>1 DEF PipesOK
    <3> QED  BY <1>4, <3>1 DEF PipesOK
  <2>7. AnswersOK'
    <3>1. ASSUME NEW s \in Streams, NEW k \in 1..cursor[s],
                 Whole(responses[s], k, pipe[<<s, k>>])
          PROVE  Whole(responses[s], k, pipe'[<<s, k>>])
      <4>1. <<s, k>> \in Calls /\ responses[s] \in Seq(Responses)
        BY <1>1, CallFacts DEF RelayTyped, StreamsOK
      <4>2. CASE <<s, k>> = c
        <5>1. pipe'[<<s, k>>] = p /\ pipe[<<s, k>>] = pipe[c]
          BY <1>2, <1>5, <4>2
        <5>2. Whole(responses[s], k, pipe[c])
          BY <3>1, <5>1
        <5>3. Whole(responses[s], k, p)
          BY <1>2, <1>5, <4>1, <5>2, WholeGrows
        <5> QED  BY <5>1, <5>3
      <4>3. CASE <<s, k>> # c
        BY <1>2, <1>5, <3>1, <4>1, <4>3
      <4> QED  BY <4>2, <4>3
    <3>2. UNCHANGED <<client, cursor, task, job, responses>>
      BY <1>1 DEF allVars, relayVars, clientVars, taskVars
    <3> QED  BY <1>1, <3>1, <3>2 DEF AnswersOK
  <2> QED  BY <2>3, <2>4, <2>5, <2>6, <2>7 DEF PathOK
<1>6. pipe = [pipe EXCEPT ![c] = pipe[c]]
      /\ serving = [serving EXCEPT ![c].at = serving[c].at]
  <2>1. /\ pipe \in [Calls -> Seq({"part", "final", "error"})]
        /\ serving \in [Calls -> Servings]
    BY <1>1 DEF PathTyped
  <2>2. serving[c] = [replica |-> serving[c].replica, at |-> serving[c].at]
    BY <1>2 DEF Servings
  <2>3. serving = [serving EXCEPT ![c] = [replica |-> serving[c].replica, at |-> serving[c].at]]
    BY <2>1, <2>2
  <2> QED  BY <1>3, <2>1, <2>3
<1>7. CASE ReplicaReads(c)
  <2>1. PICK where \in {"decoding", "rejecting"} : ServingAt(c, where)
    BY <1>7 DEF ReplicaReads
  <2>2. PipeOK(where, pipe[c], Attached(c))
    <3>1. pipe[c] = <<>>
      BY <1>2, <1>7 DEF PipeOK, ReplicaReads
    <3> QED  BY <1>2, <3>1, PathAssumption DEF PipeOK
  <2> QED  BY <1>5, <1>6, <1>7, <2>1, <2>2 DEF ReplicaReads
<1>8. CASE ReplicaDecodes(c)
  <2> DEFINE y == IF Len(pipe[c]) + 1 = MaxChunks THEN "final" ELSE "part"
  <2>1. /\ serving[c].at = "decoding" /\ ServingAt(c, "decoding")
        /\ pipe' = [pipe EXCEPT ![c] = Append(pipe[c], y)] /\ Len(pipe[c]) < MaxChunks
    BY <1>2, <1>6, <1>8 DEF ReplicaDecodes, ServingAt
  <2>2. /\ Len(Append(pipe[c], y)) = Len(pipe[c]) + 1
        /\ Append(pipe[c], y)[Len(pipe[c]) + 1] = y
        /\ y \in {"part", "final", "error"}
    BY <1>2
  <2>3. Len(pipe[c]) + 1 = MaxChunks => y = "final"
    OBVIOUS
  <2> HIDE DEF y
  <2>4. PipeOK("decoding", Append(pipe[c], y), Attached(c))
    BY <1>2, <2>1, <2>2, <2>3 DEF PipeOK, Ended
  <2> QED  BY <1>5, <2>1, <2>2, <2>4
<1>9. CASE ReplicaRejects(c)
  <2>1. ServingAt(c, "rejected") /\ pipe[c] = <<>>
    BY <1>2, <1>9 DEF ReplicaRejects, PipeOK
  <2>2. CASE pipe' = [pipe EXCEPT ![c] = Append(pipe[c], "error")]
    <3>1. PipeOK("rejected", Append(pipe[c], "error"), Attached(c))
      BY <2>1 DEF PipeOK, Ended
    <3> QED  BY <1>5, <2>1, <2>2, <3>1
  <2>3. CASE ~Attached(c) /\ UNCHANGED pipe
    <3>1. PipeOK("rejected", pipe[c], Attached(c))
      BY <2>3 DEF PipeOK
    <3> QED  BY <1>5, <1>6, <2>1, <2>3, <3>1
  <2> QED  BY <1>9, <2>2, <2>3 DEF ReplicaRejects
<1>10. CASE ReplicaStops(c)
  <2>1. PipeOK("ended", pipe[c], Attached(c))
    BY <1>2, <1>10, PathAssumption DEF ReplicaStops, PipeOK
  <2>2. ServingAt(c, "ended") /\ pipe' = [pipe EXCEPT ![c] = pipe[c]]
    BY <1>6, <1>10 DEF ReplicaStops
  <2> QED  BY <1>5, <2>1, <2>2
<1> QED  BY <1>7, <1>8, <1>9, <1>10 DEF ReplicaTask

\* A crash of the replica beside a step that leaves the streams alone.
LEMMA KillStep ==
    ASSUME RelayTyped, PathOK, NEW dead \in SUBSET Replicas, TasksKilled(dead),
           UNCHANGED <<relayVars, pipe>>
    PROVE  PathOK'
<1>1. PathTyped /\ CallsOK /\ Fresh /\ PipesOK /\ AnswersOK /\ NoReplica \notin dead
  BY ReplicaFacts DEF PathOK
<1>2. ASSUME NEW c \in Calls
      PROVE  /\ serving[c].replica \in Replicas \cup {NoReplica}
             /\ \/ serving'[c] = serving[c]
                \/ /\ serving'[c] = [replica |-> serving[c].replica, at |-> "killed"]
                   /\ serving[c].replica # NoReplica
  <2>1. serving[c] \in Servings
    BY <1>1 DEF PathTyped
  <2>2. [serving[c] EXCEPT !.at = "killed"] = [replica |-> serving[c].replica, at |-> "killed"]
    BY <2>1 DEF Servings
  <2> QED  BY <1>1, <2>1, <2>2 DEF TasksKilled, Servings
<1>3. PathTyped'
  <2>1. ASSUME NEW c \in Calls
        PROVE  serving'[c] \in Servings
    <3>1. serving[c] \in Servings
      BY <1>1 DEF PathTyped
    <3>2. [replica |-> serving[c].replica, at |-> "killed"] \in Servings
      BY <1>2 DEF Servings
    <3> QED  BY <1>2, <3>1, <3>2
  <2>2. DOMAIN serving' = Calls /\ serving' = [c \in Calls |-> serving'[c]]
    BY DEF TasksKilled
  <2>3. serving' \in [Calls -> Servings]
    BY <2>1, <2>2
  <2> QED  BY <1>1, <2>3 DEF PathTyped
<1>4. CallsOK' /\ AnswersOK'
  BY <1>1 DEF CallsOK, AnswersOK, relayVars, clientVars, taskVars
<1>5. Fresh'
  <2>1. ASSUME NEW s \in Streams, NEW k \in 1..MaxMessages, serving[<<s, k>>].replica = NoReplica
        PROVE  serving'[<<s, k>>] = serving[<<s, k>>]
    <3>1. <<s, k>> \in Calls
      BY DEF Calls
    <3> QED  BY <1>2, <2>1, <3>1
  <2>2. \A s \in Streams, k \in 1..MaxMessages :
            NotYet(serving[<<s, k>>], pipe[<<s, k>>]) => serving'[<<s, k>>] = serving[<<s, k>>]
    BY <2>1 DEF NotYet
  <2> QED  BY <1>1, <2>2 DEF Fresh, relayVars, taskVars
<1>6. PipesOK'
  <2>1. \A c \in Calls : Attached(c)' = Attached(c)
    BY DEF Attached, CallOf, relayVars, taskVars
  <2>2. \A c \in Calls : PipeOK(serving'[c].at, pipe[c], Attached(c))
    <3>1. \A p, a : PipeOK("killed", p, a)
      BY DEF PipeOK
    <3>2. \A c \in Calls : serving'[c].at = serving[c].at \/ serving'[c].at = "killed"
      <4>1. \A x : [replica |-> x, at |-> "killed"].at = "killed"
        OBVIOUS
      <4> QED  BY <1>2, <4>1
    <3> QED  BY <1>1, <3>1, <3>2 DEF PipesOK
  <2> QED  BY <2>1, <2>2 DEF PipesOK
<1> QED  BY <1>3, <1>4, <1>5, <1>6 DEF PathOK

LEMMA PathNextOK == RelayTyped /\ PathOK /\ [PathNext]_fullVars => PathOK'
<1> SUFFICES ASSUME RelayTyped, PathOK, [PathNext]_fullVars PROVE PathOK'  OBVIOUS
<1>1. CASE RouterSteps
  <2>1. {r \in Replicas : ~up'[r]} \in SUBSET Replicas
    OBVIOUS
  <2> QED  BY <1>1, <2>1, KillStep DEF RouterSteps
<1>2. ASSUME NEW s \in Streams, StreamStep(s) PROVE PathOK'
  BY <1>2, CallsStep, FreshStep, PipesStep, AnswersStep DEF PathOK
<1>3. ASSUME NEW r \in Replicas, RestartsUnseen(r) PROVE PathOK'
  <2>1. {r} \in SUBSET Replicas
    OBVIOUS
  <2> QED  BY <1>3, <2>1, KillStep DEF RestartsUnseen, allVars
<1>4. CASE UNCHANGED fullVars
  <2>1. PathTyped' /\ CallsOK' /\ Fresh' /\ AnswersOK'
    BY <1>4 DEF PathOK, PathTyped, CallsOK, Fresh, AnswersOK, fullVars, pathVars, allVars,
                relayVars, clientVars, taskVars
  <2>2. PipesOK'
    BY <1>4 DEF PathOK, PipesOK, Attached, CallOf, fullVars, pathVars, allVars, relayVars, taskVars
  <2> QED  BY <2>1, <2>2 DEF PathOK
<1> QED  BY <1>1, <1>2, <1>3, <1>4, ReplicaStep DEF PathNext, StreamStep

\* No answer is cut short in silence: when the relay is done with a message, the
\* client has been sent the last chunk of its answer or an error, whatever the
\* replica, its task and the connection did (server.rs:350-376).
THEOREM NothingCutShort == PathSpec => []AnswersWhole
<1>1. PathInit => RelayTyped
  BY RelayTypeInit DEF PathInit
<1>2. RelayTyped /\ [PathNext]_fullVars => RelayTyped'
  BY PathSteps, RelayTypeNext
<1>3. RelayTyped /\ PathOK => AnswersWhole
  <2> SUFFICES ASSUME RelayTyped, PathOK, NEW s \in Streams, client[s] # "gone",
                      NEW k \in 1..cursor[s], Dealt(s, k)
               PROVE  \E j \in DOMAIN responses[s] :
                        /\ responses[s][j].msg = k
                        /\ \/ responses[s][j].kind = "error"
                           \/ pipe[<<s, k>>][responses[s][j].n] \in {"final", "error"}
    BY DEF AnswersWhole
  <2>1. Whole(responses[s], k, pipe[<<s, k>>])
    BY DEF PathOK, AnswersOK, Dealt, Done
  <2> QED  BY <2>1 DEF Whole
<1> QED  BY <1>1, <1>2, <1>3, PathInitOK, PathNextOK, PTL DEF PathSpec
===============================================================================
