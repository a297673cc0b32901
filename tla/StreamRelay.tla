------------------------------ MODULE StreamRelay ------------------------------
(***************************************************************************)
(* model_stream_infer (crates/router/src/server.rs): one detached task per *)
(* client stream, which serves the messages of the stream one after the    *)
(* other and relays each answer through a bounded channel.  The tasks run  *)
(* beside the unary handlers and the prober of Router, on the same         *)
(* scheduler and metrics.                                                  *)
(*                                                                         *)
(* A step is again one critical section, one write of the metrics, one     *)
(* send into the channel, or one event of the client or the replica.       *)
(***************************************************************************)
EXTENDS Router

CONSTANTS
    Streams,        \* client streams
    MaxMessages,    \* bound on the messages of a stream
    MaxChunks,      \* bound on the chunks a replica answers a message with
    ChannelSize     \* 16 in the code

ASSUME RelayAssumption ==
    /\ IsFiniteSet(Streams)
    /\ MaxMessages \in Nat /\ MaxChunks \in Nat /\ ChannelSize \in Nat \ {0}

VARIABLES
    client,     \* "open", "halfClosed" (sends no more, still reads) or "gone"
    sent,       \* the messages the client has sent
    cursor,     \* how many of them the task has read
    task,       \* where the task is
    job,        \* the task's locals for the current message
    then,       \* where it goes when the current message is dealt with
    responses,  \* everything sent into the channel ...
    taken       \* ... and how much of it the client has received

clientVars == <<client, sent, taken>>
taskVars == <<cursor, task, job, then, responses>>
relayVars == <<clientVars, taskVars>>
allVars == <<vars, relayVars>>

\* What a client may send: a prompt, a request without a usable tensor, or
\* bytes that do not decode.
Messages ==
    [kind : {"prompt"}, hashes : Chains] \cup [kind : {"bad", "garbled"}, hashes : {<<>>}]

NoJob == [replica |-> NoReplica, hashes |-> <<>>, matched |-> 0, shown |-> 0, chunks |-> 0]

RelayInit ==
    /\ Init
    /\ client = [s \in Streams |-> "open"]
    /\ sent = [s \in Streams |-> <<>>]
    /\ cursor = [s \in Streams |-> 0]
    /\ task = [s \in Streams |-> "reading"]
    /\ job = [s \in Streams |-> NoJob]
    /\ then = [s \in Streams |-> "reading"]
    /\ responses = [s \in Streams |-> <<>>]
    /\ taken = [s \in Streams |-> 0]
-----------------------------------------------------------------------------
\* The client.  Nothing makes it send, read or leave.
Sends(s) ==
    /\ client[s] = "open" /\ Len(sent[s]) < MaxMessages
    /\ \E m \in Messages : sent' = [sent EXCEPT ![s] = Append(@, m)]
    /\ UNCHANGED <<vars, taskVars, client, taken>>

HalfCloses(s) ==
    /\ client[s] = "open"
    /\ client' = [client EXCEPT ![s] = "halfClosed"]
    /\ UNCHANGED <<vars, taskVars, sent, taken>>

Takes(s) ==
    /\ client[s] # "gone" /\ taken[s] < Len(responses[s])
    /\ taken' = [taken EXCEPT ![s] = @ + 1]
    /\ UNCHANGED <<vars, taskVars, client, sent>>

\* The stream is reset: both of its halves end, and the server drops the
\* receiving end of the channel.
Leaves(s) ==
    /\ MayCancel
    /\ client[s] # "gone"
    /\ client' = [client EXCEPT ![s] = "gone"]
    /\ UNCHANGED <<vars, taskVars, sent, taken>>
-----------------------------------------------------------------------------
Goes(s, where) == task' = [task EXCEPT ![s] = where]

NextMessage(s) == sent[s][cursor[s] + 1]

\* client_rx.next() yields a message.  Its prompt is routed before the next
\* await; what cannot be routed is reported instead.
ReadsMessage(s) ==
    /\ task[s] = "reading" /\ cursor[s] < Len(sent[s])
    /\ cursor' = [cursor EXCEPT ![s] = @ + 1]
    /\ LET m == NextMessage(s)
       IN  \/ /\ m.kind = "prompt"
              /\ \E r \in Choice(m.hashes) :
                  /\ Pick(m.hashes, r)
                  /\ job' = [job EXCEPT ![s] = [replica |-> r, hashes |-> m.hashes,
                                                matched |-> MatchedBlocks(r, m.hashes),
                                                shown |-> inflight'[r], chunks |-> 0]]
              /\ Goes(s, "picked") /\ UNCHANGED then
           \/ /\ m.kind = "prompt"
              /\ PickFails
              /\ Goes(s, "reporting") /\ UNCHANGED <<job, then>>
           \/ /\ m.kind = "bad"
              /\ Goes(s, "reporting") /\ UNCHANGED <<schedVars, job, then>>
           \/ /\ m.kind = "garbled"
              /\ Goes(s, "reporting")
              /\ then' = [then EXCEPT ![s] = "ended"]
              /\ UNCHANGED <<schedVars, job>>
    /\ UNCHANGED <<handlerVars, metricVars, proberVars, envVars, clientVars, responses>>

\* client_rx.next() yields no message: the client is done, or has left (then
\* the error it yields cannot be reported to anybody).
ReadsEnd(s) ==
    /\ task[s] = "reading"
    /\ \/ client[s] = "halfClosed" /\ cursor[s] = Len(sent[s])
       \/ client[s] = "gone"
    /\ Goes(s, "ended")
    /\ UNCHANGED <<vars, clientVars, cursor, job, then, responses>>

\* The gauge of pick_replica, and record_served.
PublishesPick(s) ==
    /\ task[s] = "picked"
    /\ gauge' = [gauge EXCEPT ![job[s].replica] = job[s].shown]
    /\ served' = [requests |-> served.requests + 1,
                  matched |-> served.matched + job[s].matched,
                  prompt |-> served.prompt + Len(job[s].hashes)]
    /\ Goes(s, "opening")
    /\ UNCHANGED <<schedVars, handlerVars, proberVars, envVars, clientVars, cursor, job, then,
                   responses>>

UpstreamOpens(s) ==
    /\ task[s] = "opening" /\ up[job[s].replica]
    /\ Goes(s, "relaying")
    /\ UNCHANGED <<vars, clientVars, cursor, job, then, responses>>

\* The upstream stream cannot be opened.
UpstreamRefuses(s, code) ==
    /\ task[s] = "opening" /\ code # "Ok"
    /\ Goes(s, IF IsTransportFailure(code) THEN "markDown" ELSE "reporting")
    /\ UNCHANGED <<vars, clientVars, cursor, job, then, responses>>

MarksDown(s) ==
    /\ task[s] = "markDown"
    /\ MarkUnhealthy(job[s].replica)
    /\ Goes(s, "reporting")
    /\ UNCHANGED <<handlerVars, metricVars, proberVars, envVars, clientVars, cursor, job, then,
                   responses>>

UpstreamSpeaks(s) ==
    /\ task[s] = "relaying" /\ up[job[s].replica] /\ job[s].chunks < MaxChunks
    /\ job' = [job EXCEPT ![s].chunks = @ + 1]
    /\ Goes(s, "sending")
    /\ UNCHANGED <<vars, clientVars, cursor, then, responses>>

UpstreamEnds(s) ==
    /\ task[s] = "relaying" /\ up[job[s].replica]
    /\ Goes(s, "completing")
    /\ UNCHANGED <<vars, clientVars, cursor, job, then, responses>>

\* Mutants of UpstreamBreaks: the break is taken for the end; the request is
\* sent again.
UpstreamBreakUnreported(s) ==
    /\ task[s] = "relaying"
    /\ Goes(s, "completing")
    /\ UNCHANGED <<vars, clientVars, cursor, job, then, responses>>
UpstreamBreakRetried(s) ==
    /\ task[s] = "relaying"
    /\ job' = [job EXCEPT ![s].chunks = 0]
    /\ Goes(s, "opening")
    /\ UNCHANGED <<vars, clientVars, cursor, then, responses>>

\* A failure in mid-stream is reported, whatever its code; no replay, and the
\* replica stays healthy.
UpstreamBreaks(s) ==
    /\ task[s] = "relaying"
    /\ Goes(s, "reporting")
    /\ UNCHANGED <<vars, clientVars, cursor, job, then, responses>>

\* Mutant of HasRoom: one response too many.
HasRoomAtLimit(s) == client[s] # "gone" /\ Len(responses[s]) - taken[s] <= ChannelSize

\* tx.send(..).await: it waits for room in the channel, and fails once the
\* client is gone.
HasRoom(s) == client[s] # "gone" /\ Len(responses[s]) - taken[s] < ChannelSize

SendsChunk(s) ==
    /\ task[s] = "sending" /\ HasRoom(s)
    /\ responses' = [responses EXCEPT
                        ![s] = Append(@, [msg |-> cursor[s], kind |-> "chunk", n |-> job[s].chunks])]
    /\ Goes(s, "relaying")
    /\ UNCHANGED <<vars, clientVars, cursor, job, then>>

\* Mutants of SendFails: the early return skips the completion; the failure is
\* not noticed.
SendFailsReturns(s) ==
    /\ task[s] = "sending" /\ client[s] = "gone"
    /\ Goes(s, "ended")
    /\ job' = [job EXCEPT ![s] = NoJob]
    /\ UNCHANGED <<vars, clientVars, cursor, then, responses>>
SendFailsUnnoticed(s) == task[s] = "sending" /\ HasRoom(s) /\ UNCHANGED allVars

\* The client is gone: complete, and return.
SendFails(s) ==
    /\ task[s] = "sending" /\ client[s] = "gone"
    /\ Goes(s, "completing")
    /\ then' = [then EXCEPT ![s] = "ended"]
    /\ UNCHANGED <<vars, clientVars, cursor, job, responses>>

\* A report is sent, or lost if the client is gone (let _ = tx.send); the
\* replica, if there is one, is completed after it.
Reports(s) ==
    /\ task[s] = "reporting"
    /\ \/ /\ HasRoom(s)
          /\ responses' = [responses EXCEPT
                              ![s] = Append(@, [msg |-> cursor[s], kind |-> "error", n |-> 0])]
       \/ client[s] = "gone" /\ UNCHANGED responses
    /\ Goes(s, IF job[s].replica # NoReplica THEN "completing" ELSE then[s])
    /\ UNCHANGED <<vars, clientVars, cursor, job, then>>

CompletesJob(s) ==
    /\ task[s] = "completing"
    /\ Complete(job[s].replica)
    /\ job' = [job EXCEPT ![s].shown = inflight'[job[s].replica]]
    /\ Goes(s, "completed")
    /\ UNCHANGED <<handlerVars, metricVars, proberVars, envVars, clientVars, cursor, then, responses>>

PublishesComplete(s) ==
    /\ task[s] = "completed"
    /\ gauge' = [gauge EXCEPT ![job[s].replica] = job[s].shown]
    /\ job' = [job EXCEPT ![s] = NoJob]
    /\ Goes(s, then[s])
    /\ UNCHANGED <<schedVars, handlerVars, served, proberVars, envVars, clientVars, cursor, then,
                   responses>>
-----------------------------------------------------------------------------
Client(s) == Sends(s) \/ HalfCloses(s) \/ Takes(s) \/ Leaves(s)

Upstream(s) ==
    \/ UpstreamOpens(s) \/ UpstreamSpeaks(s) \/ UpstreamEnds(s) \/ UpstreamBreaks(s)
    \/ \E code \in UpstreamCodes : UpstreamRefuses(s, code)

Task(s) ==
    \/ ReadsMessage(s) \/ ReadsEnd(s) \/ PublishesPick(s) \/ MarksDown(s)
    \/ SendsChunk(s) \/ SendFails(s) \/ Reports(s) \/ CompletesJob(s) \/ PublishesComplete(s)

RelayNext ==
    \/ Next /\ UNCHANGED relayVars
    \/ \E s \in Streams : Client(s) \/ Upstream(s) \/ Task(s)

RelaySpec == RelayInit /\ [][RelayNext]_allVars

\* A task that can run is run, and an upstream stream goes on (StreamPath shows
\* that it does).  Nothing is assumed of clients and prober.
RelayFairness == \A s \in Streams : WF_allVars(Task(s)) /\ WF_allVars(Upstream(s))

RelayFairSpec == RelaySpec /\ RelayFairness
-----------------------------------------------------------------------------
\* Streams that have picked r and not yet completed.
StreamHolders(r) ==
    {s \in Streams : job[s].replica = r /\ task[s] # "completed"}

Jobs ==
    [replica : Replicas \cup {NoReplica}, hashes : Chains \cup {<<>>},
     matched : Nat, shown : Nat, chunks : 0..MaxChunks]

Responses == [msg : Nat, kind : {"chunk", "error"}, n : Nat]

\* The clients and the tasks: a task holds a replica exactly while it uses
\* one, and a channel never holds more than its size.
RelayTypeOK ==
    /\ TypeOK
    /\ client \in [Streams -> {"open", "halfClosed", "gone"}]
    /\ sent \in [Streams -> Seq(Messages)]
    /\ cursor \in [Streams -> Nat]
    /\ task \in [Streams -> {"reading", "picked", "opening", "markDown", "relaying", "sending",
                             "reporting", "completing", "completed", "ended"}]
    /\ job \in [Streams -> Jobs]
    /\ then \in [Streams -> {"reading", "ended"}]
    /\ responses \in [Streams -> Seq(Responses)]
    /\ taken \in [Streams -> Nat]
    /\ \A s \in Streams :
        /\ cursor[s] <= Len(sent[s])
        /\ taken[s] <= Len(responses[s]) /\ Len(responses[s]) - taken[s] <= ChannelSize
        /\ task[s] \in {"reading", "ended"} => job[s].replica = NoReplica
        /\ task[s] \notin {"reading", "ended", "reporting"} => job[s].replica # NoReplica

\* With streams beside the unary handlers, in-flight load is still accounted
\* for: every early exit of the task completes its pick (server.rs:354-388),
\* and a completion after mark_unhealthy (384) creates no load.
RelayLoadAccounted ==
    \A r \in Replicas :
        inflight[r] <= Cardinality(Holders(r) \cup Abandoned(r)) + Cardinality(StreamHolders(r))

\* The client gets the answers in the order of its messages, the chunks of an
\* answer in order and without a gap, and nothing after the error that ends it
\* ("no replay of already-sent chunks", server.rs:361-363).
RelayInOrder ==
    \A s \in Streams : \A j \in DOMAIN responses[s] :
        LET this == responses[s][j]
            Earlier(i) == responses[s][i]
        IN  /\ \A i \in 1..(j - 1) :
                /\ Earlier(i).msg <= this.msg
                /\ Earlier(i).kind = "error" => Earlier(i).msg < this.msg
            /\ this.kind = "chunk" =>
                this.n = Cardinality({i \in 1..j : Earlier(i).msg = this.msg})

\* A stream comes to its end once its client has sent everything and keeps
\* reading, or has left: every message is dealt with and the slot released,
\* whatever replicas and prober do, also when nobody drains the channel any
\* more (server.rs:354-357).
StreamEnds ==
    \A s \in Streams : WF_allVars(Takes(s)) => (client[s] # "open" ~> task[s] = "ended")
===============================================================================
