------------------------------ MODULE StreamPath ------------------------------
(***************************************************************************)
(* StreamRelay with the replica at its other end: model_stream_infer of    *)
(* crates/mock-triton/src/service.rs.  For each call the relay makes, the  *)
(* replica spawns a task that reads the call's message and sends the       *)
(* chunks of the answer into a bounded channel of its own.  What           *)
(* StreamRelay lets an upstream stream do at any time is done here when    *)
(* the replica's task has done its part.                                   *)
(*                                                                         *)
(* MaxChunks is the replica's decode_chunks (4 by default) and ChannelSize *)
(* stands for its channel (16) with the transport's buffers.  The prefill  *)
(* and the cache it looks up are the subject of CacheMirror and Bench.     *)
(***************************************************************************)
EXTENDS StreamRelay

\* With no decode round at all an answer has no last chunk, and no counts.
ASSUME PathAssumption == MaxChunks > 0

VARIABLES
    serving,    \* per call: the replica and where its task is
    pipe        \* per call: everything the task has sent; job.chunks of it are taken

pathVars == <<serving, pipe>>
fullVars == <<allVars, pathVars>>

\* A call is a message of a stream: the relay opens one upstream per message.
Calls == Streams \X (1..MaxMessages)

CallOf(s) == <<s, cursor[s]>>

PathInit ==
    /\ RelayInit
    /\ serving = [c \in Calls |-> [replica |-> NoReplica, at |-> "none"]]
    /\ pipe = [c \in Calls |-> <<>>]

\* The relay still reads the answer; otherwise it has dropped its end, and the
\* receiving end of the replica's channel is dropped with it.
Attached(c) == CallOf(c[1]) = c /\ task[c[1]] \in {"relaying", "sending"}

PipeHasRoom(c) == Attached(c) /\ Len(pipe[c]) - job[c[1]].chunks < ChannelSize

ServingAt(c, where) == serving' = [serving EXCEPT ![c].at = where]
-----------------------------------------------------------------------------
\* inbound.next() yields the message.  The replica takes the text of the first
\* tensor, not of the one named text_input, so it may find none in what the
\* relay could route.
ReplicaReads(c) ==
    /\ serving[c].at = "reading"
    /\ \E where \in {"decoding", "rejecting"} : ServingAt(c, where)
    /\ UNCHANGED <<allVars, pipe>>

\* One round of the decode loop; the last chunk carries the counts.
ReplicaDecodes(c) ==
    /\ serving[c].at = "decoding" /\ Len(pipe[c]) < MaxChunks /\ PipeHasRoom(c)
    /\ pipe' = [pipe EXCEPT ![c] = Append(@, IF Len(@) + 1 = MaxChunks THEN "final" ELSE "part")]
    /\ UNCHANGED <<allVars, serving>>

\* No text, or it does not tokenize: an error chunk, if anyone still listens.
ReplicaRejects(c) ==
    /\ serving[c].at = "rejecting"
    /\ \/ PipeHasRoom(c) /\ pipe' = [pipe EXCEPT ![c] = Append(@, "error")]
       \/ ~Attached(c) /\ UNCHANGED pipe
    /\ ServingAt(c, "rejected")
    /\ UNCHANGED allVars

\* Mutants of ReplicaStops: a second message is waited for; a send into the
\* channel of a relay that hung up waits.
ReplicaWaitsForMore(c) ==
    /\ serving[c].at \in {"reading", "decoding", "rejected"} /\ ~Attached(c)
    /\ ServingAt(c, "ended")
    /\ UNCHANGED <<allVars, pipe>>
ReplicaStopsWhenDone(c) ==
    /\ \/ serving[c].at = "rejected"
       \/ serving[c].at = "decoding" /\ Len(pipe[c]) = MaxChunks
    /\ ServingAt(c, "ended")
    /\ UNCHANGED <<allVars, pipe>>

\* The task returns, which ends its channel: after the answer, there being no
\* second message; or because a receive or a send fails, the relay having hung up.
ReplicaStops(c) ==
    /\ \/ serving[c].at = "rejected"
       \/ serving[c].at = "decoding" /\ Len(pipe[c]) = MaxChunks
       \/ serving[c].at \in {"reading", "decoding"} /\ ~Attached(c)
    /\ ServingAt(c, "ended")
    /\ UNCHANGED <<allVars, pipe>>

ReplicaTask(c) ==
    ReplicaReads(c) \/ ReplicaDecodes(c) \/ ReplicaRejects(c) \/ ReplicaStops(c)
-----------------------------------------------------------------------------
Spawned(s) ==
    serving' = [serving EXCEPT ![CallOf(s)] = [replica |-> job[s].replica, at |-> "reading"]]

\* The call is answered, or fails; a call that fails may yet have reached the
\* replica, whose task then runs for nobody.
CallResolves(s) ==
    /\ \/ UpstreamOpens(s) /\ Spawned(s)
       \/ \E code \in UpstreamCodes :
            /\ UpstreamRefuses(s, code)
            /\ (up[job[s].replica] /\ Spawned(s)) \/ UNCHANGED serving
    /\ UNCHANGED pipe

\* What the replica has sent arrives, and the end of its channel after it.
AnswerArrives(s) ==
    /\ \/ UpstreamSpeaks(s) /\ job[s].chunks < Len(pipe[CallOf(s)])
       \/ /\ UpstreamEnds(s)
          /\ job[s].chunks = Len(pipe[CallOf(s)]) /\ serving[CallOf(s)].at = "ended"
    /\ UNCHANGED pathVars

ConnectionBreaks(s) == UpstreamBreaks(s) /\ UNCHANGED pathVars

\* A crash takes the replica's tasks with it.
TasksKilled(dead) ==
    serving' = [c \in Calls |->
        IF serving[c].replica \in dead /\ serving[c].at # "ended"
        THEN [serving[c] EXCEPT !.at = "killed"] ELSE serving[c]]

\* The replica crashes and is back before the next probe or call.
RestartsUnseen(r) ==
    /\ TasksKilled({r}) /\ serving' # serving
    /\ UNCHANGED <<allVars, pipe>>

\* Steps of the router and of the environment.
RouterSteps ==
    /\ Next /\ UNCHANGED <<relayVars, pipe>>
    /\ TasksKilled({r \in Replicas : ~up'[r]})

PathNext ==
    \/ RouterSteps
    \/ \E s \in Streams :
        \/ (Client(s) \/ Task(s)) /\ UNCHANGED pathVars
        \/ CallResolves(s) \/ AnswerArrives(s) \/ ConnectionBreaks(s)
    \/ \E c \in Calls : ReplicaTask(c)
    \/ \E r \in Replicas : RestartsUnseen(r)

\* A relay task that can run is run, as in StreamRelay; but of the upstream only
\* this: the replica's tasks run, a call is answered or times out
\* (main.rs:98-99), what was sent arrives, and a connection to a replica that
\* died is found broken (main.rs:100).
PathFairness ==
    /\ \A s \in Streams :
        /\ WF_fullVars(Task(s) /\ UNCHANGED pathVars)
        /\ WF_fullVars(CallResolves(s)) /\ WF_fullVars(AnswerArrives(s))
        /\ WF_fullVars(/\ ConnectionBreaks(s)
                       /\ ~up[job[s].replica] \/ serving[CallOf(s)].at = "killed")
    /\ \A c \in Calls : WF_fullVars(ReplicaTask(c))

PathSpec == PathInit /\ [][PathNext]_fullVars /\ PathFairness
-----------------------------------------------------------------------------
\* With this replica at its end, the relay is the one of StreamRelay, and what
\* is assumed there of an upstream stream, that it goes on, is a fact: the
\* replica's task neither hangs nor waits for a message that never comes
\* (service.rs:238-302).
ImplementsRelay == RelayFairSpec

Dealt(s, k) == k < cursor[s] \/ (k = cursor[s] /\ task[s] \in {"reading", "ended"})

\* No answer is cut short in silence: a message the relay is done with has been
\* answered to the last chunk, or an error has been sent to the client, whether
\* the replica rejected it, died, or the connection broke (server.rs:350-376).
AnswersWhole ==
    \A s \in Streams : client[s] # "gone" =>
        \A k \in 1..cursor[s] : Dealt(s, k) =>
            \E j \in DOMAIN responses[s] :
                /\ responses[s][j].msg = k
                /\ \/ responses[s][j].kind = "error"
                   \/ pipe[<<s, k>>][responses[s][j].n] \in {"final", "error"}

\* A replica does not go on serving a relay that has hung up: again and again
\* there is no such task left, each having found its channel closed and returned
\* (service.rs:291-300).
AbandonedTasksEnd ==
    []<>\A c \in Calls : serving[c].at \in {"none", "ended", "killed"} \/ Attached(c)
===============================================================================
