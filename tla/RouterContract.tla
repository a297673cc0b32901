---------------------------- MODULE RouterContract ----------------------------
(***************************************************************************)
(* What the router promises about a unary request, to its client and to    *)
(* the replicas: it is forwarded while some replica can take it, at most   *)
(* twice, the second time only because the first call returned a status    *)
(* that is taken for a transport failure; its client gets one answer: the  *)
(* replica's own, "Unavailable" for two such failures, or a refusal that   *)
(* is true when it is made.  Which replica, and all bookkeeping, are left  *)
(* open.  It is what the code promises; the design document differs        *)
(* (design.md:84-85): other errors too are to be retried, and the status   *)
(* of the second failure is to be passed on.                               *)
(***************************************************************************)
CONSTANTS
    Requests,
    UpstreamCodes   \* what a call to a replica may return

VARIABLES
    phase,      \* "idle", "first" call, "between" calls, "second" call, "done" or "gone"
    heard,      \* what the current call has returned
    answer,     \* what the client was answered
    routing     \* "open", "saturated" (all healthy replicas are full) or "down"

contractVars == <<phase, heard, answer, routing>>

None == "none"

\* The statuses that are taken for a failure of the transport, whatever caused
\* them: the replica may have done the work all the same.
Retryable == {"Unavailable", "Unknown", "Internal", "Cancelled"}

Routings == {"open", "saturated", "down"}

Init ==
    /\ phase = [q \in Requests |-> "idle"]
    /\ heard = [q \in Requests |-> None]
    /\ answer = [q \in Requests |-> None]
    /\ routing \in Routings
-----------------------------------------------------------------------------
Becomes(q, where, code) ==
    /\ phase' = [phase EXCEPT ![q] = where]
    /\ heard' = [heard EXCEPT ![q] = code]

Answers(q, status) ==
    /\ Becomes(q, "done", None)
    /\ answer' = [answer EXCEPT ![q] = status]

Reject(q) == phase[q] = "idle" /\ Answers(q, "InvalidArgument")

Refuse(q) ==
    /\ phase[q] \in {"idle", "between"}
    /\ \/ routing = "down" /\ Answers(q, "Unavailable")
       \/ routing = "saturated" /\ Answers(q, "ResourceExhausted")

Forward(q) ==
    /\ routing = "open"
    /\ \/ phase[q] = "idle" /\ Becomes(q, "first", None)
       \/ phase[q] = "between" /\ Becomes(q, "second", None)
    /\ UNCHANGED answer

Hear(q, code) ==
    /\ phase[q] \in {"first", "second"} /\ heard[q] = None
    /\ Becomes(q, phase[q], code)
    /\ UNCHANGED answer

PassOn(q) ==
    /\ phase[q] \in {"first", "second"} /\ heard[q] \notin Retryable \cup {None}
    /\ Answers(q, heard[q])

TryAgain(q) ==
    /\ phase[q] = "first" /\ heard[q] \in Retryable
    /\ Becomes(q, "between", None)
    /\ UNCHANGED answer

GiveUp(q) ==
    /\ phase[q] = "second" /\ heard[q] \in Retryable
    /\ Answers(q, "Unavailable")

Abandon(q) ==
    /\ phase[q] \in {"first", "second"} /\ heard[q] = None
    /\ Becomes(q, "gone", None)
    /\ UNCHANGED answer

Serve(q) ==
    \/ Reject(q) \/ Refuse(q) \/ Forward(q) \/ PassOn(q) \/ TryAgain(q) \/ GiveUp(q) \/ Abandon(q)
    \/ \E code \in UpstreamCodes : Hear(q, code)

\* Replicas come and go as they like.
Next ==
    /\ routing' \in Routings
    /\ (\E q \in Requests : Serve(q)) \/ UNCHANGED <<phase, heard, answer>>

Spec == Init /\ [][Next]_contractVars
=============================================================================
