---------------------------- MODULE RouterTimeouts ----------------------------
(***************************************************************************)
(* Router with the cause of a failed call told apart from its status: the  *)
(* calls that the endpoint's timeout has ended (main.rs:91-98).  The       *)
(* comments on the router expect the status DeadlineExceeded; which one it *)
(* is, the gRPC library decides, so either of the two it could be may come.*)
(* The router sees the status alone.                                       *)
(***************************************************************************)
EXTENDS Router

VARIABLE expired    \* requests whose last call timed out

timeoutVars == <<vars, expired>>

TimeoutInit == Init /\ expired = {}

\* The timeout ends the call, whatever the replica is doing.
Expires(q) ==
    /\ \E code \in {"DeadlineExceeded", "Cancelled"} : UpstreamReturns(q, code)
    /\ expired' = expired \cup {q}

\* Everything else; a second call has not timed out yet.
TimeoutNext ==
    \/ \E q \in Requests : Expires(q)
    \/ Next /\ expired' = {q \in expired : pc'[q] # "picked"}

TimeoutSpec == TimeoutInit /\ [][TimeoutNext]_timeoutVars /\ Fairness
-----------------------------------------------------------------------------
\* A timed-out request is "surfaced to the caller as-is rather than triggering a
\* retry" (server.rs:494-496, main.rs:36-41), and its replica is out of routing
\* by then: "connect failure or deadline -> mark unhealthy" (design.md:84).
TimeoutsAsDocumented ==
    [][\A q \in expired :
        /\ pc'[q] # "retry"
        /\ pc[q] # "done" /\ pc'[q] = "done" => ~healthy'[replica[q]]]_timeoutVars
=============================================================================
