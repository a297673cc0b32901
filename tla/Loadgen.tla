------------------------------- MODULE Loadgen -------------------------------
(***************************************************************************)
(* The load generator (crates/loadgen): it turns a ShareGPT file into      *)
(* conversations of growing prompts and replays them, one task per         *)
(* conversation, under a semaphore; main joins the tasks in order and      *)
(* reports.  Bench puts the router and its replicas at the other end.      *)
(*                                                                         *)
(* A text is the sequence of messages it was put together from.            *)
(***************************************************************************)
EXTENDS Integers, Sequences, FiniteSets, Functions

CONSTANTS
    Traces,             \* files: sequences of conversations as they were recorded
    MaxConversations,   \* --conversations
    Concurrency         \* --concurrency

ASSUME LoadgenAssumption ==
    /\ MaxConversations \in Nat /\ Concurrency \in Nat \ {0}
    /\ \A trace \in Traces : DOMAIN trace = 1..Len(trace) /\ Len(trace) \in Nat
    /\ \A trace \in Traces : \A k \in DOMAIN trace :
           DOMAIN trace[k] = 1..Len(trace[k]) /\ Len(trace[k]) \in Nat

VARIABLES
    convs,      \* the conversations loaded: per conversation, its prompts
    pc,         \* per task: "queued" for a permit, "asking" or "done"
    turn,       \* per task: prompts sent
    results,    \* per task: for each prompt that was answered, the blocks reported
    failed,     \* per task: its conversation is abandoned
    permits,
    joined,     \* tasks that main has awaited
    all,        \* the results main has collected
    failures    \* failed_requests; abandoned_conversations is always the same

taskVars == <<pc, turn, results, failed>>
mainVars == <<joined, all, failures>>
loadVars == <<convs, taskVars, permits, mainVars>>

Tasks == DOMAIN convs
-----------------------------------------------------------------------------
\* The history grows with every message; each human one makes it a prompt.
TurnsOf(recorded) ==
    LET Turns[k \in 0..Len(recorded)] ==
            IF k = 0 THEN <<>>
            ELSE IF recorded[k].from = "human" THEN Append(Turns[k - 1], SubSeq(recorded, 1, k))
            ELSE Turns[k - 1]
    IN  Turns[Len(recorded)]

\* Conversations without a human message are skipped.  The limit is looked at
\* after each one, so that a limit of zero still lets the first through.
LoadShareGpt(trace) ==
    LET Loaded[k \in 0..Len(trace)] ==
            IF k = 0 THEN <<>>
            ELSE LET out == Loaded[k - 1]
                 IN  IF (k > 1 /\ Len(out) >= MaxConversations) \/ TurnsOf(trace[k]) = <<>>
                     THEN out ELSE Append(out, TurnsOf(trace[k]))
    IN  Loaded[Len(trace)]

LoadInit ==
    /\ \E trace \in Traces : convs = LoadShareGpt(trace)
    /\ pc = [i \in Tasks |-> "queued"]
    /\ turn = [i \in Tasks |-> 0]
    /\ results = [i \in Tasks |-> <<>>]
    /\ failed = [i \in Tasks |-> FALSE]
    /\ permits = Concurrency
    /\ joined = 0 /\ all = <<>> /\ failures = 0
-----------------------------------------------------------------------------
\* Mutant of Acquire: the permit is not bound to a name, and so dropped at once.
AcquireUnbound(i) ==
    /\ pc[i] = "queued" /\ permits > 0
    /\ pc' = [pc EXCEPT ![i] = "asking"]
    /\ turn' = [turn EXCEPT ![i] = 1]
    /\ UNCHANGED <<convs, results, failed, permits, mainVars>>

\* The task gets its permit and sends its first prompt.
Acquire(i) ==
    /\ pc[i] = "queued" /\ permits > 0
    /\ permits' = permits - 1
    /\ pc' = [pc EXCEPT ![i] = "asking"]
    /\ turn' = [turn EXCEPT ![i] = 1]
    /\ UNCHANGED <<convs, results, failed, mainVars>>

\* Mutant of Finish: the permit is given back by hand, and again when dropped.
FinishTwice(i) ==
    /\ pc' = [pc EXCEPT ![i] = "done"]
    /\ permits' = permits + 2
    /\ UNCHANGED turn

\* The task ends, and its permit goes back.
Finish(i) ==
    /\ pc' = [pc EXCEPT ![i] = "done"]
    /\ permits' = permits + 1
    /\ UNCHANGED turn

\* The router answers with what the replica reported; the next prompt follows.
Answered(i, reply) ==
    /\ pc[i] = "asking"
    /\ results' = [results EXCEPT ![i] = Append(@, reply)]
    /\ IF turn[i] = Len(convs[i]) THEN Finish(i)
       ELSE turn' = [turn EXCEPT ![i] = @ + 1] /\ UNCHANGED <<pc, permits>>
    /\ UNCHANGED <<convs, failed, mainVars>>

\* Mutants of Refused: the task goes on with the next prompt; it keeps its permit.
RefusedContinues(i) ==
    /\ pc[i] = "asking"
    /\ IF turn[i] = Len(convs[i]) THEN Finish(i)
       ELSE turn' = [turn EXCEPT ![i] = @ + 1] /\ UNCHANGED <<pc, permits>>
    /\ UNCHANGED <<convs, results, failed, mainVars>>
RefusedLeaks(i) ==
    /\ pc[i] = "asking"
    /\ failed' = [failed EXCEPT ![i] = TRUE]
    /\ pc' = [pc EXCEPT ![i] = "done"]
    /\ UNCHANGED <<convs, turn, results, permits, mainVars>>

\* The call fails: the conversation is abandoned.
Refused(i) ==
    /\ pc[i] = "asking"
    /\ failed' = [failed EXCEPT ![i] = TRUE]
    /\ Finish(i)
    /\ UNCHANGED <<convs, results, mainVars>>

\* main awaits the handles in the order the tasks were spawned in.
Join ==
    /\ joined < Len(convs) /\ pc[joined + 1] = "done"
    /\ joined' = joined + 1
    /\ all' = all \o results[joined + 1]
    /\ failures' = failures + (IF failed[joined + 1] THEN 1 ELSE 0)
    /\ UNCHANGED <<convs, taskVars, permits>>

-----------------------------------------------------------------------------
Sum(f) == FoldFunction(LAMBDA m, n : m + n, 0, f)

\* The lines of the report: requests, and the blocks their replicas reported.
Report ==
    [requests |-> Len(all),
     cached |-> Sum([k \in DOMAIN all |-> all[k].cached]),
     total |-> Sum([k \in DOMAIN all |-> all[k].total])]

Reported == joined = Len(convs)

\* The tasks' and main's state, and the permits.
LoadTypeOK ==
    /\ pc \in [Tasks -> {"queued", "asking", "done"}]
    /\ \A i \in Tasks : turn[i] \in 0..Len(convs[i]) /\ Len(results[i]) <= turn[i]
    /\ failed \in [Tasks -> BOOLEAN]
    /\ permits \in 0..Concurrency
    /\ joined \in 0..Len(convs) /\ failures \in 0..joined

\* The router never sees more requests at once than asked for on the command
\* line: a task keeps its permit across its turns (main.rs:90).
ConcurrencyKept == Cardinality({i \in Tasks : pc[i] = "asking"}) <= Concurrency

\* What main reports accounts for every prompt: of each conversation, either
\* all were answered, or those before the one failed request that is counted
\* (main.rs:30-33, 104-107, 118-125).
ReportAccounts ==
    Reported =>
        /\ failures = Cardinality({i \in Tasks : failed[i]})
        /\ Report.requests + failures = Sum(turn)
        /\ \A i \in Tasks : Len(results[i]) = IF failed[i] THEN turn[i] - 1 ELSE Len(convs[i])
=============================================================================
