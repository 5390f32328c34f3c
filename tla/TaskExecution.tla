----------------------------- MODULE TaskExecution -----------------------------
(* executeTaskPlan of services/agent-core: one asynchronous loop that calls the *)
(* caller's tool for one step after the other, with a retry, a deadline and a   *)
(* cancellation that is polled. JavaScript runs one callback at a time: a step  *)
(* of the model is what runs between two macrotasks. A call that lost the race  *)
(* against the deadline or the cancellation is not stopped.                      *)
EXTENDS Integers

CONSTANTS
    Steps,        \* positions of the plan's steps in its array
    Plans,        \* the plans that may be submitted
    RetryLimit    \* how often a step is tried again

Unknown == 0      \* an id that no step of the plan has

ASSUME StepsArePositions == Steps \subseteq Nat \ {Unknown}
ASSUME RetryLimitIsNat == RetryLimit \in Nat
ASSUME PlansAreDescribed ==
    Plans \subseteq [dependsOn : [Steps -> SUBSET (Steps \cup {Unknown})],
                     order     : [Steps -> Int],
                     status    : [Steps -> {"pending", "completed", "skipped"}],
                     duplicate : BOOLEAN]    \* two steps share an id

VARIABLES
    plan,         \* the submitted plan
    stepStatus,   \* status of each step
    planStatus,   \* "submitted", "executing", "completed", "failed" or "cancelled"
    pc,           \* "loop", "racing", "backoff", "delay" or "done"
    current,      \* the step being tried, Unknown between two
    attempt,      \* and which try of it this is
    calls,        \* [Steps -> [0..RetryLimit -> state of that call of the tool]]
    results,      \* the steps whose result the execution returns
    cancelled,    \* the caller's cancel signal
    late          \* maxExecutionTimeMs has passed

vars == <<plan, stepStatus, planStatus, pc, current, attempt, calls, results, cancelled, late>>

Attempts == 0..RetryLimit

Init ==
    /\ plan \in Plans
    /\ stepStatus = plan.status
    /\ planStatus = "submitted" /\ pc = "loop"
    /\ current = Unknown /\ attempt = 0
    /\ calls = [s \in Steps |-> [a \in Attempts |-> "none"]]
    /\ results = {}
    /\ cancelled = FALSE /\ late = FALSE

\* validatePlan
Valid == ~plan.duplicate /\ \A s \in Steps : Unknown \notin plan.dependsOn[s]

End(outcome) == planStatus' = outcome /\ pc' = "done"

Submit ==
    /\ planStatus = "submitted"
    /\ IF Valid
       THEN planStatus' = "executing" /\ UNCHANGED pc
       ELSE End("failed")
    /\ UNCHANGED <<plan, stepStatus, current, attempt, calls, results, cancelled, late>>

\* Mutant: a skipped dependency does not block.
ReadyIfDecided(s) ==
    /\ stepStatus[s] = "pending"
    /\ \A d \in plan.dependsOn[s] : d \in Steps /\ stepStatus[d] \in {"completed", "skipped"}

\* getNextPendingStep: the first, by order and then by position, of the pending
\* steps whose dependencies are all completed; a skipped dependency blocks.
Ready(s) ==
    /\ stepStatus[s] = "pending"
    /\ \A d \in plan.dependsOn[s] : d \in Steps /\ stepStatus[d] = "completed"

Before(s, t) ==
    \/ plan.order[s] < plan.order[t]
    \/ plan.order[s] = plan.order[t] /\ s <= t

InLoop == pc = "loop" /\ planStatus = "executing"

SeeCancellation ==
    /\ InLoop /\ cancelled
    /\ End("cancelled")
    /\ UNCHANGED <<plan, stepStatus, current, attempt, calls, results, cancelled, late>>

SeeDeadline ==
    /\ InLoop /\ ~cancelled /\ late
    /\ End("failed")
    /\ UNCHANGED <<plan, stepStatus, current, attempt, calls, results, cancelled, late>>

NothingReady ==
    /\ InLoop /\ ~cancelled /\ ~late
    /\ \A s \in Steps : ~Ready(s)
    /\ End(IF \A s \in Steps : stepStatus[s] \in {"completed", "skipped"}
           THEN "completed" ELSE "failed")
    /\ UNCHANGED <<plan, stepStatus, current, attempt, calls, results, cancelled, late>>

\* The step ends the plan: its tool failed for good, timed out or was cancelled.
GiveUp(s, outcome) ==
    /\ stepStatus' = [stepStatus EXCEPT ![s] = "failed"]
    /\ End(outcome)
    /\ current' = Unknown

\* The tool is called first and the time that remains is looked at afterwards: a
\* call made at the deadline runs although its step has failed.
Call(s, a) ==
    /\ calls' = [calls EXCEPT ![s][a] = "running"]
    /\ attempt' = a
    /\ \/ /\ ~late'
          /\ pc' = "racing" /\ current' = s
          /\ stepStatus' = [stepStatus EXCEPT ![s] = "running"]
          /\ UNCHANGED planStatus
       \/ late' /\ GiveUp(s, "failed")
    /\ UNCHANGED <<plan, results, cancelled>>

\* Time may run out between the loop's look at the clock and the call.
StartStep(s) ==
    /\ InLoop /\ ~cancelled /\ ~late
    /\ Ready(s) /\ \A t \in Steps : Ready(t) => Before(s, t)
    /\ late' \in BOOLEAN
    /\ Call(s, 0)

\* Neither the deadline nor the cancellation is looked at before a retry.
Retry ==
    /\ pc = "backoff"
    /\ late' \in {late, TRUE}
    /\ Call(current, attempt + 1)

Racing(s, a) == pc = "racing" /\ current = s /\ attempt = a

\* Mutant: the loop over the attempts is not left when a call returns.
ReturnsAndGoesOn(s, a) ==
    /\ calls[s][a] = "running"
    /\ calls' = [calls EXCEPT ![s][a] = "returned"]
    /\ IF Racing(s, a) /\ a < RetryLimit
       THEN pc' = "backoff"
       ELSE UNCHANGED pc
    /\ UNCHANGED <<plan, stepStatus, planStatus, current, attempt, results, cancelled, late>>

\* A call that is still awaited completes its step; one that was given up only
\* takes its effect.
ToolReturns(s, a) ==
    /\ calls[s][a] = "running"
    /\ calls' = [calls EXCEPT ![s][a] = "returned"]
    /\ IF Racing(s, a)
       THEN /\ stepStatus' = [stepStatus EXCEPT ![s] = "completed"]
            /\ results' = results \cup {s}
            /\ pc' = "delay" /\ current' = Unknown
       ELSE UNCHANGED <<stepStatus, results, pc, current>>
    /\ UNCHANGED <<plan, planStatus, attempt, cancelled, late>>

\* A rejection is told apart by its message alone, which the tool may choose: one
\* that reads like a cancellation or a timeout is taken for one.
ToolThrows(s, a, message) ==
    /\ calls[s][a] = "running"
    /\ calls' = [calls EXCEPT ![s][a] = "rejected"]
    /\ IF ~Racing(s, a)
       THEN UNCHANGED <<stepStatus, planStatus, pc, current>>
       ELSE IF message = "cancelled"
       THEN GiveUp(s, "cancelled")
       ELSE IF message = "timed out" \/ a >= RetryLimit
       THEN GiveUp(s, "failed")
       ELSE pc' = "backoff" /\ UNCHANGED <<stepStatus, planStatus, current>>
    /\ UNCHANGED <<plan, attempt, results, cancelled, late>>

\* Mutant: a call that passed the deadline is retried like one that failed.
TimerRetries ==
    /\ pc = "racing" /\ late /\ attempt < RetryLimit
    /\ pc' = "backoff"
    /\ UNCHANGED <<plan, stepStatus, planStatus, current, attempt, calls, results, cancelled, late>>

\* Mutant: the deadline aborts the call's signal and does not reject.
TimerAborts == pc = "racing" /\ late /\ UNCHANGED vars

TimerFires ==
    /\ pc = "racing" /\ late
    /\ GiveUp(current, "failed")
    /\ UNCHANGED <<plan, attempt, calls, results, cancelled, late>>

PollSeesCancellation ==
    /\ pc = "racing" /\ cancelled
    /\ GiveUp(current, "cancelled")
    /\ UNCHANGED <<plan, attempt, calls, results, cancelled, late>>

DelayEnds ==
    /\ pc = "delay"
    /\ pc' = "loop"
    /\ UNCHANGED <<plan, stepStatus, planStatus, current, attempt, calls, results, cancelled,
                   late>>

\* The caller, a progress callback or a tool sets the cancel signal.
Cancel ==
    /\ ~cancelled /\ cancelled' = TRUE
    /\ UNCHANGED <<plan, stepStatus, planStatus, pc, current, attempt, calls, results,
                   late>>

TimePasses ==
    /\ ~late /\ late' = TRUE
    /\ UNCHANGED <<plan, stepStatus, planStatus, pc, current, attempt, calls, results,
                   cancelled>>

Executor ==
    \/ Submit \/ SeeCancellation \/ SeeDeadline \/ NothingReady
    \/ \E s \in Steps : StartStep(s)
    \/ Retry \/ TimerFires \/ PollSeesCancellation \/ DelayEnds

Tools ==
    \E s \in Steps, a \in Attempts :
        \/ ToolReturns(s, a)
        \/ \E message \in {"error", "cancelled", "timed out"} : ToolThrows(s, a, message)

Next == Executor \/ Tools \/ Cancel \/ TimePasses

Spec == Init /\ [][Next]_vars

\* The event loop runs due callbacks and the clock goes on; nothing is assumed of
\* the tools, which may never answer.
FairSpec == Spec /\ WF_vars(Executor) /\ WF_vars(TimePasses)

--------------------------------------------------------------------------------
CallStates == {"none", "running", "returned", "rejected"}

TaskTypeOK ==
    /\ plan \in Plans
    /\ stepStatus \in [Steps -> {"pending", "running", "completed", "failed", "skipped"}]
    /\ planStatus \in {"submitted", "executing", "completed", "failed", "cancelled"}
    /\ pc \in {"loop", "racing", "backoff", "delay", "done"}
    /\ current \in Steps \cup {Unknown}
    /\ attempt \in Attempts
    /\ calls \in [Steps -> [Attempts -> CallStates]]
    /\ results \subseteq Steps
    /\ cancelled \in BOOLEAN /\ late \in BOOLEAN

\* However calls are retried, given up at the deadline or answer late, no two calls
\* of one execution are in progress at once: the tools of a plan need not tolerate
\* one another (executeStepWithRetry, withExecutionGuards).
CallsDoNotOverlap ==
    \A s, t \in Steps : \A a, b \in Attempts :
        calls[s][a] = "running" /\ calls[t][b] = "running" => s = t /\ a = b

\* A tool is called again for a step only after its earlier call was rejected: what
\* returned, or may still take effect, is not repeated (executeStepWithRetry).
RetriedOnlyAfterRejection ==
    \A s \in Steps : \A a, b \in Attempts :
        a < b /\ calls[s][b] # "none" => calls[s][a] = "rejected"

\* The results returned are those of the steps this execution completed, each by
\* a call that returned; a late return after the deadline adds none.
ResultsAreOfCompletedSteps ==
    \A s \in Steps :
        s \in results <=> /\ stepStatus[s] = "completed"
                          /\ \E a \in Attempts : calls[s][a] = "returned"

Contract == INSTANCE TaskContract
    WITH dependsOn <- plan.dependsOn,
         Outcomes  <- {"completed", "failed", "cancelled"},
         outcome   <- IF planStatus \in {"submitted", "executing"} THEN "open" ELSE planStatus

\* Whatever the tools, the clock and the caller do, executeTaskPlan keeps the
\* contract of TaskContract, from its first step to after its end.
ImplementsContract == Contract!Spec

\* Every execution ends, although a tool may never answer (withExecutionGuards).
Terminates == <>(pc = "done")
================================================================================
