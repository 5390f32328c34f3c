----------------------------- MODULE TaskContract -----------------------------
(* What executing a task plan promises whoever approved the plan: its steps    *)
(* run one at a time and each only after those it depends on, the first failure *)
(* or the cancellation ends it, and it succeeds only when nothing is left over. *)
EXTENDS Naturals

CONSTANTS Steps, Outcomes

VARIABLES
    dependsOn,    \* [Steps -> sets of steps], given with the plan
    stepStatus,   \* "pending", "running", "completed", "failed" or "skipped"
    outcome       \* "open", or one of Outcomes

vars == <<dependsOn, stepStatus, outcome>>

Init ==
    /\ \A s \in Steps : stepStatus[s] \in {"pending", "completed", "skipped"}
    /\ outcome = "open"

Idle == \A s \in Steps : stepStatus[s] \notin {"running", "failed"}

MayRun(s) ==
    /\ outcome = "open" /\ Idle
    /\ stepStatus[s] = "pending"
    /\ \A d \in dependsOn[s] : d \in Steps /\ stepStatus[d] = "completed"

Run(s) ==
    /\ MayRun(s)
    /\ stepStatus' = [stepStatus EXCEPT ![s] = "running"]
    /\ UNCHANGED <<dependsOn, outcome>>

Complete(s) ==
    /\ stepStatus[s] = "running"
    /\ stepStatus' = [stepStatus EXCEPT ![s] = "completed"]
    /\ UNCHANGED <<dependsOn, outcome>>

\* A step that fails or is interrupted, be it at its very start, ends the plan.
Fail(s) ==
    /\ stepStatus[s] = "running" \/ MayRun(s)
    /\ stepStatus' = [stepStatus EXCEPT ![s] = "failed"]
    /\ outcome' \in {"failed", "cancelled"}
    /\ UNCHANGED dependsOn

\* Between two steps the plan may end; it succeeds only if every step is done.
Finish ==
    /\ outcome = "open" /\ Idle
    /\ outcome' \in Outcomes
    /\ outcome' = "completed" =>
           \A s \in Steps : stepStatus[s] \in {"completed", "skipped"}
    /\ UNCHANGED <<dependsOn, stepStatus>>

Next == (\E s \in Steps : Run(s) \/ Complete(s) \/ Fail(s)) \/ Finish
Spec == Init /\ [][Next]_vars
===============================================================================
