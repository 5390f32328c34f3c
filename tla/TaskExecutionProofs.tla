-------------------------- MODULE TaskExecutionProofs --------------------------
(* Proofs about TaskExecution, for every set of steps, every set of plans and    *)
(* every retry limit: the invariants of the calls and the results, and that the  *)
(* execution implements TaskContract. Inv says which call is awaited in each     *)
(* phase of the loop and which calls may have been left behind by it.            *)
EXTENDS TaskExecution, TLAPS

\* The phase of the loop, the plan's status and the step being tried agree.
Phases ==
    /\ pc = "done" <=> planStatus \notin {"submitted", "executing"}
    /\ pc \in {"racing", "backoff", "delay"} => planStatus = "executing"
    /\ current \in Steps <=> pc \in {"racing", "backoff"}

\* The awaited call runs, the one to be retried was rejected and may be retried.
CurrentCall ==
    /\ pc \in {"racing", "backoff"} =>
           /\ stepStatus[current] = "running"
           /\ \A a \in Attempts : a > attempt => calls[current][a] = "none"
    /\ pc = "racing" => calls[current][attempt] = "running"
    /\ pc = "backoff" => calls[current][attempt] = "rejected" /\ attempt < RetryLimit

\* A call that runs and is not awaited belongs to the step that ended the plan.
NoStrayCall ==
    \A s \in Steps : \A a \in Attempts :
        calls[s][a] = "running" =>
            \/ pc = "racing" /\ s = current /\ a = attempt
            \/ pc = "done" /\ stepStatus[s] = "failed"

StatusesAgree ==
    \A s \in Steps :
        /\ stepStatus[s] = "pending" => \A a \in Attempts : calls[s][a] = "none"
        /\ stepStatus[s] = "running" => s = current
        /\ stepStatus[s] = "failed" => pc = "done"

Inv ==
    /\ TaskTypeOK
    /\ Phases /\ CurrentCall /\ NoStrayCall /\ StatusesAgree
    /\ CallsDoNotOverlap /\ RetriedOnlyAfterRejection /\ ResultsAreOfCompletedSteps

USE DEF Attempts, CallStates

LEMMA InitInv == Init => Inv
<1> SUFFICES ASSUME Init PROVE Inv
  OBVIOUS
<1> USE StepsArePositions, RetryLimitIsNat DEF Init
<1>1. /\ plan \in Plans
      /\ stepStatus \in [Steps -> {"pending", "completed", "skipped"}]
  BY PlansAreDescribed
<1>2. stepStatus \in [Steps -> {"pending", "running", "completed", "failed", "skipped"}]
  BY <1>1
<1>2a. calls \in [Steps -> [Attempts -> CallStates]] /\ attempt \in Attempts
  OBVIOUS
<1>2b. TaskTypeOK
  BY <1>1, <1>2, <1>2a DEF TaskTypeOK
<1>3. Phases /\ CurrentCall
  BY DEF Phases, CurrentCall
<1>4. NoStrayCall /\ CallsDoNotOverlap /\ RetriedOnlyAfterRejection
  BY DEF NoStrayCall, CallsDoNotOverlap, RetriedOnlyAfterRejection
<1>5. StatusesAgree /\ ResultsAreOfCompletedSteps
  BY <1>1 DEF StatusesAgree, ResultsAreOfCompletedSteps
<1> QED
  BY <1>2b, <1>3, <1>4, <1>5 DEF Inv

(* The loop itself calls nothing. *)
LEMMA LoopStep == ASSUME Inv, Submit \/ SeeCancellation \/ SeeDeadline \/ NothingReady PROVE Inv'
<1> USE StepsArePositions, RetryLimitIsNat DEF Inv, TaskTypeOK, Submit, SeeCancellation, SeeDeadline, NothingReady, InLoop, End
<1>1. TaskTypeOK'
  BY DEF Phases, CurrentCall
<1>2. Phases'
  BY <1>1 DEF Phases, CurrentCall
<1>3. CurrentCall'
  BY <1>1 DEF Phases, CurrentCall, StatusesAgree
<1>4. NoStrayCall'
  BY <1>1 DEF Phases, CurrentCall, NoStrayCall
<1>5. StatusesAgree'
  BY <1>1 DEF Phases, CurrentCall, StatusesAgree
<1>6. CallsDoNotOverlap'
  BY <1>1 DEF Phases, CurrentCall, NoStrayCall, CallsDoNotOverlap
<1>7. RetriedOnlyAfterRejection'
  BY <1>1 DEF Phases, CurrentCall, StatusesAgree, RetriedOnlyAfterRejection
<1>8. ResultsAreOfCompletedSteps'
  BY <1>1 DEF Phases, CurrentCall, NoStrayCall, StatusesAgree, ResultsAreOfCompletedSteps
<1> QED
  BY <1>1, <1>2, <1>3, <1>4, <1>5, <1>6, <1>7, <1>8

(* The first call of a step, none of which was called before. *)
LEMMA StartStepStep == ASSUME Inv, NEW s \in Steps, StartStep(s) PROVE Inv'
<1> USE StepsArePositions, RetryLimitIsNat DEF Inv, TaskTypeOK, StartStep, InLoop, Ready, Call, GiveUp, End
<1>0. attempt' = 0 /\ calls' = [calls EXCEPT ![s][0] = "running"]
  OBVIOUS
<1>a. attempt' \in Attempts /\ calls' \in [Steps -> [Attempts -> CallStates]]
  BY <1>0
<1>b. stepStatus' \in [Steps -> {"pending", "running", "completed", "failed", "skipped"}]
  OBVIOUS
<1>1. TaskTypeOK'
  BY <1>a, <1>b
<1>2. Phases'
  BY <1>1 DEF Phases, CurrentCall
<1>3. CurrentCall'
  BY <1>1 DEF Phases, CurrentCall, StatusesAgree
<1>4. NoStrayCall'
  BY <1>1 DEF Phases, CurrentCall, NoStrayCall
<1>5. StatusesAgree'
  BY <1>1 DEF Phases, CurrentCall, StatusesAgree
<1>6. CallsDoNotOverlap'
  BY <1>1 DEF Phases, CurrentCall, NoStrayCall, CallsDoNotOverlap
<1>7. RetriedOnlyAfterRejection'
  BY <1>1 DEF Phases, CurrentCall, StatusesAgree, RetriedOnlyAfterRejection
<1>8. ResultsAreOfCompletedSteps'
  BY <1>1 DEF Phases, CurrentCall, NoStrayCall, StatusesAgree, ResultsAreOfCompletedSteps
<1> QED
  BY <1>1, <1>2, <1>3, <1>4, <1>5, <1>6, <1>7, <1>8

(* A retry, whose earlier calls were all rejected. *)
LEMMA RetryStep == ASSUME Inv, Retry PROVE Inv'
<1> USE StepsArePositions, RetryLimitIsNat DEF Inv, TaskTypeOK, Retry, Call, GiveUp, End
<1>0. current \in Steps /\ attempt + 1 \in Attempts
  BY DEF Phases, CurrentCall
<1>a. attempt' \in Attempts /\ calls' \in [Steps -> [Attempts -> CallStates]]
  BY <1>0
<1>b. stepStatus' \in [Steps -> {"pending", "running", "completed", "failed", "skipped"}]
  BY <1>0
<1>1. TaskTypeOK'
  BY <1>0, <1>a, <1>b
<1>2. Phases'
  BY <1>1 DEF Phases, CurrentCall
<1>3. CurrentCall'
  BY <1>1 DEF Phases, CurrentCall, StatusesAgree
<1>4. NoStrayCall'
  BY <1>1 DEF Phases, CurrentCall, NoStrayCall
<1>5. StatusesAgree'
  BY <1>1 DEF Phases, CurrentCall, StatusesAgree
<1>6. CallsDoNotOverlap'
  BY <1>1 DEF Phases, CurrentCall, NoStrayCall, CallsDoNotOverlap
<1>7. RetriedOnlyAfterRejection'
  BY <1>1 DEF Phases, CurrentCall, StatusesAgree, RetriedOnlyAfterRejection
<1>8. ResultsAreOfCompletedSteps'
  BY <1>1 DEF Phases, CurrentCall, NoStrayCall, StatusesAgree, ResultsAreOfCompletedSteps
<1> QED
  BY <1>1, <1>2, <1>3, <1>4, <1>5, <1>6, <1>7, <1>8

(* A call returns, awaited or left behind. *)
LEMMA ReturnStep == ASSUME Inv, NEW s \in Steps, NEW a \in Attempts, ToolReturns(s, a) PROVE Inv'
<1> USE StepsArePositions, RetryLimitIsNat DEF Inv, TaskTypeOK, ToolReturns, Racing
<1>1. TaskTypeOK'
  BY DEF Phases, CurrentCall
<1>2. Phases'
  BY <1>1 DEF Phases, CurrentCall
<1>3. CurrentCall'
  BY <1>1 DEF Phases, CurrentCall, StatusesAgree
<1>4. NoStrayCall'
  BY <1>1 DEF Phases, CurrentCall, NoStrayCall
<1>5. StatusesAgree'
  BY <1>1 DEF Phases, CurrentCall, StatusesAgree
<1>6. CallsDoNotOverlap'
  BY <1>1 DEF Phases, CurrentCall, NoStrayCall, CallsDoNotOverlap
<1>7. RetriedOnlyAfterRejection'
  BY <1>1 DEF Phases, CurrentCall, StatusesAgree, RetriedOnlyAfterRejection
<1>8. ResultsAreOfCompletedSteps'
  BY <1>1 DEF Phases, CurrentCall, NoStrayCall, StatusesAgree, ResultsAreOfCompletedSteps
<1> QED
  BY <1>1, <1>2, <1>3, <1>4, <1>5, <1>6, <1>7, <1>8

(* A call is rejected, awaited or left behind. *)
LEMMA ThrowStep ==
    ASSUME Inv, NEW s \in Steps, NEW a \in Attempts, NEW message, ToolThrows(s, a, message)
    PROVE  Inv'
<1> USE StepsArePositions, RetryLimitIsNat DEF Inv, TaskTypeOK, Racing
<1>a. /\ calls[s][a] = "running"
      /\ UNCHANGED <<plan, attempt, results, cancelled, late>>
      /\ calls' \in [Steps -> [Attempts -> CallStates]]
      /\ \A t \in Steps : \A b \in Attempts :
            calls'[t][b] = IF t = s /\ b = a THEN "rejected" ELSE calls[t][b]
  BY DEF ToolThrows
<1>b. \/ ~Racing(s, a) /\ UNCHANGED <<stepStatus, planStatus, pc, current>>
      \/ /\ Racing(s, a) /\ a < RetryLimit
         /\ pc' = "backoff" /\ UNCHANGED <<stepStatus, planStatus, current>>
      \/ Racing(s, a) /\ \E o \in {"failed", "cancelled"} : GiveUp(s, o)
  <2>1. CASE ~Racing(s, a)
    BY <2>1 DEF ToolThrows
  <2>2. CASE Racing(s, a) /\ message = "cancelled"
    <3>1. GiveUp(s, "cancelled")
      BY <2>2 DEF ToolThrows
    <3> QED
      BY <2>2, <3>1
  <2>3. CASE Racing(s, a) /\ message # "cancelled" /\ (message = "timed out" \/ a >= RetryLimit)
    <3>1. GiveUp(s, "failed")
      BY <2>3 DEF ToolThrows
    <3> QED
      BY <2>3, <3>1
  <2>4. CASE Racing(s, a) /\ message # "cancelled" /\ ~(message = "timed out" \/ a >= RetryLimit)
    <3>0. ~(a >= RetryLimit)
      BY <2>4, Zenon
    <3>1. a < RetryLimit
      BY <3>0
    <3>2. pc' = "backoff" /\ UNCHANGED <<stepStatus, planStatus, current>>
      BY <2>4, Zenon DEF ToolThrows
    <3> QED
      BY <2>4, <3>1, <3>2
  <2> QED
    BY <2>1, <2>2, <2>3, <2>4
<1>1. CASE ~Racing(s, a) /\ UNCHANGED <<stepStatus, planStatus, pc, current>>
  <2>1. TaskTypeOK'
    BY <1>a, <1>1 DEF Phases, CurrentCall
  <2>2. Phases'
    BY <1>a, <1>1, <2>1 DEF Phases, CurrentCall
  <2>3. CurrentCall'
    BY <1>a, <1>1, <2>1 DEF Phases, CurrentCall, StatusesAgree
  <2>4. NoStrayCall'
    BY <1>a, <1>1, <2>1 DEF Phases, CurrentCall, NoStrayCall
  <2>5. StatusesAgree'
    BY <1>a, <1>1, <2>1 DEF Phases, CurrentCall, StatusesAgree
  <2>6. CallsDoNotOverlap'
    BY <1>a, <1>1, <2>1 DEF CallsDoNotOverlap
  <2>7. RetriedOnlyAfterRejection'
    BY <1>a, <1>1, <2>1 DEF RetriedOnlyAfterRejection
  <2>8. ResultsAreOfCompletedSteps'
    BY <1>a, <1>1, <2>1 DEF Phases, CurrentCall, NoStrayCall, StatusesAgree, ResultsAreOfCompletedSteps
  <2> QED
    BY <2>1, <2>2, <2>3, <2>4, <2>5, <2>6, <2>7, <2>8
<1>2. CASE /\ Racing(s, a) /\ a < RetryLimit
               /\ pc' = "backoff" /\ UNCHANGED <<stepStatus, planStatus, current>>
  <2>1. TaskTypeOK'
    BY <1>a, <1>2 DEF Phases, CurrentCall
  <2>2. Phases'
    BY <1>a, <1>2, <2>1 DEF Phases, CurrentCall
  <2>3. CurrentCall'
    BY <1>a, <1>2, <2>1 DEF Phases, CurrentCall, StatusesAgree
  <2>4. NoStrayCall'
    BY <1>a, <1>2, <2>1 DEF Phases, CurrentCall, NoStrayCall
  <2>5. StatusesAgree'
    BY <1>a, <1>2, <2>1 DEF Phases, CurrentCall, StatusesAgree
  <2>6. CallsDoNotOverlap'
    BY <1>a, <1>2, <2>1 DEF CallsDoNotOverlap
  <2>7. RetriedOnlyAfterRejection'
    BY <1>a, <1>2, <2>1 DEF RetriedOnlyAfterRejection
  <2>8. ResultsAreOfCompletedSteps'
    BY <1>a, <1>2, <2>1 DEF Phases, CurrentCall, NoStrayCall, StatusesAgree, ResultsAreOfCompletedSteps
  <2> QED
    BY <2>1, <2>2, <2>3, <2>4, <2>5, <2>6, <2>7, <2>8
<1>3. CASE Racing(s, a) /\ \E o \in {"failed", "cancelled"} : GiveUp(s, o)
  <2> USE DEF GiveUp, End
  <2>1. TaskTypeOK'
    BY <1>a, <1>3 DEF Phases, CurrentCall
  <2>2. Phases'
    BY <1>a, <1>3, <2>1 DEF Phases, CurrentCall
  <2>3. CurrentCall'
    BY <1>a, <1>3, <2>1 DEF Phases, CurrentCall, StatusesAgree
  <2>4. NoStrayCall'
    BY <1>a, <1>3, <2>1 DEF Phases, CurrentCall, NoStrayCall
  <2>5. StatusesAgree'
    BY <1>a, <1>3, <2>1 DEF Phases, CurrentCall, StatusesAgree
  <2>6. CallsDoNotOverlap'
    BY <1>a, <1>3, <2>1 DEF CallsDoNotOverlap
  <2>7. RetriedOnlyAfterRejection'
    BY <1>a, <1>3, <2>1 DEF RetriedOnlyAfterRejection
  <2>8. ResultsAreOfCompletedSteps'
    BY <1>a, <1>3, <2>1 DEF Phases, CurrentCall, NoStrayCall, StatusesAgree, ResultsAreOfCompletedSteps
  <2> QED
    BY <2>1, <2>2, <2>3, <2>4, <2>5, <2>6, <2>7, <2>8
<1> QED
  BY <1>b, <1>1, <1>2, <1>3

(* The race is lost to the deadline or to the cancellation. *)
LEMMA GiveUpStep == ASSUME Inv, TimerFires \/ PollSeesCancellation PROVE Inv'
<1> USE StepsArePositions, RetryLimitIsNat DEF Inv, TaskTypeOK, TimerFires, PollSeesCancellation, GiveUp, End
<1>1. TaskTypeOK'
  BY DEF Phases, CurrentCall
<1>2. Phases'
  BY <1>1 DEF Phases, CurrentCall
<1>3. CurrentCall'
  BY <1>1 DEF Phases, CurrentCall, StatusesAgree
<1>4. NoStrayCall'
  BY <1>1 DEF Phases, CurrentCall, NoStrayCall
<1>5. StatusesAgree'
  BY <1>1 DEF Phases, CurrentCall, StatusesAgree
<1>6. CallsDoNotOverlap'
  BY <1>1 DEF Phases, CurrentCall, NoStrayCall, CallsDoNotOverlap
<1>7. RetriedOnlyAfterRejection'
  BY <1>1 DEF Phases, CurrentCall, StatusesAgree, RetriedOnlyAfterRejection
<1>8. ResultsAreOfCompletedSteps'
  BY <1>1 DEF Phases, CurrentCall, NoStrayCall, StatusesAgree, ResultsAreOfCompletedSteps
<1> QED
  BY <1>1, <1>2, <1>3, <1>4, <1>5, <1>6, <1>7, <1>8

(* No call changes. *)
LEMMA OtherStep == ASSUME Inv, DelayEnds \/ Cancel \/ TimePasses PROVE Inv'
<1> USE StepsArePositions, RetryLimitIsNat DEF Inv, TaskTypeOK, DelayEnds, Cancel, TimePasses
<1>1. TaskTypeOK'
  BY DEF Phases, CurrentCall
<1>2. Phases'
  BY <1>1 DEF Phases, CurrentCall
<1>3. CurrentCall'
  BY <1>1 DEF Phases, CurrentCall, StatusesAgree
<1>4. NoStrayCall'
  BY <1>1 DEF Phases, CurrentCall, NoStrayCall
<1>5. StatusesAgree'
  BY <1>1 DEF Phases, CurrentCall, StatusesAgree
<1>6. CallsDoNotOverlap'
  BY <1>1 DEF Phases, CurrentCall, NoStrayCall, CallsDoNotOverlap
<1>7. RetriedOnlyAfterRejection'
  BY <1>1 DEF Phases, CurrentCall, StatusesAgree, RetriedOnlyAfterRejection
<1>8. ResultsAreOfCompletedSteps'
  BY <1>1 DEF Phases, CurrentCall, NoStrayCall, StatusesAgree, ResultsAreOfCompletedSteps
<1> QED
  BY <1>1, <1>2, <1>3, <1>4, <1>5, <1>6, <1>7, <1>8

LEMMA InvStep == Inv /\ [Next]_vars => Inv'
<1> SUFFICES ASSUME Inv, [Next]_vars PROVE Inv'
  OBVIOUS
<1>1. CASE Executor
  <2>1. CASE Submit \/ SeeCancellation \/ SeeDeadline \/ NothingReady
    BY <2>1, LoopStep
  <2>2. CASE \E s \in Steps : StartStep(s)
    BY <2>2, StartStepStep
  <2>3. CASE Retry
    BY <2>3, RetryStep
  <2>4. CASE TimerFires \/ PollSeesCancellation
    BY <2>4, GiveUpStep
  <2>5. CASE DelayEnds
    BY <2>5, OtherStep
  <2> QED
    BY <1>1, <2>1, <2>2, <2>3, <2>4, <2>5 DEF Executor
<1>2. CASE Tools
  BY <1>2, ReturnStep, ThrowStep DEF Tools
<1>3. CASE Cancel \/ TimePasses
  BY <1>3, OtherStep
<1>4. CASE UNCHANGED vars
  BY <1>4 DEF vars, Inv, TaskTypeOK, Phases, CurrentCall, NoStrayCall, StatusesAgree,
      CallsDoNotOverlap, RetriedOnlyAfterRejection, ResultsAreOfCompletedSteps
<1> QED
  BY <1>1, <1>2, <1>3, <1>4 DEF Next

LEMMA InvHolds == Spec => []Inv
  BY InitInv, InvStep, PTL DEF Spec

(* The variables keep their types, in particular no retry passes the limit.      *)
THEOREM TaskTypeCorrect == Spec => []TaskTypeOK
<1>1. Inv => TaskTypeOK
  BY DEF Inv
<1> QED
  BY <1>1, InvHolds, PTL

(* No two calls of the tools of one execution are in progress at once, however   *)
(* many attempts fail, are given up or answer late (executeStepWithRetry).       *)
THEOREM CallsAreSequential == Spec => []CallsDoNotOverlap
<1>1. Inv => CallsDoNotOverlap
  BY DEF Inv
<1> QED
  BY <1>1, InvHolds, PTL

(* A tool is called again only after it rejected: a call that returned or may    *)
(* still take effect is not repeated (executeStepWithRetry).                     *)
THEOREM OnlyRejectionsAreRetried == Spec => []RetriedOnlyAfterRejection
<1>1. Inv => RetriedOnlyAfterRejection
  BY DEF Inv
<1> QED
  BY <1>1, InvHolds, PTL

(* The results are those of the steps this execution completed (executeTaskPlan). *)
THEOREM ResultsAreExact == Spec => []ResultsAreOfCompletedSteps
<1>1. Inv => ResultsAreOfCompletedSteps
  BY DEF Inv
<1> QED
  BY <1>1, InvHolds, PTL

--------------------------------------------------------------------------------
(* The refinement: outcome is the plan's status once it is final.                *)
AbsOutcome == IF planStatus \in {"submitted", "executing"} THEN "open" ELSE planStatus

ContractStep == [Contract!Next]_<<plan.dependsOn, stepStatus, AbsOutcome>>

USE DEF AbsOutcome

(* A step that starts, while the loop is between two steps, may run. *)
LEMMA StartedMayRun ==
    ASSUME Inv, NEW s \in Steps, InLoop, Ready(s)
    PROVE  Contract!MayRun(s)
  BY StepsArePositions
     DEF Inv, Phases, StatusesAgree, InLoop, Ready, Contract!MayRun, Contract!Idle

(* The loop ends the plan: only when nothing is left over does it succeed. *)
LEMMA LoopRefines ==
    ASSUME Inv, Submit \/ SeeCancellation \/ SeeDeadline \/ NothingReady
    PROVE  ContractStep
<1> USE StepsArePositions
<1>1. pc = "loop" /\ planStatus \in {"submitted", "executing"} => Contract!Idle
  BY DEF Inv, Phases, StatusesAgree, Contract!Idle
<1>2. planStatus = "submitted" => pc = "loop"
  BY DEF Inv, TaskTypeOK, Phases
<1>3. CASE Submit /\ Valid
  BY <1>3 DEF Submit, ContractStep
<1>4. CASE \/ Submit /\ ~Valid
           \/ SeeCancellation \/ SeeDeadline \/ NothingReady
  <2>1. /\ planStatus \in {"submitted", "executing"} /\ pc = "loop"
        /\ planStatus' \in {"completed", "failed", "cancelled"}
        /\ UNCHANGED <<plan, stepStatus>>
    BY <1>2, <1>4 DEF Submit, SeeCancellation, SeeDeadline, NothingReady, InLoop, End
  <2>2. planStatus' = "completed" => \A s \in Steps : stepStatus[s] \in {"completed", "skipped"}
    BY <1>4 DEF Submit, SeeCancellation, SeeDeadline, NothingReady, End
  <2>3. Contract!Finish
    BY <1>1, <2>1, <2>2 DEF Contract!Finish
  <2> QED
    BY <2>3 DEF ContractStep, Contract!Next
<1> QED
  BY <1>3, <1>4

(* Giving a step up, when it runs or is about to, is its failure. *)
LEMMA GivenUpFails ==
    ASSUME NEW s \in Steps, NEW o \in {"failed", "cancelled"}, GiveUp(s, o),
           stepStatus[s] = "running" \/ Contract!MayRun(s), UNCHANGED plan
    PROVE  ContractStep
<1>1. Contract!Fail(s)
  BY DEF GiveUp, End, Contract!Fail
<1> QED
  BY <1>1 DEF ContractStep, Contract!Next

LEMMA StartRefines == ASSUME Inv, NEW s \in Steps, StartStep(s) PROVE ContractStep
<1>1. Contract!MayRun(s)
  BY StartedMayRun DEF StartStep
<1>2. CASE GiveUp(s, "failed")
  BY <1>1, <1>2, GivenUpFails DEF StartStep, Call
<1>3. CASE ~GiveUp(s, "failed")
  <2>1. Contract!Run(s)
    BY <1>1, <1>3 DEF StartStep, Call, Contract!Run
  <2> QED
    BY <2>1 DEF ContractStep, Contract!Next
<1> QED
  BY <1>2, <1>3

LEMMA RetryRefines == ASSUME Inv, Retry PROVE ContractStep
<1>1. current \in Steps /\ stepStatus[current] = "running"
  BY DEF Inv, Phases, CurrentCall, Retry
<1>2. CASE GiveUp(current, "failed")
  BY <1>1, <1>2, GivenUpFails DEF Retry, Call
<1>3. CASE ~GiveUp(current, "failed")
  <2>1. stepStatus' = stepStatus
    BY <1>1, <1>3 DEF Retry, Call, Inv, TaskTypeOK
  <2> QED
    BY <1>3, <2>1 DEF Retry, Call, ContractStep
<1> QED
  BY <1>2, <1>3

LEMMA ReturnRefines ==
    ASSUME Inv, NEW s \in Steps, NEW a \in Attempts, ToolReturns(s, a) PROVE ContractStep
<1>1. CASE Racing(s, a)
  <2>1. Contract!Complete(s)
    BY <1>1 DEF ToolReturns, Racing, Inv, CurrentCall, Contract!Complete
  <2> QED
    BY <2>1 DEF ContractStep, Contract!Next
<1>2. CASE ~Racing(s, a)
  BY <1>2 DEF ToolReturns, ContractStep
<1> QED
  BY <1>1, <1>2

LEMMA ThrowRefines ==
    ASSUME Inv, NEW s \in Steps, NEW a \in Attempts, NEW message, ToolThrows(s, a, message)
    PROVE  ContractStep
<1>1. CASE Racing(s, a) /\ \E o \in {"failed", "cancelled"} : GiveUp(s, o)
  <2>1. stepStatus[s] = "running"
    BY <1>1 DEF Racing, Inv, CurrentCall
  <2> QED
    BY <1>1, <2>1, GivenUpFails DEF ToolThrows
<1>2. CASE UNCHANGED <<plan, stepStatus, planStatus>>
  BY <1>2 DEF ContractStep
<1>3. \/ Racing(s, a) /\ (GiveUp(s, "cancelled") \/ GiveUp(s, "failed"))
      \/ UNCHANGED <<plan, stepStatus, planStatus>>
  BY Zenon DEF ToolThrows
<1> QED
  BY <1>1, <1>2, <1>3

LEMMA GiveUpRefines == ASSUME Inv, TimerFires \/ PollSeesCancellation PROVE ContractStep
<1>1. current \in Steps /\ stepStatus[current] = "running"
  BY DEF Inv, Phases, CurrentCall, TimerFires, PollSeesCancellation
<1> QED
  BY <1>1, GivenUpFails DEF TimerFires, PollSeesCancellation

LEMMA RefinementInit == Init => Contract!Init
<1> SUFFICES ASSUME Init PROVE Contract!Init
  OBVIOUS
<1>1. stepStatus \in [Steps -> {"pending", "completed", "skipped"}]
  BY PlansAreDescribed DEF Init
<1> QED
  BY <1>1 DEF Init, Contract!Init

LEMMA RefinementStep == Inv /\ [Next]_vars => ContractStep
<1> SUFFICES ASSUME Inv, [Next]_vars PROVE ContractStep
  OBVIOUS
<1>1. CASE Executor
  <2>1. CASE DelayEnds
    BY <2>1 DEF DelayEnds, ContractStep
  <2> QED
    BY <1>1, <2>1, LoopRefines, StartRefines, RetryRefines, GiveUpRefines DEF Executor
<1>2. CASE Tools
  BY <1>2, ReturnRefines, ThrowRefines DEF Tools
<1>3. CASE Cancel \/ TimePasses \/ UNCHANGED vars
  BY <1>3 DEF Cancel, TimePasses, vars, ContractStep
<1> QED
  BY <1>1, <1>2, <1>3 DEF Next

(* executeTaskPlan implements the contract of a task plan: steps run one at a    *)
(* time, each after its dependencies, the first failure ends the plan, and it    *)
(* succeeds only when every step is done; after the end nothing changes.         *)
THEOREM PlanKeepsItsContract == Spec => ImplementsContract
<1>1. Inv /\ [Next]_vars => [Contract!Next]_(Contract!vars)
  BY RefinementStep DEF ContractStep, Contract!vars
<1> QED
  BY <1>1, InvHolds, RefinementInit, PTL DEF Spec, ImplementsContract, Contract!Spec

================================================================================
