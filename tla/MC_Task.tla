-------------------------------- MODULE MC_Task --------------------------------
(* Three steps, each with at most two dependencies (others, itself) or an       *)
(* unknown one, in three orders, some of them already decided.                   *)
EXTENDS TaskExecution

MCSteps == 1..3
MCOrders == {[s \in MCSteps |-> s], [s \in MCSteps |-> -s], [s \in MCSteps |-> 1]}
MCDependencies ==
    [MCSteps -> (SUBSET MCSteps \ {MCSteps}) \cup {{0}}]
MCStatuses ==
    {[s \in MCSteps |-> "pending"], [s \in MCSteps |-> IF s = 1 THEN "skipped" ELSE "pending"],
     [s \in MCSteps |-> IF s = 2 THEN "completed" ELSE "pending"]}
MCPlans ==
    [dependsOn : MCDependencies, order : MCOrders, status : MCStatuses, duplicate : {FALSE}]
        \cup [dependsOn : {[s \in MCSteps |-> {}]}, order : {[s \in MCSteps |-> s]},
              status : {[s \in MCSteps |-> "pending"]}, duplicate : {TRUE}]
================================================================================
