------------------------------ MODULE MC_Meeting ------------------------------
(* A meeting of ten minutes: three chunks of a few seconds in which somebody    *)
(* speaks, one at the end of the first chapter, one in the second, and one in    *)
(* which the second ends while three people talk across one another.            *)
EXTENDS MeetingPipeline, TLC

CONSTANTS opening, task, close, promise, reply

MCUtterances == {opening, task, close, promise, reply}
MCStart      == opening :> 296 @@ task :> 340 @@ close :> 610 @@ promise :> 612 @@ reply :> 614
MCEnd        == opening :> 303 @@ task :> 346 @@ close :> 616 @@ promise :> 618 @@ reply :> 617
MCWords      == [u \in MCUtterances |-> 3]
MCActionable == {task, promise}
MCChunks     == 1..3
MCSaid       == <<{opening}, {task}, {close, promise, reply}>>
MCElapsed    == <<296, 340, 610>>
MCRecords    == (0..2) \X MCActionable
Calls        == Permutations(Requests)
===============================================================================
