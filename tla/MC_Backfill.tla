---------------------------- MODULE MC_Backfill ----------------------------
(* Small instances of a thread's backfill. *)
EXTENDS ThreadBackfill, TLC

CONSTANTS ann, bob, svc, k1, k2, hi

MessageIds == [run : 1 .. NumRuns, part : 1 .. 2]
AllKeys    == {k1, k2} \cup MessageIds
AllBodies  == {hi} \cup MessageIds
Remove     == [who |-> bob, role |-> "writer", status |-> "removed"]
SomeChanges == {Remove}
=============================================================================
