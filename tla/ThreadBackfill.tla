--------------------------- MODULE ThreadBackfill ---------------------------
(***************************************************************************)
(* A chat thread and the conversation it is backfilled into.  Agent runs   *)
(* of the thread keep starting and closing while the backfill imports the  *)
(* transcripts of the runs it read, one statement per thread, and may be   *)
(* repeated; then people use the conversation itself.                      *)
(*                                                                         *)
(* The INSERT of a run and the statement of the backfill overlap: each is  *)
(* a step that takes its snapshot and a step that commits, and sees of the *)
(* other only what was committed at the first.                             *)
(*                                                                         *)
(* The runs 1 .. NumRuns are numbered in the order of their created_at,    *)
(* which need not be the order of their snapshots.  A completed run's      *)
(* transcript is its delta, the user's turn and the answer; the key of an  *)
(* imported message names its run and the message, and so stands for the   *)
(* message as well.                                                        *)
(***************************************************************************)
EXTENDS ConversationLog

CONSTANTS
    NumRuns,
    Service   \* the migration's own actor; also the author of runs of unknown users

Runs       == 1 .. NumRuns
LegacyKeys == [run : Runs, part : 1 .. 2]
RunStates  == {"unborn", "minting", "running", "completed", "failed"}
NoBatch    == [runs |-> {}, users |-> {}, archived |-> FALSE, sees |-> {}, barred |-> {}]

ASSUME BackfillAssumption ==
    /\ NumRuns \in Nat
    /\ Service \in Actors
    /\ LegacyKeys \subseteq Keys /\ LegacyKeys \subseteq Bodies
    /\ 2 * NumRuns <= MaxSeq

VARIABLES
    run,       \* agent_runs.status; "minting" is an INSERT that runs
    author,    \* agent_runs.triggered_by, as an actor
    linked,    \* runs with a conversation_id
    archived,  \* chat_threads.archived
    stage,     \* of the backfill of the thread: "idle", "read" or "running", its statement
    batch,     \* what it read (completed runs, authors of all runs, archived), and what its
               \* statement sees (the runs there are, the actors that are disabled)
    raced      \* history: runs whose INSERT overlapped the statement that committed last

runVars      == <<run, author, linked, archived>>
backfillVars == <<stage, batch, raced>>
allVars      == <<vars, runVars, backfillVars>>

BackfillInit ==
    /\ status = "absent" /\ next = 1 /\ log = {} /\ disabled = {}
    /\ member = [a \in Actors |-> None]
    /\ reading = {} /\ cursor = [a \in Readers |-> 0] /\ seen = [a \in Readers |-> {}]
    /\ run = [r \in Runs |-> "unborn"]
    /\ author \in [Runs -> Actors]
    /\ linked = {}
    /\ archived \in BOOLEAN
    /\ stage = "idle" /\ batch = NoBatch /\ raced = {}

-----------------------------------------------------------------------------
(* The agent's runs.                                                        *)

(* mintRun: the INSERT takes its snapshot, in which it looks for the         *)
(* conversation, *)
MintRun(r) ==
    /\ run[r] = "unborn"
    /\ run' = [run EXCEPT ![r] = "minting"]
    /\ linked' = IF status # "absent" THEN linked \cup {r} ELSE linked
    /\ UNCHANGED <<vars, author, archived, backfillVars>>

(* and commits. *)
StartRun(r) ==
    /\ run[r] = "minting"
    /\ run' = [run EXCEPT ![r] = "running"]
    /\ UNCHANGED <<vars, author, linked, archived, backfillVars>>

\* Mutant: the late onError of a stream overwrites the run it completed.
CloseRunUnlatched(r, outcome) ==
    /\ run[r] \in {"running", "completed"}
    /\ run' = [run EXCEPT ![r] = outcome]
    /\ UNCHANGED <<vars, author, linked, archived, backfillVars>>

(* closeRun, from onFinish or onError: only a running run is closed.  A run  *)
(* whose process dies stays running.                                         *)
CloseRun(r, outcome) ==
    /\ run[r] = "running"
    /\ run' = [run EXCEPT ![r] = outcome]
    /\ UNCHANGED <<vars, author, linked, archived, backfillVars>>

ArchiveThread ==
    /\ ~ archived
    /\ archived' = TRUE
    /\ UNCHANGED <<vars, run, author, linked, backfillVars>>

-----------------------------------------------------------------------------
(* The backfill.                                                            *)

Begun     == {r \in Runs : run[r] # "unborn"}
Born      == {r \in Begun : run[r] # "minting"}
Completed == {r \in Runs : run[r] = "completed"}

(* loadThreadEvents: the thread and its runs as they are now. *)
BackfillLoad ==
    /\ stage = "idle"
    /\ stage' = "read"
    /\ batch' = [NoBatch EXCEPT !.runs = Completed, !.archived = archived,
                                !.users = {author[r] : r \in Born} \ {Service}]
    /\ UNCHANGED <<vars, runVars, raced>>

(* applyThread: one statement writes the conversation, memberships, events   *)
(* and links.  It takes its snapshot, *)
BackfillBegin ==
    /\ stage = "read" /\ Service \notin disabled
    /\ stage' = "running"
    /\ batch' = [batch EXCEPT !.sees = Born, !.barred = disabled]
    /\ UNCHANGED <<vars, runVars, raced>>

\* Mutant: the runs are read newest first.
PositionNewestFirst(r, part) == 2 * Cardinality({s \in batch.runs : s > r}) + part

(* The sequence of a message: its place in the transcripts of the batch. *)
Position(r, part) == 2 * Cardinality({s \in batch.runs : s < r}) + part

(* The author of a message is the run's, as long as that actor is enabled. *)
Import(r, part) ==
    [by |-> IF author[r] \in batch.barred THEN Service ELSE author[r],
     key |-> [run |-> r, part |-> part], kind |-> "created", payload |-> [run |-> r, part |-> part],
     target |-> 0, reply |-> 0, seq |-> Position(r, part)]

(* The messages whose key is not in the log yet. *)
Missing == {e \in {Import(r, part) : r \in batch.runs, part \in 1 .. 2} : WithKey(e.key) = {}}

(* A message that takes a sequence in use aborts the statement. *)
Collides == \E e \in Missing, f \in log : e.seq = f.seq

(* Known users of any run become admins unless they have a row already. *)
Admitted ==
    [a \in Actors |-> IF member[a] = None /\ a \in batch.users \ batch.barred
                      THEN [role |-> "admin", status |-> "active"] ELSE member[a]]

\* Mutant: only the runs whose transcripts were read are linked.
LinkRunsRead == linked' = linked \cup batch.runs
LinkRuns == linked' = linked \cup batch.sees

(* and meets the rows there are by now where an index speaks, and commits.   *)
(* Its update of next_sequence does not see a conversation that the same     *)
(* statement inserts; of a conversation that it has already updated it may   *)
(* or may not take effect.                                                   *)
BackfillApply ==
    /\ stage = "running" /\ ~ Collides
    /\ status' = IF status # "absent" THEN status
                 ELSE IF batch.archived THEN "archived" ELSE "active"
    /\ LET after == 2 * Cardinality(batch.runs) + 1
       IN  \/ next' = next
           \/ status # "absent" /\ next < after /\ next' = after
    /\ log' = log \cup Missing
    /\ member' = Admitted
    /\ LinkRuns
    /\ stage' = "idle" /\ batch' = NoBatch /\ raced' = Begun \ batch.sees
    /\ UNCHANGED <<disabled, readerVars, run, author, archived>>

(* provisionActors refuses, the insert collides, or the process dies. *)
BackfillStops ==
    /\ stage # "idle"
    /\ stage' = "idle" /\ batch' = NoBatch
    /\ UNCHANGED <<vars, runVars, raced>>

-----------------------------------------------------------------------------
(* People use the conversation: they post and change members. *)
People ==
    /\ \/ \E a \in Actors, k \in Keys \ LegacyKeys :
             \/ \E b \in Bodies \ LegacyKeys : Post(a, k, b, 0)
             \/ \E c \in Changes : ChangeMember(a, k, c)
       \/ \E a \in Actors : DisableActor(a)
    /\ UNCHANGED <<runVars, backfillVars>>

RunNext ==
    \/ \E r \in Runs : MintRun(r) \/ StartRun(r) \/ CloseRun(r, "completed") \/ CloseRun(r, "failed")
    \/ ArchiveThread

BackfillNext == BackfillLoad \/ BackfillBegin \/ BackfillApply \/ BackfillStops

ThreadNext == RunNext \/ BackfillNext \/ People

ThreadSpec == BackfillInit /\ [][ThreadNext]_allVars

-----------------------------------------------------------------------------

(* The order of the transcripts. *)
Before(k, l) == k.run < l.run \/ (k.run = l.run /\ k.part < l.part)

Imports == {e \in log : e.key \in LegacyKeys}

(* However often the backfill runs and whichever runs had completed, each    *)
(* message is imported once and messages follow each other as in the         *)
(* transcripts (backfill.ts:55-72, 169).                                     *)
ImportedInOrder ==
    \A e, f \in Imports :
        /\ e.key = f.key => e = f
        /\ Before(e.key, f.key) => e.seq < f.seq

(* A run is imported only if it completed, and whole: the log never holds    *)
(* half of a turn, nor one of a run that is reported failed                  *)
(* (runtime.ts:230-244, backfill.ts:146-170).                                *)
ImportsAreCompletedTurns ==
    \A e \in Imports : /\ run[e.key.run] = "completed"
                       /\ {f.key.part : f \in {f \in Imports : f.key.run = e.key.run}} = 1 .. 2

(* Every run of a thread that has a conversation is linked to it, whenever   *)
(* it started, unless its INSERT overlapped the backfill: neither statement  *)
(* saw the other's row then, and a repeated backfill makes up for it         *)
(* (backfill.ts:176-180, runtime.ts:207-220).                                *)
RunsAreLinked == status # "absent" => Born \subseteq linked \cup raced

(* No run of such a thread is left out (plan.md:95, agent chat links new     *)
(* runs through conversation_id).                                            *)
EveryRunIsLinked == status # "absent" => Born \subseteq linked

(* The conversation that replaced a thread shows what the thread showed: its *)
(* completed runs (threads-repository.ts:179-181).                           *)
HistoryIsComplete ==
    status # "absent" => \A r \in Completed : [run |-> r, part |-> 2] \in {e.key : e \in log}

(* The backfill can be repeated (docs/work plan, migration strategy, step 4).*)
Repeatable == stage = "running" => ~ Collides
=============================================================================
