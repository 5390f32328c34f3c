---------------------------- MODULE MeetingPipeline ----------------------------
(* A meeting from its recorder to the review queue: chunks of audio that the    *)
(* web client uploads without waiting for one another (App.jsx), the meeting    *)
(* API that stores their segments and rewrites chapters and records             *)
(* (server.py), and the ingest that reads the records (MeetingIngest). The API  *)
(* is one process whose handlers only give way at an await, so what lies        *)
(* between two awaits is one step.                                              *)
EXTENDS MeetingIngest, MeetingChapters

CONSTANTS
    Chunks,        \* the uploaded chunks in which somebody speaks
    Said,          \* [Chunks -> SUBSET Utterances]
    Elapsed,       \* [Chunks -> Nat]: the recorder's clock when the chunk was cut
    StateWindow    \* SUMMARY_FIRST_STATE_WINDOW_SECONDS

ASSUME EveryUtteranceHasItsChunk ==
    /\ Said \in [Chunks -> SUBSET Utterances \ {{}}]
    /\ \A u \in Utterances : \E c \in Chunks : \A d \in Chunks : u \in Said[d] <=> d = c
    /\ Elapsed \in [Chunks -> Nat]

\* "Records" are the ids that a rewrite of some transcript generates.
ASSUME RecordsAreGenerated ==
    \A segs \in SUBSET Utterances, finalize \in BOOLEAN :
        Generated(segs, Chapters(segs, finalize)) \subseteq Records

VARIABLES
    meetingStatus,   \* meetings.status
    duration,        \* meetings.duration_seconds
    quiet,           \* nothing has touched the meeting for the inactivity timeout
    upload,          \* "waiting", "transcribing" or "answered": each chunk's request
    previousMax,     \* the duration each open request read at its start
    segments,        \* the transcript's segments
    chapters,        \* chapter_summaries
    stateEnd,        \* where the last meeting_state window ends, 0 for none
    ordered          \* history: no segment began or ended before one stored earlier

meetingVars == <<meetingStatus, duration, quiet, upload, previousMax, segments,
                 chapters, stateEnd, ordered>>

MeetingInit ==
    /\ meetingStatus = "idle" /\ duration = 0 /\ quiet = FALSE
    /\ upload = [c \in Chunks |-> "waiting"]
    /\ previousMax = [c \in Chunks |-> 0]
    /\ segments = {} /\ chapters = <<>> /\ stateEnd = 0
    /\ ordered = TRUE

\* The chapters, the records and the state windows are deleted and rewritten, in
\* one transaction, from the segments "segs".
Materialize(segs, finalize) ==
    /\ chapters' = Chapters(segs, finalize)
    /\ rows' = Generated(segs, Chapters(segs, finalize))
    /\ stateEnd' = LastEnd(segs)

\* should_finalize_summary_first_meeting
Halted == meetingStatus = "stopped" \/ (meetingStatus = "recording" /\ quiet)

\* The recorder starts, pauses and resumes; the web client calls the end of a
\* recording "completed", and only an API client that says "stopped" has the
\* transcript finalized, after the status is committed and unless that fails.
SetStatus(s) ==
    /\ \/ meetingStatus \in {"idle", "paused"} /\ s = "recording"
       \/ meetingStatus = "recording" /\ s = "paused"
       \/ meetingStatus \in {"recording", "paused"} /\ s \in {"completed", "stopped"}
    /\ meetingStatus' = s
    /\ quiet' = FALSE
    /\ \/ s = "stopped" /\ Materialize(segments, TRUE)
       \/ UNCHANGED <<chapters, rows, stateEnd>>
    /\ UNCHANGED <<duration, upload, previousMax, segments, ordered>>

\* A chunk's request reads the meeting and then waits for its transcription. The
\* client sends every chunk as soon as it is cut: requests overlap, arrive late,
\* and the last one races with the end of the meeting. A request whose
\* transcription fails, or whose process stops, takes no further step; the client
\* does not send it again.
BeginTranscription(c) ==
    /\ meetingStatus # "idle"
    /\ upload[c] = "waiting"
    /\ upload' = [upload EXCEPT ![c] = "transcribing"]
    /\ previousMax' = [previousMax EXCEPT ![c] = duration]
    /\ UNCHANGED <<meetingStatus, duration, quiet, segments, chapters, rows, stateEnd, ordered>>

\* should_materialize_after_transcription_chunk
Bucket(t, window) == IF t = 0 THEN 0 ELSE (t - 1) \div window

CrossesWindow(from, to) ==
    /\ to > from
    /\ \/ Bucket(from, StateWindow) # Bucket(to, StateWindow)
       \/ Bucket(from, ChapterWindow) # Bucket(to, ChapterWindow)

\* The segments are committed; then, if the chunk crossed a window boundary, all
\* that is derived from the transcript is rewritten, unless an error (recording
\* the job, or the rewrite itself) ends the request in between.
StoreSegments(c, fails) ==
    LET to == LastEnd(Said[c])
    IN /\ upload[c] = "transcribing"
       /\ upload' = [upload EXCEPT ![c] = "answered"]
       /\ segments' = segments \cup Said[c]
       /\ duration' = Greater(Elapsed[c], to)
       /\ quiet' = FALSE
       /\ ordered' = (ordered /\ \A u \in Said[c], v \in segments :
                                    Start[v] <= Start[u] /\ End[v] <= End[u])
       /\ IF ~fails /\ CrossesWindow(previousMax[c], to)
          THEN Materialize(segments', meetingStatus = "stopped")
          ELSE UNCHANGED <<chapters, rows, stateEnd>>
       /\ previousMax' = [previousMax EXCEPT ![c] = 0]
       /\ UNCHANGED meetingStatus

LatestChapterEnd == IF chapters = <<>> THEN 0 ELSE chapters[Len(chapters)].to

\* should_refresh_summary_first_on_read: a stopped meeting is rewritten only if
\* something is missing, an abandoned recording also if it has grown.
MemoryIsStale ==
    \/ stateEnd = 0 \/ chapters = <<>>
    \/ /\ meetingStatus = "recording"
       /\ duration > 0 /\ stateEnd < duration /\ LatestChapterEnd < duration

\* Somebody opens the meeting.
ReadMemory ==
    /\ Halted /\ MemoryIsStale
    /\ Materialize(segments, TRUE)
    /\ UNCHANGED <<meetingStatus, duration, quiet, upload, previousMax, segments, ordered>>

TimePasses ==
    /\ ~quiet
    /\ quiet' = TRUE
    /\ UNCHANGED <<meetingStatus, duration, upload, previousMax, segments, chapters, rows,
                   stateEnd, ordered>>

MeetingNext ==
    \/ \E s \in {"recording", "paused", "completed", "stopped"} : SetStatus(s)
    \/ \E c \in Chunks : BeginTranscription(c)
    \/ \E c \in Chunks, fails \in BOOLEAN : StoreSegments(c, fails)
    \/ ReadMemory
    \/ TimePasses

PipelineInit == Init /\ MeetingInit
PipelineNext ==
    \/ MeetingNext /\ UNCHANGED ingestVars
    \/ IngestNext /\ UNCHANGED meetingVars
PipelineSpec == PipelineInit /\ [][PipelineNext]_<<rows, ingestVars, meetingVars>>

--------------------------------------------------------------------------------
\* Whatever chunks arrived, late, lost or not, the chapters of a rewrite follow
\* one another without overlap, and no segment that begins before the last one's
\* end is outside them all: a silent window, a boundary moved to a segment's end
\* and a segment across a boundary lose nothing (_build_chapter_summaries).
ChaptersCoverTheTranscript ==
    \A finalize \in BOOLEAN :
        LET built == Chapters(segments, finalize)
        IN /\ \A k \in 1..(Len(built) - 1) : built[k].to <= built[k + 1].from
           /\ \A u \in segments :
                  built # <<>> /\ Start[u] < built[Len(built)].to
                    => \E k \in DOMAIN built : Overlaps(u, built[k].from, built[k].to)

\* An utterance is at most one record at a time, although it may lie in two
\* chapters (dedupe_generated_records_across_chapters).
OneRecordPerUtterance ==
    \A r, s \in rows : r[2] = s[2] => r = s

ProposedTwice ==
    \E p, q \in proposals : p # q /\ p[2][2] = q[2][2]

\* An utterance becomes at most one proposal (ingest.ts and 0015_meeting_promotions
\* say that each candidate is proposed exactly once).
ProposedOnce == ~ProposedTwice

\* As long as the segments arrived in the order in which they begin and end, an
\* utterance becomes at most one proposal, even if the meeting was finalized in
\* between, resumed, and finalized again: its record keeps its id.
ProposedOnceInOrder == ordered => ProposedOnce
================================================================================
