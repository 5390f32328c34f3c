---------------------------- MODULE MeetingChapters ----------------------------
(* How the meeting API turns the segments of a transcript into chapters and    *)
(* records (server.py, _build_chapter_summaries and its helpers). Seconds are  *)
(* integers; a segment is the utterance it transcribes, with its own text.     *)
EXTENDS Integers, Sequences, FiniteSetsExt

CONSTANTS
    Utterances,      \* what is said in the meeting and transcribed
    Start, End,      \* [Utterances -> Nat]: when, in the server's timestamps
    Words,           \* [Utterances -> Nat]: how many words
    Actionable,      \* the utterances of the form "<somebody> will <do something>"
    ChapterWindow,   \* SUMMARY_FIRST_CHAPTER_WINDOW_SECONDS
    MinChapter,      \* MIN_CHAPTER_WINDOW_SECONDS
    MaxChapter,      \* MAX_CHAPTER_WINDOW_SECONDS
    Adjustment,      \* BOUNDARY_ADJUSTMENT_SECONDS
    MinSegments,     \* MIN_PARTIAL_WINDOW_SEGMENTS
    MinWords         \* MIN_PARTIAL_WINDOW_WORDS

ASSUME TimesAreSeconds ==
    /\ Start \in [Utterances -> Nat] /\ End \in [Utterances -> Nat]
    /\ Words \in [Utterances -> Nat]
    /\ \A u \in Utterances : Start[u] < End[u]
    /\ IsFiniteSet(Utterances) /\ Actionable \subseteq Utterances
    /\ {ChapterWindow, MinChapter, MaxChapter, Adjustment} \subseteq Nat
    /\ 0 < MinChapter /\ MinChapter <= ChapterWindow /\ ChapterWindow <= MaxChapter
    /\ Adjustment < ChapterWindow

Lesser(a, b)   == IF a <= b THEN a ELSE b
Greater(a, b)  == IF a >= b THEN a ELSE b
Distance(a, b) == IF a >= b THEN a - b ELSE b - a

\* The end of the last segment, 0 for none.
LastEnd(segs) == IF segs = {} THEN 0 ELSE Max({End[u] : u \in segs})

\* Mutant: a segment across a boundary is in neither chapter.
OverlapsWhole(u, from, to) == Start[u] >= from /\ End[u] <= to

Overlaps(u, from, to) == Start[u] < to /\ End[u] > from

\* A final window shorter than the nominal one is kept only if it has substance.
KeepPartial(segs) ==
    Cardinality(segs) >= MinSegments /\ MapThenSumSet(LAMBDA u : Words[u], segs) >= MinWords

\* The length of a chapter that the meeting's end does not cut is kept in bounds.
Clamp(from, to, ended) ==
    IF ended THEN to ELSE Lesser(Greater(to, from + MinChapter), from + MaxChapter)

\* A chapter ends with the segment that ends nearest to its nominal end, and of
\* two equally near with the earlier.
Boundary(segs, from, target, ended) ==
    LET near == {End[u] : u \in {v \in segs : Distance(End[v], target) <= Adjustment}}
        best == {e \in near : \A f \in near : Distance(e, target) <= Distance(f, target)}
    IN Clamp(from, IF near = {} THEN target ELSE Min(best), ended)

\* The meeting ends in the window that begins at the second "from".
Ended(segs, from, finalize) == finalize /\ from + ChapterWindow >= LastEnd(segs)

WindowEnd(segs, from, finalize) ==
    Lesser(Boundary(segs, from, Lesser(from + ChapterWindow, LastEnd(segs)),
                    Ended(segs, from, finalize)),
           LastEnd(segs))

SaidIn(segs, from, finalize) ==
    {u \in segs : Overlaps(u, from, WindowEnd(segs, from, finalize))}

\* The loop ends with the transcript; without finalize, at a window that is not
\* full yet; with it, at a last window of no substance.
Breaks(segs, from, finalize) ==
    \/ from >= LastEnd(segs)
    \/ from + ChapterWindow > LastEnd(segs) /\ ~finalize
    \/ /\ Ended(segs, from, finalize) /\ SaidIn(segs, from, finalize) # {}
       /\ ~KeepPartial(SaidIn(segs, from, finalize))

\* One turn of the loop: where the next window begins, and what is built. A window
\* nobody spoke in is skipped and takes no index.
Turn(segs, finalize, loop) ==
    LET to == WindowEnd(segs, loop.from, finalize)
    IN IF Breaks(segs, loop.from, finalize) THEN loop
       ELSE IF SaidIn(segs, loop.from, finalize) = {}
       THEN [loop EXCEPT !.from = Greater(to, loop.from + ChapterWindow)]
       ELSE [from |-> to, built |-> Append(loop.built,
                [index |-> Len(loop.built), from |-> loop.from, to |-> to])]

\* The loop, as its state after any number of turns; once it has ended, they change
\* nothing.
Loop(segs, finalize) ==
    LET turned[n \in Nat] == IF n = 0 THEN [from |-> 0, built |-> <<>>]
                             ELSE Turn(segs, finalize, turned[n - 1])
    IN turned

\* A turn gets at least the shortest chapter further, or to the end.
Chapters(segs, finalize) ==
    Loop(segs, finalize)[LastEnd(segs) \div MinChapter + 1].built

\* Every chapter drafts a record for each actionable utterance it overlaps; the
\* record's id is made of the chapter's index and the text.
Drafts(segs, chapters) ==
    UNION {{<<chapters[k].index, u>> : u \in {v \in segs \cap Actionable :
                                    Overlaps(v, chapters[k].from, chapters[k].to)}}
             : k \in DOMAIN chapters}

\* Mutants: both drafts stay, or the last one does.
DeduplicatedNever(drafts) == drafts
DeduplicatedLast(drafts) ==
    {r \in drafts : \A other \in drafts : other[2] = r[2] => other[1] <= r[1]}

\* An utterance across a boundary is drafted twice: the first chapter's draft stays.
Deduplicated(drafts) ==
    {r \in drafts : \A other \in drafts : other[2] = r[2] => r[1] <= other[1]}

Generated(segs, chapters) == Deduplicated(Drafts(segs, chapters))
================================================================================
