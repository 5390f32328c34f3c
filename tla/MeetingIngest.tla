----------------------------- MODULE MeetingIngest -----------------------------
(* The ingest of a tenant's promoted meeting records into proposals            *)
(* (meeting/ingest.ts). The records belong to the meeting API, which deletes    *)
(* and rewrites them at any time; runs of the ingest overlap and die. What      *)
(* reviewers do with the proposals is in ProposalLifecycle.                     *)
EXTENDS Naturals

CONSTANTS
    Records,      \* ids that the meeting API may give to promoted action items
    Requests,     \* calls of the ingest route
    Allowlisted   \* the calls made for a tenant that is on the allowlist

ASSUME AllowlistedAreRequests == Allowlisted \subseteq Requests

\* A proposal's id is fresh: the call that inserts it and the record tell it apart.
ProposalIds == Requests \X Records

VARIABLES
    rows,        \* the promoted action_items rows now
    ledger,      \* meeting_promotions: pairs of a record and its proposal
    proposals,   \* the proposals inserted so far
    runs,        \* agent_runs rows: "none", "running" or "completed"
    pc,          \* where each call is
    candidates,  \* the rows each call read
    todo         \* the candidates each call has still to go through

ingestVars == <<ledger, proposals, runs, pc, candidates, todo>>

IngestInit ==
    /\ ledger = {}
    /\ proposals = {}
    /\ runs = [i \in Requests |-> "none"]
    /\ pc = [i \in Requests |-> "idle"]
    /\ candidates = [i \in Requests |-> {}]
    /\ todo = [i \in Requests |-> {}]

Ledgered == {entry[1] : entry \in ledger}

\* The run is minted first, whatever there is to propose.
MintRun(i) ==
    /\ pc[i] = "idle"
    /\ runs' = [runs EXCEPT ![i] = "running"]
    /\ pc' = [pc EXCEPT ![i] = IF i \in Allowlisted THEN "reading" ELSE "finishing"]
    /\ UNCHANGED <<rows, ledger, proposals, candidates, todo>>

ReadPromotedCandidates(i) ==
    /\ pc[i] = "reading"
    /\ candidates' = [candidates EXCEPT ![i] = rows]
    /\ pc' = [pc EXCEPT ![i] = IF rows = {} THEN "finishing" ELSE "checking"]
    /\ UNCHANGED <<rows, ledger, proposals, runs, todo>>

\* What an earlier run has recorded is skipped.
ReadLedger(i) ==
    /\ pc[i] = "checking"
    /\ todo' = [todo EXCEPT ![i] = candidates[i] \ Ledgered]
    /\ pc' = [pc EXCEPT ![i] = "proposing"]
    /\ UNCHANGED <<rows, ledger, proposals, runs, candidates>>

\* Mutant: the ledger has no unique index.
ProposeUnguarded(i, r) ==
    /\ pc[i] = "proposing"
    /\ r \in todo[i]
    /\ todo' = [todo EXCEPT ![i] = @ \ {r}]
    /\ proposals' = proposals \cup {<<i, r>>}
    /\ ledger' = ledger \cup {<<r, <<i, r>>>>}
    /\ UNCHANGED <<rows, runs, pc, candidates>>

\* Mutant: the two inserts are transactions of their own.
ProposeSeparately(i, r) ==
    /\ pc[i] = "proposing"
    /\ r \in todo[i]
    /\ todo' = [todo EXCEPT ![i] = @ \ {r}]
    /\ proposals' = proposals \cup {<<i, r>>}
    /\ ledger' = IF r \in Ledgered THEN ledger ELSE ledger \cup {<<r, <<i, r>>>>}
    /\ UNCHANGED <<rows, runs, pc, candidates>>

\* One transaction inserts the proposal and its ledger entry. The ledger's unique
\* index refuses a record that another run has recorded since: both inserts are
\* rolled back and the candidate is counted as a duplicate.
ProposeCandidate(i, r) ==
    /\ pc[i] = "proposing"
    /\ r \in todo[i]
    /\ todo' = [todo EXCEPT ![i] = @ \ {r}]
    /\ \/ /\ r \notin Ledgered
          /\ proposals' = proposals \cup {<<i, r>>}
          /\ ledger' = ledger \cup {<<r, <<i, r>>>>}
       \/ /\ r \in Ledgered
          /\ UNCHANGED <<ledger, proposals>>
    /\ UNCHANGED <<rows, runs, pc, candidates>>

\* Mutant: a run is marked as completed with candidates left.
FinishEarly(i) ==
    /\ pc[i] \in {"finishing", "proposing"}
    /\ runs' = [runs EXCEPT ![i] = "completed"]
    /\ pc' = [pc EXCEPT ![i] = "done"]
    /\ UNCHANGED <<rows, ledger, proposals, candidates, todo>>

FinishRun(i) ==
    /\ \/ pc[i] = "finishing"
       \/ pc[i] = "proposing" /\ todo[i] = {}
    /\ runs' = [runs EXCEPT ![i] = "completed"]
    /\ pc' = [pc EXCEPT ![i] = "done"]
    /\ UNCHANGED <<rows, ledger, proposals, candidates, todo>>

\* A call that dies, or whose statement fails for another reason and throws, takes
\* no further step: what it committed stays, its run remains "running".
IngestNext ==
    \E i \in Requests :
        \/ MintRun(i) \/ ReadPromotedCandidates(i) \/ ReadLedger(i) \/ FinishRun(i)
        \/ \E r \in Records : ProposeCandidate(i, r)

\* The meeting API rewrites its generated rows.
Rematerialize == rows' \in SUBSET Records /\ UNCHANGED ingestVars

Init == rows = {} /\ IngestInit
Next == IngestNext \/ Rematerialize
Spec == Init /\ [][Next]_<<rows, ingestVars>>

--------------------------------------------------------------------------------
IngestTypeOK ==
    /\ rows \subseteq Records
    /\ ledger \subseteq Records \X ProposalIds
    /\ proposals \subseteq ProposalIds
    /\ runs \in [Requests -> {"none", "running", "completed"}]
    /\ pc \in [Requests -> {"idle", "reading", "checking", "proposing", "finishing", "done"}]
    /\ candidates \in [Requests -> SUBSET Records]
    /\ todo \in [Requests -> SUBSET Records]

\* However often the ingest runs, overlaps with itself or dies, and however often
\* the meeting API rewrites its rows in between, one record id becomes at most one
\* proposal (ingest.ts, "exactly once, ever").
OneProposalPerRecord ==
    \A p, q \in proposals : p[2] = q[2] => p = q

\* The ledger and the proposals agree: an entry without its proposal would hide
\* the record for good, a proposal without its entry would be proposed again.
LedgerMatchesProposals == ledger = {<<p[2], p>> : p \in proposals}

\* A run that reports completion has left none of the rows it read without a
\* proposal, the ones that another run was proposing at the same time included.
CompletedRunLeftNothing ==
    \A i \in Requests : runs[i] = "completed" => candidates[i] \subseteq Ledgered
================================================================================
