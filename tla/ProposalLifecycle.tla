------------------------- MODULE ProposalLifecycle -------------------------
(***************************************************************************)
(* The proposal path of platform-api: an agent run drafts a proposal, a    *)
(* human accepts it (write first, flip last), rejects it, or approves it   *)
(* for the command kernel; an accepted update may be undone.               *)
(*                                                                         *)
(* Every SQL call is its own autocommit transaction, so each handler is a  *)
(* request with a step per call and any other request may run in between.  *)
(* A request in MayDie can stop for good at any step: the server crashed   *)
(* or an unexpected error became a 500 (the same thing for the database).  *)
(*                                                                         *)
(* Data is abstracted to one value per payload.  An update patches the one *)
(* field Field[p] of the item Target[p]; the item's other fields stand for *)
(* the columns that the UPDATE statement writes back from its own read.    *)
(***************************************************************************)
EXTENDS Naturals, FiniteSets

CONSTANTS
    Creates,         \* work_item:create proposals
    MemoryCreates,   \* memory:create proposals
    Updates,         \* work_item:update proposals
    Defective,       \* proposals with no run_id or an unsupported operation
    Rationale,       \* proposals whose author gave a rationale
    Teamless,        \* creates whose payload leaves team_id out
    Items, Fields,
    Target, Field,   \* what an update patches
    Values, Payload, \* payload values, and the value each proposal carries
    Bad,             \* a payload value the validation refuses
    None,
    Edits,           \* the values a reviewer may edit a payload to
    Accepts, Undos, Commands, Editors,   \* the requests, by kind
    MayDie           \* the requests that may stop part way

Proposals == Creates \cup MemoryCreates \cup Updates
Made      == Creates \cup MemoryCreates      \* proposals whose accept inserts a row
Requests  == Accepts \cup Undos \cup Commands \cup Editors
Rows      == [Fields -> Values]

ASSUME ConstantsAssumption ==
    /\ Creates \cap MemoryCreates = {} /\ Made \cap Updates = {}
    /\ Accepts \cap Undos = {} /\ (Accepts \cup Undos) \cap Commands = {}
    /\ (Accepts \cup Undos \cup Commands) \cap Editors = {}
    /\ MayDie \subseteq Accepts \cup Undos
    /\ Target \in [Updates -> Items]
    /\ Field \in [Updates -> Fields]
    /\ Payload \in [Proposals -> Values \cup {Bad}]
    /\ Edits \subseteq Values \cup {Bad}
    /\ Bad \notin Values /\ None \notin Values /\ None # Bad
    /\ None \notin Proposals /\ None \notin Rows
    /\ None \notin [pre : Values, applied : Values, undone : BOOLEAN]

VARIABLES
    \* the proposals table
    status,       \* proposals.status ("accepted" also stands for accepted_with_edits)
    snapshot,     \* target_snapshot: the patched field's value when drafted
    edited,       \* edited_payload
    envelope,     \* applied_write.__undo: pre-image, applied value, undone_at
    \* the rows a proposal leads to
    row,          \* the work item (or memory) created from the proposal, unique per proposal
    memo,         \* the memory captured from an accepted work-item proposal
    item,         \* the existing work items
    stamp,        \* run_id stamped on an item: the proposal of that run, or None for a human
    \* the requests: where each one stands, and what it has read
    pc,           \* its next step, or the answer it ended with
    dead,         \* the requests that stopped part way
    on,           \* the proposal it is about
    cur,          \* the whole row that updateWorkItem read
    pay,          \* accept: the payload it applies
    persist,      \* accept: the payload its flip stores in edited_payload
    loaded,       \* accept: edited_payload as loaded
    pre,          \* accept: the pre-image
    fence,        \* undo: the value its UPDATE is fenced on
    patch         \* editor: the item, field and value of a person's PATCH

proposalVars == <<status, snapshot, edited, envelope>>
itemVars     == <<item, stamp>>
readVars     == <<on, cur, pay, persist, loaded, pre, fence, patch>>
vars == <<proposalVars, row, memo, itemVars, pc, dead, readVars>>

Statuses == {"absent", "drafting", "pending", "accepted", "applied", "rejected", "failed"}
Answers  == {"applied", "invalid", "stale", "not_pending", "undone", "conflict", "not_undoable"}
Steps    == {"idle", "fail", "validate", "check", "current", "write", "flip", "lost",
             "compensate", "capture", "mark", "retract", "commit"}

Init ==
    /\ status   = [p \in Proposals |-> "absent"]
    /\ snapshot = [p \in Proposals |-> None]
    /\ edited   = [p \in Proposals |-> None]
    /\ envelope = [p \in Proposals |-> None]
    /\ row      = [p \in Proposals |-> None]
    /\ memo     = [p \in Proposals |-> "none"]
    /\ item \in [Items -> Rows]
    /\ stamp    = [i \in Items |-> None]
    /\ pc       = [q \in Requests |-> "idle"]
    /\ dead     = {}
    /\ on       = [q \in Requests |-> None]
    /\ cur      = [q \in Requests |-> None]
    /\ pay      = [a \in Accepts |-> None]
    /\ persist  = [a \in Accepts |-> None]
    /\ loaded   = [a \in Accepts |-> None]
    /\ pre      = [a \in Accepts |-> None]
    /\ fence    = [u \in Undos |-> None]
    /\ patch    = [e \in Editors |-> None]

At(q, step)   == q \notin dead /\ pc[q] = step
Goto(q, step) == pc' = [pc EXCEPT ![q] = step]     \* an answer is a last step
Running(q)    == pc[q] \notin Answers \cup {"idle"}

(* The value an update patches, as the row holds it. *)
Patched(p) == item[Target[p]][Field[p]]

(* The payload a decision applies: the edit if there is one. *)
Effective(p) == IF edited[p] # None THEN edited[p] ELSE Payload[p]

-----------------------------------------------------------------------------
(* Drafting: read the target's before-image, then insert the proposal.      *)

DraftSnapshot(p) ==
    /\ status[p] = "absent"
    /\ status' = [status EXCEPT ![p] = "drafting"]
    /\ IF p \in Updates
       THEN \E seen \in {Patched(p), None} :     \* a failed read is swallowed
               snapshot' = [snapshot EXCEPT ![p] = seen]
       ELSE UNCHANGED snapshot
    /\ UNCHANGED <<edited, envelope, row, memo, itemVars, pc, dead, readVars>>

DraftInsert(p) ==
    /\ status[p] = "drafting"
    /\ status' = [status EXCEPT ![p] = "pending"]
    /\ UNCHANGED <<snapshot, edited, envelope, row, memo, itemVars, pc, dead, readVars>>

-----------------------------------------------------------------------------
(* applyProposal                                                            *)

(* (1) load and guard pending, (2) structural checks, choose the payload. *)
AcceptLoad(a, p, e) ==
    /\ At(a, "idle")
    /\ status[p] \notin {"absent", "drafting"}
    /\ on' = [on EXCEPT ![a] = p]
    /\ loaded' = [loaded EXCEPT ![a] = edited[p]]
    /\ pay' = [pay EXCEPT ![a] = IF e # None THEN e ELSE Effective(p)]
    /\ persist' = [persist EXCEPT ![a] = e]
    /\ Goto(a, IF status[p] # "pending" THEN "not_pending"
               ELSE IF p \in Defective THEN "fail"
               ELSE IF p \in MemoryCreates THEN "write" ELSE "validate")
    /\ UNCHANGED <<proposalVars, row, memo, itemVars, dead, cur, pre, fence, patch>>

(* failTerminal: the flip is guarded on pending. *)
AcceptFail(a) ==
    LET p == on[a] IN
    /\ At(a, "fail")
    /\ status' = [status EXCEPT ![p] = IF @ = "pending" THEN "failed" ELSE @]
    /\ Goto(a, "invalid")
    /\ UNCHANGED <<snapshot, edited, envelope, row, memo, itemVars, dead, readVars>>

(* (3) accept-time validation of a create; an absent team_id resolves the    *)
(* sole team, which is snapshot, or declines when there is not exactly one.  *)
ValidateCreate(a) ==
    /\ At(a, "validate") /\ on[a] \in Creates
    /\ \/ /\ pay[a] = Bad \/ on[a] \in Teamless
          /\ Goto(a, "invalid")
          /\ UNCHANGED persist
       \/ /\ pay[a] # Bad
          /\ Goto(a, "write")
          /\ persist' = [persist EXCEPT ![a] = IF on[a] \in Teamless THEN pay[a] ELSE @]
    /\ UNCHANGED <<proposalVars, row, memo, itemVars, dead, on, cur, pay, loaded, pre, fence, patch>>

(* (3b) an update with no baseline, or one that does not cover the payload,  *)
(* is declined for refresh; a malformed id is invalid.                       *)
ValidateUpdate(a) ==
    /\ At(a, "validate") /\ on[a] \in Updates
    /\ \/ pay[a] = Bad /\ Goto(a, "invalid")
       \/ (snapshot[on[a]] = None \/ pay[a] = Bad) /\ Goto(a, "stale")
       \/ snapshot[on[a]] # None /\ pay[a] # Bad /\ Goto(a, "check")
    /\ UNCHANGED <<proposalVars, row, memo, itemVars, dead, readVars>>

(* (3b) the fast drift check, which also records the pre-image; a failed     *)
(* read is swallowed and only costs the undo.                                *)
CheckDrift(a) ==
    LET p == on[a] IN
    /\ At(a, "check")
    /\ \/ Patched(p) # snapshot[p] /\ Goto(a, "stale") /\ UNCHANGED pre
       \/ /\ Patched(p) = snapshot[p]
          /\ Goto(a, "current")
          /\ pre' = [pre EXCEPT ![a] = Patched(p)]
       \/ a \in MayDie /\ Goto(a, "current") /\ UNCHANGED pre
    /\ UNCHANGED <<proposalVars, row, memo, itemVars, dead, on, cur, pay, persist, loaded, fence, patch>>

(* (4) updateWorkItem, for an accept, a command or an undo, reads the whole  *)
(* row ...                                                                   *)
ReadCurrent(q, step) ==
    /\ At(q, "current")
    /\ cur' = [cur EXCEPT ![q] = item[Target[on[q]]]]
    /\ Goto(q, step)
    /\ UNCHANGED <<proposalVars, row, memo, itemVars, dead, on, pay, persist, loaded, pre, fence, patch>>

(* ... and one UPDATE, which its caller fences, writes every column back.    *)
UpdateRow(q, value, by) ==
    LET p == on[q] IN
    /\ item' = [item EXCEPT ![Target[p]] = [cur[q] EXCEPT ![Field[p]] = value]]
    /\ stamp' = [stamp EXCEPT ![Target[p]] = by]

\* Mutant: the UPDATE trusts the drift check and has no fence.
WriteUpdateUnfenced(a) ==
    /\ At(a, "write") /\ on[a] \in Updates
    /\ UpdateRow(a, pay[a], on[a])
    /\ Goto(a, "flip")
    /\ UNCHANGED <<proposalVars, row, memo, dead, readVars>>

WriteUpdate(a) ==
    LET p == on[a] IN
    /\ At(a, "write") /\ p \in Updates
    /\ IF Patched(p) = snapshot[p]
       THEN UpdateRow(a, pay[a], p) /\ Goto(a, "flip")
       ELSE UNCHANGED itemVars /\ Goto(a, "stale")
    /\ UNCHANGED <<proposalVars, row, memo, dead, readVars>>

(* The insert converges on the row an earlier drive made: the unique index   *)
(* on applied_from_proposal_id, or on memories.source_proposal_id.  A memory *)
(* payload is parsed only after that lookup.                                 *)
WriteCreate(a) ==
    LET p == on[a] IN
    /\ At(a, "write") /\ p \in Made
    /\ IF row[p] = None /\ pay[a] = Bad
       THEN Goto(a, "invalid") /\ UNCHANGED row
       ELSE Goto(a, "flip") /\ row' = [row EXCEPT ![p] = IF @ = None THEN pay[a] ELSE @]
    /\ UNCHANGED <<proposalVars, memo, itemVars, dead, readVars>>

(* A domain rule or a data error refuses the write: nothing is written.      *)
WriteRefused(a) ==
    /\ At(a, "current") \/ At(a, "write")
    /\ ~ (on[a] \in MemoryCreates /\ row[on[a]] # None)
    /\ Goto(a, "invalid")
    /\ UNCHANGED <<proposalVars, row, memo, itemVars, dead, readVars>>

\* Mutant: nobody looks whether the guarded flip matched a row.
FlipUnread(a) ==
    LET p == on[a] IN
    /\ At(a, "flip")
    /\ status' = [status EXCEPT ![p] = IF @ = "pending" THEN "applied" ELSE @]
    /\ Goto(a, "capture")
    /\ UNCHANGED <<snapshot, edited, envelope, row, memo, itemVars, dead, readVars>>

(* (5) flip last. *)
Flip(a) ==
    LET p == on[a] IN
    /\ At(a, "flip")
    /\ IF status[p] = "pending"
       THEN /\ status' = [status EXCEPT ![p] = "applied"]
            /\ edited' = [edited EXCEPT ![p] = IF persist[a] = None THEN @ ELSE persist[a]]
            /\ envelope' = [envelope EXCEPT ![p] =
                 IF pre[a] = None THEN @
                 ELSE [pre |-> pre[a], applied |-> pay[a], undone |-> FALSE]]
            /\ Goto(a, "capture")
       ELSE Goto(a, "lost") /\ UNCHANGED <<status, edited, envelope>>
    /\ UNCHANGED <<snapshot, row, memo, itemVars, dead, readVars>>

\* Mutant: the loser of any decision deletes the row.
LostDeletes(a) ==
    /\ At(a, "lost")
    /\ Goto(a, IF on[a] \in Made THEN "compensate" ELSE "not_pending")
    /\ UNCHANGED <<proposalVars, row, memo, itemVars, dead, readVars>>

\* Mutant: a failed proposal is compensated, a rejected one is forgotten.
LostKeeps(a) ==
    /\ At(a, "lost")
    /\ Goto(a, IF on[a] \in Made /\ status[on[a]] = "failed"
               THEN "compensate" ELSE "not_pending")
    /\ UNCHANGED <<proposalVars, row, memo, itemVars, dead, readVars>>

(* The flip was lost: re-read who decided, and compensate a create that a    *)
(* rejection beat.                                                           *)
Lost(a) ==
    /\ At(a, "lost")
    /\ Goto(a, IF on[a] \in Made /\ status[on[a]] \in {"rejected", "failed"}
               THEN "compensate" ELSE "not_pending")
    /\ UNCHANGED <<proposalVars, row, memo, itemVars, dead, readVars>>

Compensate(a) ==
    /\ At(a, "compensate")
    /\ row' = [row EXCEPT ![on[a]] = None]
    /\ Goto(a, "not_pending")
    /\ UNCHANGED <<proposalVars, memo, itemVars, dead, readVars>>

(* Capture-on-accept.  shouldCapture sees the proposal as step (1) loaded    *)
(* it.  Best effort: it may fail without failing the accept.                 *)
ShouldCapture(a) ==
    /\ on[a] \notin MemoryCreates
    /\ on[a] \in Rationale \/ loaded[a] # None

Capture(a) ==
    LET p == on[a] IN
    /\ At(a, "capture")
    /\ \/ ShouldCapture(a) /\ memo[p] = "none" /\ memo' = [memo EXCEPT ![p] = "active"]
       \/ (~ShouldCapture(a) \/ memo[p] # "none" \/ a \in MayDie) /\ UNCHANGED memo
    /\ Goto(a, "applied")
    /\ UNCHANGED <<proposalVars, row, itemVars, dead, readVars>>

AcceptStep(a) ==
    \/ AcceptFail(a) \/ ValidateCreate(a) \/ ValidateUpdate(a) \/ CheckDrift(a)
    \/ ReadCurrent(a, "write") \/ WriteUpdate(a) \/ WriteCreate(a) \/ WriteRefused(a)
    \/ Flip(a) \/ Lost(a) \/ Compensate(a) \/ Capture(a)

-----------------------------------------------------------------------------
(* The other deciders.                                                      *)

\* Mutant: the rejection is not guarded on pending.
RejectDecided(p) ==
    /\ status[p] \notin {"absent", "drafting"}
    /\ status' = [status EXCEPT ![p] = "rejected"]
    /\ UNCHANGED <<snapshot, edited, envelope, row, memo, itemVars, pc, dead, readVars>>

Reject(p) ==
    /\ status[p] = "pending"
    /\ status' = [status EXCEPT ![p] = "rejected"]
    /\ UNCHANGED <<snapshot, edited, envelope, row, memo, itemVars, pc, dead, readVars>>

(* approve-command stores the decision and runs nothing. *)
Approve(p, e) ==
    /\ status[p] = "pending"
    /\ p \notin MemoryCreates \cup Defective
    /\ status' = [status EXCEPT ![p] = "accepted"]
    /\ edited' = [edited EXCEPT ![p] = e]
    /\ UNCHANGED <<snapshot, envelope, row, memo, itemVars, pc, dead, readVars>>

(* proposal.apply: load the approved proposal; an update's snapshot must     *)
(* cover the payload.                                                        *)
CommandLoad(c, p) ==
    /\ At(c, "idle")
    /\ status[p] = "accepted"
    /\ on' = [on EXCEPT ![c] = p]
    /\ Goto(c, IF p \in Creates THEN "commit"
               ELSE IF snapshot[p] = None \/ Effective(p) = Bad THEN "conflict"
               ELSE "current")
    /\ UNCHANGED <<proposalVars, row, memo, itemVars, dead, cur, pay, persist, loaded, pre, fence, patch>>

(* One transaction: the domain write, the flip accepted -> applied and the   *)
(* ledger rows commit together or not at all.  No undo envelope is written.  *)
CommandCommit(c) ==
    LET p == on[c] IN
    /\ At(c, "commit")
    /\ status[p] = "accepted"
    /\ \/ /\ p \in Creates /\ row[p] = None /\ Effective(p) # Bad
          /\ row' = [row EXCEPT ![p] = Effective(p)]
          /\ UNCHANGED itemVars
       \/ /\ p \in Updates /\ Patched(p) = snapshot[p]
          /\ UpdateRow(c, Effective(p), p)
          /\ UNCHANGED row
    /\ status' = [status EXCEPT ![p] = "applied"]
    /\ Goto(c, "applied")
    /\ UNCHANGED <<snapshot, edited, envelope, memo, dead, readVars>>

(* The transaction aborts: the duplicate row, the lost fence or the lost     *)
(* flip, or a domain rule.                                                   *)
CommandAborts(c) ==
    /\ At(c, "commit")
    /\ Goto(c, "conflict")
    /\ UNCHANGED <<proposalVars, row, memo, itemVars, dead, readVars>>

(* A person's unfenced PATCH of one field: read the row, write every column; *)
(* the editor may come back with another.                                    *)
EditRead(e, i, f, v) ==
    /\ At(e, "idle")
    /\ cur' = [cur EXCEPT ![e] = item[i]]
    /\ patch' = [patch EXCEPT ![e] = <<i, f, v>>]
    /\ Goto(e, "write")
    /\ UNCHANGED <<proposalVars, row, memo, itemVars, dead, on, pay, persist, loaded, pre, fence>>

EditWrite(e) ==
    LET i == patch[e][1] IN
    /\ At(e, "write")
    /\ item' = [item EXCEPT ![i] = [cur[e] EXCEPT ![patch[e][2]] = patch[e][3]]]
    /\ stamp' = [stamp EXCEPT ![i] = None]
    /\ Goto(e, "idle")
    /\ UNCHANGED <<proposalVars, row, memo, dead, readVars>>

-----------------------------------------------------------------------------
(* undoProposal                                                             *)

(* (1) load and eligibility. *)
UndoLoad(u, p) ==
    /\ At(u, "idle")
    /\ status[p] \notin {"absent", "drafting"}
    /\ on' = [on EXCEPT ![u] = p]
    /\ Goto(u, IF p \notin Updates THEN "not_undoable"
               ELSE IF status[p] # "applied" THEN "conflict"
               ELSE IF envelope[p] = None THEN "not_undoable"
               ELSE IF envelope[p].undone THEN "conflict" ELSE "check")
    /\ UNCHANGED <<proposalVars, row, memo, itemVars, dead, cur, pay, persist, loaded, pre, fence, patch>>

(* (2) the item must still hold what the accept applied; what was read here  *)
(* becomes the fence.                                                        *)
UndoCheck(u) ==
    LET p == on[u] IN
    /\ At(u, "check")
    /\ IF Patched(p) = envelope[p].applied
       THEN Goto(u, "current") /\ fence' = [fence EXCEPT ![u] = Patched(p)]
       ELSE Goto(u, "conflict") /\ UNCHANGED fence
    /\ UNCHANGED <<proposalVars, row, memo, itemVars, dead, on, cur, pay, persist, loaded, pre, patch>>

\* Mutant: the restore trusts the eligibility read and has no fence.
UndoWriteUnfenced(u) ==
    /\ At(u, "write")
    /\ UpdateRow(u, envelope[on[u]].pre, None)
    /\ Goto(u, "mark")
    /\ UNCHANGED <<proposalVars, row, memo, dead, readVars>>

(* (3) write the pre-image back through the fenced UPDATE. *)
UndoWrite(u) ==
    LET p == on[u] IN
    /\ At(u, "write")
    /\ IF Patched(p) = fence[u]
       THEN UpdateRow(u, envelope[p].pre, None) /\ Goto(u, "mark")
       ELSE UNCHANGED itemVars /\ Goto(u, "conflict")
    /\ UNCHANGED <<proposalVars, row, memo, dead, readVars>>

(* (4) mark last, guarded on not yet undone. *)
UndoMark(u) ==
    LET p == on[u] IN
    /\ At(u, "mark")
    /\ IF status[p] = "applied" /\ ~envelope[p].undone
       THEN Goto(u, "retract") /\ envelope' = [envelope EXCEPT ![p] = [@ EXCEPT !.undone = TRUE]]
       ELSE Goto(u, "conflict") /\ UNCHANGED envelope
    /\ UNCHANGED <<status, snapshot, edited, row, memo, itemVars, dead, readVars>>

(* Retract the captured memory, best effort. *)
UndoRetract(u) ==
    LET p == on[u] IN
    /\ At(u, "retract")
    /\ \/ memo[p] = "active" /\ memo' = [memo EXCEPT ![p] = "retracted"]
       \/ (memo[p] # "active" \/ u \in MayDie) /\ UNCHANGED memo
    /\ Goto(u, "undone")
    /\ UNCHANGED <<proposalVars, row, itemVars, dead, readVars>>

UndoStep(u) ==
    \/ UndoCheck(u) \/ ReadCurrent(u, "write") \/ UndoWrite(u) \/ UndoMark(u) \/ UndoRetract(u)

-----------------------------------------------------------------------------
(* The process stops, or an unexpected error ends the request with a 500.    *)
Dies(q) ==
    /\ q \in MayDie \ dead
    /\ Running(q)
    /\ dead' = dead \cup {q}
    /\ UNCHANGED <<proposalVars, row, memo, itemVars, pc, readVars>>

ProposalNext(p) ==
    \/ DraftSnapshot(p) \/ DraftInsert(p) \/ Reject(p)
    \/ \E e \in Edits \cup {None} : Approve(p, e)

AcceptNext(a) ==
    \/ \E p \in Proposals, e \in Edits \cup {None} : AcceptLoad(a, p, e)
    \/ AcceptStep(a)

CommandNext(c) ==
    \/ \E p \in Proposals : CommandLoad(c, p)
    \/ ReadCurrent(c, "commit") \/ CommandCommit(c) \/ CommandAborts(c)

EditNext(e) ==
    \/ \E i \in Items, f \in Fields, v \in Values : EditRead(e, i, f, v)
    \/ EditWrite(e)

UndoNext(u) == (\E p \in Proposals : UndoLoad(u, p)) \/ UndoStep(u)

Next ==
    \/ \E p \in Proposals : ProposalNext(p)
    \/ \E a \in Accepts : AcceptNext(a)
    \/ \E c \in Commands : CommandNext(c)
    \/ \E e \in Editors : EditNext(e)
    \/ \E u \in Undos : UndoNext(u)
    \/ \E q \in MayDie : Dies(q)

Spec == Init /\ [][Next]_vars

(* A request that was started runs on until it answers or dies. *)
Fairness == \A a \in Accepts : WF_vars(AcceptStep(a))

FairSpec == Spec /\ Fairness

-----------------------------------------------------------------------------
Envelopes == [pre : Values, applied : Values, undone : BOOLEAN]

(* Every variable has its type: statuses, payloads, rows and the step of     *)
(* every request.                                                            *)
TypeOK ==
    /\ status \in [Proposals -> Statuses]
    /\ snapshot \in [Proposals -> Values \cup {None}]
    /\ edited \in [Proposals -> Values \cup {Bad, None}]
    /\ envelope \in [Proposals -> Envelopes \cup {None}]
    /\ row \in [Proposals -> Values \cup {None}]
    /\ memo \in [Proposals -> {"none", "active", "retracted"}]
    /\ item \in [Items -> Rows]
    /\ stamp \in [Items -> Updates \cup {None}]
    /\ pc \in [Requests -> Steps \cup Answers]
    /\ dead \subseteq MayDie
    /\ on \in [Requests -> Proposals \cup {None}]
    /\ cur \in [Requests -> Rows \cup {None}]
    /\ pay \in [Accepts -> Values \cup {Bad, None}]
    /\ persist \in [Accepts -> Values \cup {Bad, None}]
    /\ loaded \in [Accepts -> Values \cup {Bad, None}]
    /\ pre \in [Accepts -> Values \cup {None}]
    /\ fence \in [Undos -> Values \cup {None}]
    /\ patch \in [Editors -> (Items \X Fields \X Values) \cup {None}]

-----------------------------------------------------------------------------
(* Safety.                                                                  *)

(* "Applied without a row" is unreachable: whatever accepts, rejections,     *)
(* commands, crashes and compensations interleave, an applied create has its *)
(* row (the doc comment of applyProposal).                                   *)
AppliedCreateHasRow ==
    \A p \in Made : status[p] = "applied" => row[p] # None

(* A row left by a declined create belongs to a drive that wrote it and has  *)
(* not yet compensated (or died before it could): the human's no wins.       *)
Unsettled(a, p) == on[a] = p /\ pc[a] \in {"flip", "lost", "compensate"}

DeclinedRowIsOwned ==
    \A p \in Made :
        status[p] \in {"rejected", "failed"} /\ row[p] # None
            => \E a \in Accepts : Unsettled(a, p)

(* Exactly once: of all the accepts and commands on a proposal at most one   *)
(* is told it applied it, and then the proposal is applied (the guarded flip *)
(* of applyProposal against that of proposal.apply).                         *)
Winner(q) == pc[q] \in {"capture", "applied"}

OneWinner ==
    \A q \in Accepts \cup Commands : Winner(q) =>
        /\ status[on[q]] = "applied"
        /\ \A r \in Accepts \cup Commands : Winner(r) /\ on[r] = on[q] => r = q

(* Only an applied proposal leaves a captured memory: a drive that lost its  *)
(* flip, or whose proposal was rejected, never does.                         *)
MemoryOnlyIfApplied ==
    \A p \in Proposals : memo[p] # "none" => status[p] = "applied"

(* An agent's write, by accept or by command, only ever overwrites the value *)
(* its proposal was authored against, however the checks and the writes of   *)
(* other requests interleave (the fence inside the UPDATE).                  *)
AgentOverwritesOnlyBaseline ==
    [][\A p \in Updates :
          stamp'[Target[p]] = p /\ item'[Target[p]] # item[Target[p]]
              => Patched(p) = snapshot[p]]_vars

(* An undo only ever reverses the value the accept applied, and puts back    *)
(* the value the proposal was authored against.                              *)
UndoLands(u) == pc[u] = "write" /\ pc'[u] = "mark"

UndoReversesOnlyTheAccept ==
    [][\A u \in Undos : UndoLands(u) =>
          /\ Patched(on[u]) = envelope[on[u]].applied
          /\ Patched(on[u])' = snapshot[on[u]]]_vars

(* Liveness: once a create is rejected its row is gone for good, though      *)
(* drives that loaded it while pending are still writing; only a drive that  *)
(* died on the proposal may leave a row behind.                              *)
RejectionWins ==
    \A p \in Made :
        (status[p] = "rejected") ~> \/ [](row[p] = None)
                                   \/ \E a \in Accepts \cap dead : on[a] = p

-----------------------------------------------------------------------------
(* What the requests and tables above amount to, seen as one decision.      *)

DecisionOf(p) ==
    IF status[p] = "drafting" THEN "absent"
    ELSE IF status[p] \in {"rejected", "failed"} THEN "declined"
    ELSE status[p]

Appliers == Accepts \cup Commands

AbsDecision == [p \in Proposals |-> DecisionOf(p)]
AbsWinners  == [p \in Proposals |-> {q \in Appliers : Winner(q) /\ on[q] = p}]
AbsMade     == {p \in Made : row[p] # None}

Decision == INSTANCE ProposalDecision WITH
    decision <- AbsDecision, winners <- AbsWinners, made <- AbsMade

(* Every interleaving of accepts, commands, rejections, crashes and undos is *)
(* a run of the abstract decision: decided once, applied by one request over *)
(* an existing row, and the row withdrawn only after a decline.              *)
ImplementsDecision == Decision!Spec

-----------------------------------------------------------------------------
(* What a request knows at each step: the strengthening that makes TypeOK    *)
(* and the invariants above inductive.                                       *)

AcceptKnows(a) ==
    /\ pc[a] # "idle" =>
          /\ on[a] \in Proposals
          /\ status[on[a]] \notin {"absent", "drafting"}
          /\ pay[a] \in Values \cup {Bad}
    /\ pc[a] = "validate" => on[a] \in Creates \cup Updates
    /\ pc[a] \in {"check", "current"} => on[a] \in Updates
    /\ pc[a] \in {"check", "current", "write", "flip"} /\ on[a] \in Creates \cup Updates
          => pay[a] \in Values
    /\ pc[a] = "write" /\ on[a] \in Updates => cur[a] \in Rows
    /\ pre[a] # None => pc[a] # "idle" /\ on[a] \in Updates /\ pre[a] = snapshot[on[a]]

UndoKnows(u) ==
    /\ pc[u] \in {"check", "current", "write", "mark", "retract"} =>
          on[u] \in Updates /\ envelope[on[u]] \in Envelopes
    /\ pc[u] \in {"current", "write"} => fence[u] = envelope[on[u]].applied
    /\ pc[u] = "write" => cur[u] \in Rows

CommandKnows(c) ==
    /\ pc[c] \in {"current", "commit", "applied"} =>
          on[c] \in Creates \cup Updates /\ status[on[c]] \in {"accepted", "applied"}
    /\ pc[c] = "current" => on[c] \in Updates
    /\ pc[c] \in {"current", "commit"} /\ on[c] \in Updates => Effective(on[c]) \in Values
    /\ pc[c] = "commit" /\ on[c] \in Updates => cur[c] \in Rows

EditorKnows(e) ==
    pc[e] = "write" => patch[e] \in Items \X Fields \X Values /\ cur[e] \in Rows

EnvelopeKnows(p) ==
    envelope[p] # None => /\ p \in Updates /\ status[p] = "applied"
                          /\ envelope[p].pre = snapshot[p]

RequestsKnow ==
    /\ \A a \in Accepts : AcceptKnows(a)
    /\ \A u \in Undos : UndoKnows(u)
    /\ \A c \in Commands : CommandKnows(c)
    /\ \A e \in Editors : EditorKnows(e)
    /\ \A p \in Proposals : EnvelopeKnows(p)
    /\ \A p \in MemoryCreates : status[p] # "accepted"

-----------------------------------------------------------------------------
(* What comments of the code say and the code does not do.                  *)

UpdateLands(a) == pc[a] = "write" /\ on[a] \in Updates /\ pc'[a] = "flip"

(* A losing concurrent accept is harmless: it never writes an update again   *)
(* after a human undid it (apply.ts, step 5 of the comment on applyProposal).*)
UndoneIsNotReapplied ==
    [][\A a \in Accepts : UpdateLands(a) =>
          envelope[on[a]] = None \/ ~envelope[on[a]].undone]_vars

(* The fenced accept does not write over somebody's later edit, of any field *)
(* (apply.ts, step 4 of that comment).                                       *)
OtherFieldsSurvive ==
    [][\A a \in Accepts : UpdateLands(a) =>
          LET p == on[a] IN
          \A f \in Fields \ {Field[p]} : item'[Target[p]][f] = item[Target[p]][f]]_vars

(* "Someone changed <field> since this was proposed": the last writer of the *)
(* item is not the proposal's own run (driftMessage).                        *)
DriftIsSomeoneElses ==
    [][\A a \in Accepts : pc[a] = "check" /\ pc'[a] = "stale"
          => stamp[Target[on[a]]] # on[a]]_vars

(* Approving stores the decision without executing the proposal: once no     *)
(* accept is running, a proposal that is only accepted has no row, and so    *)
(* proposal.apply can still insert it (approveProposalForCommand).           *)
ApprovedIsNotExecuted ==
    \A p \in Creates :
        status[p] = "accepted" /\ (\A a \in Accepts : on[a] = p => ~Running(a))
            => row[p] = None

(* The row of an applied create is what the human decided on: the edited     *)
(* payload if there is one.                                                  *)
AppliedRowIsTheDecision ==
    \A p \in Made : status[p] = "applied" => row[p] = Effective(p)

(* Once an undone update's requests are over, its captured memory is not     *)
(* active (undoProposal).                                                    *)
UndoneMemoryIsRetracted ==
    \A p \in Updates :
        /\ envelope[p] # None /\ envelope[p].undone
        /\ \A q \in Accepts \cup Undos : on[q] = p => ~Running(q)
        => memo[p] # "active"

(* An accept the reviewer edited is remembered even without a rationale      *)
(* (shouldCapture).                                                          *)
EditedAcceptIsCaptured ==
    \A a \in Accepts :
        pc[a] = "applied" /\ persist[a] # None /\ on[a] \in Creates \ Teamless
            => memo[on[a]] # "none"

=============================================================================
