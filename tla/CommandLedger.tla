---------------------------- MODULE CommandLedger ----------------------------
(***************************************************************************)
(* The command kernel's idempotency ledger: commands that create a work    *)
(* item, update one, or apply an approved proposal to it, each sent under  *)
(* an idempotency key and perhaps more than once, while people edit the    *)
(* item without commands.                                                  *)
(*                                                                         *)
(* A try looks its key up, checks its request against the item or the      *)
(* proposal, reads the item, and then commits the write, the ledger row    *)
(* and the audit event in one transaction.  Other tries and edits run      *)
(* between any two of these.                                               *)
(***************************************************************************)
EXTENDS Naturals, FiniteSets

CONSTANTS
    Tries,      \* executions of requests; retries are tries of the same request
    Asks,       \* the requests that are sent
    Ids,        \* x-request-id headers
    Values,     \* what a patched field of the item may hold
    Snapshot,   \* the value the proposal was authored against
    Payload,    \* the value it writes
    Scope(_),   \* the actor, command and key of a request
    MaxVersion  \* bound: the item's highest version

Versions == 1 .. MaxVersion
Commands == {"create", "update", "apply"}
Kinds    == {"none", "ok", "conflict", "idempotency_conflict", "approval_required", "failed"}
Answer   == [kind : Kinds, version : 0 .. MaxVersion]

ASSUME LedgerAssumption ==
    /\ MaxVersion \in Nat \ {0}
    /\ \A q \in Asks : q.cmd \in Commands /\ q.body \in Values /\ q.at \in Nat
    /\ Snapshot \in Values /\ Payload \in Values

VARIABLES
    item,      \* work_items: the version and the patched field of the item
    proposal,  \* proposals.status
    ledger,    \* command_idempotency, with the audit event of each row
    effects,   \* history: how often a request's write was committed (at most 2)
    pc,        \* the next step of a try
    ask, id,   \* its request and its x-request-id
    saw,       \* the version it read from the item
    answer     \* what it was told

vars == <<item, proposal, ledger, effects, pc, ask, id, saw, answer>>

Init ==
    /\ item \in [version : {1}, value : Values]
    /\ proposal = "pending" /\ ledger = {}
    /\ effects = [q \in Asks |-> 0]
    /\ pc = [t \in Tries |-> "idle"]
    /\ ask \in [Tries -> Asks] /\ id \in [Tries -> Ids]
    /\ saw = [t \in Tries |-> 1]
    /\ answer = [t \in Tries |-> [kind |-> "none", version |-> 0]]

-----------------------------------------------------------------------------
Goto(t, step) == pc' = [pc EXCEPT ![t] = step]

Tell(t, kind, version) ==
    /\ Goto(t, "done")
    /\ answer' = [answer EXCEPT ![t] = [kind |-> kind, version |-> version]]

(* The ledger rows under the key of request q. *)
Entries(q) == {e \in ledger : Scope(e.ask) = Scope(q)}

\* Mutant: a used key is replayed whatever its request was.
ReplayAny(t, otherwise) ==
    IF Entries(ask[t]) = {} THEN Goto(t, otherwise) /\ UNCHANGED answer
    ELSE \E e \in Entries(ask[t]) : Tell(t, "ok", e.version)

(* findCommandReplay, and what execute makes of it. *)
Replay(t, otherwise) ==
    IF Entries(ask[t]) = {} THEN Goto(t, otherwise) /\ UNCHANGED answer
    ELSE \E e \in Entries(ask[t]) :
            IF e.ask = ask[t] THEN Tell(t, "ok", e.version)
            ELSE Tell(t, "idempotency_conflict", 0)

FindReplay(t) ==
    /\ pc[t] = "idle"
    /\ Replay(t, IF ask[t].cmd = "create" THEN "commit" ELSE "normalize")
    /\ UNCHANGED <<item, proposal, ledger, effects, ask, id, saw>>

(* The request must name the item's version, or an approved proposal. *)
Normalize(t) ==
    /\ pc[t] = "normalize"
    /\ IF ask[t].cmd = "update"
       THEN IF item.version = ask[t].at THEN Goto(t, "read") /\ UNCHANGED answer
            ELSE Tell(t, "conflict", 0)
       ELSE IF proposal = "accepted" THEN Goto(t, "reload") /\ UNCHANGED answer
            ELSE Tell(t, "approval_required", 0)
    /\ UNCHANGED <<item, proposal, ledger, effects, ask, id, saw>>

(* applyProposal loads the proposal again. *)
Reload(t) ==
    /\ pc[t] = "reload"
    /\ IF proposal = "accepted" THEN Goto(t, "read") /\ UNCHANGED answer
       ELSE Tell(t, "failed", 0)
    /\ UNCHANGED <<item, proposal, ledger, effects, ask, id, saw>>

(* updateWorkItem reads the row it is going to write. *)
Read(t) ==
    /\ pc[t] = "read"
    /\ saw' = [saw EXCEPT ![t] = item.version]
    /\ Goto(t, "commit")
    /\ UNCHANGED <<item, proposal, ledger, effects, ask, id, answer>>

-----------------------------------------------------------------------------
(* The transaction.                                                         *)

(* What the write is conditioned on: the version, or the values it expects. *)
Matches(t) ==
    /\ ask[t].cmd = "update" => item.version = ask[t].at
    /\ ask[t].cmd = "apply"  => item.value = Snapshot

\* Mutant: an applied proposal can be flipped again.
FlipsAny(t) == ask[t].cmd = "apply" => proposal # "pending"

Flips(t) == ask[t].cmd = "apply" => proposal = "accepted"

\* Mutant: the ledger is unique by request id only.
RecordableById(t) == \A e \in ledger : e.id # id[t]

(* The unique indexes of command_idempotency. *)
Recordable(t) == Entries(ask[t]) = {} /\ \A e \in ledger : e.id # id[t]

Written(t) ==
    [version |-> item.version + 1,
     value   |-> IF ask[t].cmd = "apply" THEN Payload ELSE ask[t].body]

\* Mutant: the answer is stored with the version before the write.
StoredBefore(t) == IF ask[t].cmd = "create" THEN 1 ELSE saw[t]

(* The version in the stored answer, and in the first one: a new row's, the  *)
(* one after the version that was read, and the one the update returned.     *)
Stored(t) == IF ask[t].cmd = "create" THEN 1 ELSE saw[t] + 1
Returned(t) == IF ask[t].cmd = "create" THEN 1 ELSE item.version + 1

Commit(t) ==
    /\ pc[t] = "commit"
    /\ Matches(t) /\ Flips(t) /\ Recordable(t)
    /\ item.version < MaxVersion
    /\ item' = IF ask[t].cmd = "create" THEN item ELSE Written(t)
    /\ proposal' = IF ask[t].cmd = "apply" THEN "applied" ELSE proposal
    /\ ledger' = ledger \cup {[ask |-> ask[t], id |-> id[t], version |-> Stored(t)]}
    /\ effects' = [effects EXCEPT ![ask[t]] = IF @ < 2 THEN @ + 1 ELSE @]
    /\ Tell(t, "ok", Returned(t))
    /\ UNCHANGED <<ask, id, saw>>

(* Nothing matched: the assertion aborts the transaction. *)
Conflict(t) ==
    /\ pc[t] = "commit"
    /\ ~ (Matches(t) /\ Flips(t))
    /\ Tell(t, "conflict", 0)
    /\ UNCHANGED <<item, proposal, ledger, effects, ask, id, saw>>

(* The ledger row violates a unique index, which aborts it too. *)
Duplicate(t) ==
    /\ pc[t] = "commit"
    /\ Matches(t) /\ Flips(t) /\ ~ Recordable(t)
    /\ Goto(t, "again")
    /\ UNCHANGED <<item, proposal, ledger, effects, ask, id, saw, answer>>

(* The key is looked up again; if it is not there the violation is reported.*)
FindAgain(t) ==
    /\ pc[t] = "again"
    /\ Replay(t, "failed")
    /\ UNCHANGED <<item, proposal, ledger, effects, ask, id, saw>>

Dies(t) ==
    /\ pc[t] \notin {"idle", "done", "failed", "dead"}
    /\ Goto(t, "dead")
    /\ UNCHANGED <<item, proposal, ledger, effects, ask, id, saw, answer>>

-----------------------------------------------------------------------------
(* A person edits the item, this field or another one. *)
Edit ==
    /\ item.version < MaxVersion
    /\ \E v \in Values : item' = [version |-> item.version + 1, value |-> v]
    /\ UNCHANGED <<proposal, ledger, effects, pc, ask, id, saw, answer>>

Approve ==
    /\ proposal = "pending" /\ proposal' = "accepted"
    /\ UNCHANGED <<item, ledger, effects, pc, ask, id, saw, answer>>

Next ==
    \/ \E t \in Tries :
          FindReplay(t) \/ Normalize(t) \/ Reload(t) \/ Read(t) \/ Commit(t)
             \/ Conflict(t) \/ Duplicate(t) \/ FindAgain(t) \/ Dies(t)
    \/ Edit \/ Approve

Spec == Init /\ [][Next]_vars

-----------------------------------------------------------------------------
(* The item, the ledger and the tries are well typed                         *)
(* (schema.ts:537-565, registry.ts:83-101).                                  *)
TypeOK ==
    /\ item \in [version : Versions, value : Values]
    /\ proposal \in {"pending", "accepted", "applied"}
    /\ ledger \subseteq [ask : Asks, id : Ids, version : Versions]
    /\ effects \in [Asks -> 0 .. 2]
    /\ pc \in [Tries -> {"idle", "normalize", "reload", "read", "commit", "again",
                         "done", "failed", "dead"}]
    /\ ask \in [Tries -> Asks] /\ id \in [Tries -> Ids]
    /\ saw \in [Tries -> Versions]
    /\ answer \in [Tries -> Answer]

(* However often a request is tried, and wherever a try dies, its write is   *)
(* committed at most once, and exactly if the ledger says so                 *)
(* (registry.ts:261-282; command-persistence.ts:96-140, one transaction).    *)
EffectsAreLedgered ==
    /\ \A q \in Asks : effects[q] = IF \E e \in ledger : e.ask = q THEN 1 ELSE 0
    /\ \A e, f \in ledger : Scope(e.ask) = Scope(f.ask) \/ e.id = f.id => e = f

(* A try that is told of success has had its own request carried out: a key  *)
(* reused for another request gets no one else's answer                      *)
(* (command-persistence.ts:76-79, registry.ts:263).                          *)
AnsweredMeansDone ==
    \A t \in Tries : answer[t].kind = "ok" => effects[ask[t]] = 1

(* All tries of a request that succeed are told the same (plan of the        *)
(* agent-native control plane: "the original terminal result").              *)
Alike(commands) ==
    \A t, u \in Tries :
        /\ ask[t] = ask[u] /\ ask[t].cmd \in commands
        /\ answer[t].kind = "ok" /\ answer[u].kind = "ok"
        => answer[t] = answer[u]

(* ... of creates, and of updates, whose write is conditioned on the version *)
(* that the stored answer counts from (work-items.ts:516, 545).              *)
SameAnswer == Alike({"create", "update"})

(* ... and of applied proposals, whose write is conditioned on values only.  *)
ApplyAnswersAlike == Alike({"apply"})

(* Of the update commands that name a version at most one is carried out:    *)
(* nobody's command silently overwrites another one's (work-items.ts:545).   *)
OneCommandPerVersion ==
    \A e, f \in ledger :
        e.ask.cmd = "update" /\ f.ask.cmd = "update" /\ e.ask.at = f.ask.at => e = f

(* A proposal is applied by one command at most, under whatever keys and     *)
(* however its item is edited back (dependencies.ts:143-153).                *)
AppliedOnce ==
    \A e, f \in ledger : e.ask.cmd = "apply" /\ f.ask.cmd = "apply" => e = f

(* A retry of a request that was carried out is not refused                  *)
(* (plan of the agent-native control plane, line 191).                       *)
RetryIsNotRefused ==
    [][\A t \in Tries :
          answer'[t].kind = "conflict" /\ answer[t].kind = "none" => effects[ask[t]] = 0]_vars
=============================================================================
