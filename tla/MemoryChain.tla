----------------------------- MODULE MemoryChain -----------------------------
(***************************************************************************)
(* The organisation's memory: decisions that are superseded by new         *)
(* versions, retracted, parked and reactivated, by people and by accepted  *)
(* proposals of the agent.                                                 *)
(*                                                                         *)
(* Every memory command is a read, which only finds out whether the id     *)
(* exists, and one guarded statement; a refused guard changes nothing, so  *)
(* each command is one action.  An accept is the command and then, in a    *)
(* statement of its own, the flip of the proposal.                         *)
(***************************************************************************)
EXTENDS Naturals

CONSTANTS
    Memories,  \* the ids a run may mint
    Proposals,
    Drives,    \* accept requests
    Op,        \* the operation of a proposal
    None

Status == {"active", "deferred", "superseded", "retracted"}
Rows   == [status : Status, root : Memories, prev : Memories \cup {None},
           next : Memories \cup {None}, src : Proposals \cup {None}]

ASSUME MemoryAssumption ==
    /\ Op \in [Proposals -> {"create", "supersede", "retract", "defer"}]
    /\ None \notin Memories \cup Proposals \cup Rows

VARIABLES
    row,       \* memories, or None
    used,      \* the ids minted so far: a uuid is not minted again
    decision,  \* proposals.status
    target,    \* proposals.target_id
    pc, on,    \* the next step and the proposal of each accept
    landed     \* history: how often a proposal's command has changed a row (at most 2)

vars == <<row, used, decision, target, pc, on, landed>>

Init ==
    /\ row = [m \in Memories |-> None] /\ used = {}
    /\ decision = [p \in Proposals |-> "draft"]
    /\ target = [p \in Proposals |-> None]
    /\ pc = [d \in Drives |-> "idle"] /\ on = [d \in Drives |-> None]
    /\ landed = [p \in Proposals |-> 0]

-----------------------------------------------------------------------------
(* The commands.  The last argument is source_proposal_id.                  *)

Exists == {m \in Memories : row[m] # None}

StatusIs(m, allowed) == row[m] # None /\ row[m].status \in allowed

(* memories_source_proposal_uniq *)
SourceFree(p) == p # None => \A m \in Exists : row[m].src # p

Mint(m) == m \notin used /\ used' = used \cup {m}

Create(m, p) ==
    /\ SourceFree(p) /\ Mint(m)
    /\ row' = [row EXCEPT ![m] = [status |-> "active", root |-> m, prev |-> None,
                                  next |-> None, src |-> p]]

(* Latch the old version and insert the new one from it. *)
Supersede(m, n, p) ==
    /\ StatusIs(m, {"active"}) /\ SourceFree(p) /\ Mint(n)
    /\ row' = [row EXCEPT ![m].status = "superseded", ![m].next = n,
                          ![n] = [status |-> "active", root |-> row[m].root, prev |-> m,
                                  next |-> None, src |-> p]]

Restate(m, status) == row' = [row EXCEPT ![m].status = status] /\ UNCHANGED used

\* Mutant: any memory can be retracted.
RetractAny(m) == row[m] # None /\ Restate(m, "retracted")

Retract(m)    == StatusIs(m, {"active", "deferred"}) /\ Restate(m, "retracted")
Defer(m)      == StatusIs(m, {"active"}) /\ Restate(m, "deferred")

\* Mutant: whatever is not active can be reactivated.
ReactivateAny(m) == row[m] # None /\ Restate(m, "active")

Reactivate(m) == StatusIs(m, {"deferred"}) /\ Restate(m, "active")

(* The memory routes. *)
People ==
    /\ \E m \in Memories :
          \/ Create(m, None) \/ Retract(m) \/ Defer(m) \/ Reactivate(m)
          \/ \E n \in Memories : Supersede(m, n, None)
    /\ UNCHANGED <<decision, target, pc, on, landed>>

-----------------------------------------------------------------------------
(* Proposals of the agent.                                                  *)

Draft(p) ==
    /\ decision[p] = "draft"
    /\ decision' = [decision EXCEPT ![p] = "pending"]
    /\ \E m \in Memories \cup {None} :
          /\ IF Op[p] = "create" THEN m = None ELSE m \in Memories /\ row[m] # None
          /\ target' = [target EXCEPT ![p] = m]
    /\ UNCHANGED <<row, used, pc, on, landed>>

Reject(p) ==
    /\ decision[p] = "pending"
    /\ decision' = [decision EXCEPT ![p] = "rejected"]
    /\ UNCHANGED <<row, used, target, pc, on, landed>>

Goto(d, step) == pc' = [pc EXCEPT ![d] = step]

Load(d, p) ==
    /\ pc[d] = "idle" /\ decision[p] = "pending"
    /\ Goto(d, "write") /\ on' = [on EXCEPT ![d] = p]
    /\ UNCHANGED <<row, used, decision, target, landed>>

Count(p) == landed' = [landed EXCEPT ![p] = IF @ < 2 THEN @ + 1 ELSE @]

(* The proposal's command, as the agent on behalf of the approver. *)
Command(p) ==
    \/ Op[p] = "create" /\ \E m \in Memories : Create(m, p)
    \/ Op[p] = "supersede" /\ \E n \in Memories : Supersede(target[p], n, p)
    \/ Op[p] = "retract" /\ Retract(target[p])
    \/ Op[p] = "defer" /\ Defer(target[p])

Write(d) ==
    /\ pc[d] = "write"
    /\ Command(on[d]) /\ Count(on[d])
    /\ Goto(d, "flip")
    /\ UNCHANGED <<decision, target, on>>

(* A create finds the row of an earlier drive. *)
Converge(d) ==
    /\ pc[d] = "write" /\ Op[on[d]] = "create" /\ ~ SourceFree(on[d])
    /\ Goto(d, "flip")
    /\ UNCHANGED <<row, used, decision, target, on, landed>>

(* The target is not in a state the command accepts, or is gone. *)
Stale(d) ==
    /\ pc[d] = "write"
    /\ CASE Op[on[d]] = "create"  -> FALSE
         [] Op[on[d]] = "retract" -> ~ StatusIs(target[on[d]], {"active", "deferred"})
         [] OTHER                 -> ~ StatusIs(target[on[d]], {"active"})
    /\ Goto(d, "stale")
    /\ UNCHANGED <<row, used, decision, target, on, landed>>

Flip(d) ==
    /\ pc[d] = "flip"
    /\ IF decision[on[d]] = "pending"
       THEN decision' = [decision EXCEPT ![on[d]] = "applied"] /\ Goto(d, "applied")
       ELSE decision' = decision /\ Goto(d, "lost")
    /\ UNCHANGED <<row, used, target, on, landed>>

Gone(p, m) == m # None /\ row[m] # None /\ row[m].src = p

\* Mutant: the foreign keys of the neighbours are left dangling.
NullifyNot(p, m) == m

(* on delete set null *)
Nullify(p, m) == IF Gone(p, m) THEN None ELSE m

(* Delete the rows of p. *)
Delete(p) ==
    row' = [m \in Memories |->
               IF row[m] = None \/ Gone(p, m) THEN None
               ELSE [row[m] EXCEPT !.prev = Nullify(p, row[m].prev),
                                   !.next = Nullify(p, row[m].next)]]

\* Mutant: a lost flip always compensates.
LostDeletes(d) ==
    /\ pc[d] = "lost"
    /\ IF Op[on[d]] = "create" THEN Delete(on[d]) ELSE row' = row
    /\ Goto(d, "not_pending")
    /\ UNCHANGED <<used, decision, target, on, landed>>

(* A lost flip: the row of a rejected create is deleted again. *)
Lost(d) ==
    /\ pc[d] = "lost"
    /\ IF Op[on[d]] = "create" /\ decision[on[d]] = "rejected"
       THEN Delete(on[d]) ELSE row' = row
    /\ Goto(d, "not_pending")
    /\ UNCHANGED <<used, decision, target, on, landed>>

Dies(d) ==
    /\ pc[d] \in {"write", "flip", "lost"}
    /\ Goto(d, "dead")
    /\ UNCHANGED <<row, used, decision, target, on, landed>>

Next ==
    \/ People
    \/ \E p \in Proposals : Draft(p) \/ Reject(p) \/ \E d \in Drives : Load(d, p)
    \/ \E d \in Drives : Write(d) \/ Converge(d) \/ Stale(d) \/ Flip(d) \/ Lost(d) \/ Dies(d)

Spec == Init /\ [][Next]_vars

-----------------------------------------------------------------------------
(* The tables and the accepts are well typed (schema.ts:725-780). *)
TypeOK ==
    /\ row \in [Memories -> Rows \cup {None}]
    /\ used \subseteq Memories
    /\ decision \in [Proposals -> {"draft", "pending", "applied", "rejected"}]
    /\ target \in [Proposals -> Memories \cup {None}]
    /\ pc \in [Drives -> {"idle", "write", "flip", "lost", "applied", "stale", "not_pending", "dead"}]
    /\ on \in [Drives -> Proposals \cup {None}]
    /\ landed \in [Proposals -> 0 .. 2]

(* Of all the versions of a decision at most one is in force or parked,      *)
(* whoever supersedes, retracts or reactivates it (memories.ts:346-352).     *)
OneHead ==
    \A m, n \in Exists :
        /\ row[m].root = row[n].root
        /\ row[m].status \in {"active", "deferred"} /\ row[n].status \in {"active", "deferred"}
        => m = n

(* A chain is linked both ways, never forks, and exactly the rows with a     *)
(* successor are superseded (memories.ts:353-375, apply.ts:621).             *)
ChainIntact ==
    \A m \in Exists :
        /\ row[m].status = "superseded" <=> row[m].next # None
        /\ row[m].next # None => row[m].next \in Exists /\ row[row[m].next].prev = m
        /\ row[m].prev # None => row[m].prev \in Exists /\ row[row[m].prev].next = m

(* What was superseded or retracted is never in force again, and no memory   *)
(* disappears but by the rejection of the proposal that created it           *)
(* (memories.ts:320, 399-402; apply.ts:615-624).                             *)
HistoryIsKept ==
    [][\A m \in Exists :
          /\ row'[m] = None => row[m].src # None /\ decision[row[m].src] = "rejected"
          /\ row[m].status \in {"superseded", "retracted"} /\ row'[m] # None
                => row'[m].status = row[m].status]_vars

(* However often a supersession or a retraction is accepted, and whatever    *)
(* crashes, it takes effect once (apply.ts:384, exactly once).               *)
TakesEffectOnce ==
    \A p \in Proposals : Op[p] \in {"supersede", "retract"} => landed[p] <= 1

(* The same, of a deferral: a drive that lost the flip has parked the memory *)
(* no second time (apply.ts:413-415, harmless).                              *)
DefersOnce == \A p \in Proposals : Op[p] = "defer" => landed[p] <= 1

(* The compensation of a rejected create deletes its row and touches nothing *)
(* else (apply.ts:617-619).                                                  *)
CompensationIsScoped ==
    [][\A m, n \in Exists : row'[m] = None /\ n # m => row'[n] = row[n]]_vars
=============================================================================
