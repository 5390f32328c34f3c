-------------------------- MODULE ConversationLog --------------------------
(***************************************************************************)
(* One conversation of the collaboration fabric: an append-only log of     *)
(* messages, edits, tombstones and membership changes, the current         *)
(* membership rows, and members that follow the log by a sequence cursor.  *)
(*                                                                         *)
(* An append and a membership change are each one transaction that first   *)
(* locks the conversation row, so each is one action.  A poll is two       *)
(* statements, the authorization and the read, and others run in between.  *)
(*                                                                         *)
(* The sequence stands for the event's id too (it is unique), and 0 is a   *)
(* null link.  Retries and reused keys are requests like any other.        *)
(***************************************************************************)
EXTENDS Naturals, FiniteSets

CONSTANTS
    Actors,
    Readers,   \* the actors that follow the log
    Keys,      \* idempotency keys
    Bodies,    \* message payloads
    Changes,   \* membership changes a request may ask for
    Limit,     \* page size of a read
    MaxSeq,    \* bound: the highest sequence that is allocated
    None

Roles         == {"reader", "writer", "admin"}
Members       == [role : Roles, status : {"active", "removed"}]
ChangeKinds   == {"added", "changed", "removed"}
Kinds         == {"created", "edited", "deleted"} \cup ChangeKinds
Links         == 0 .. MaxSeq
Payloads      == Bodies \cup Changes
AppendInputs  == [by : Actors, key : Keys, kind : Kinds, payload : Payloads,
                  target : Links, reply : Links]
Events        == [by : Actors, key : Keys, kind : Kinds, payload : Payloads,
                  target : Links, reply : Links, seq : 1 .. MaxSeq]

ASSUME LogAssumption ==
    /\ Changes \subseteq [who : Actors, role : Roles, status : {"active", "removed"}]
    /\ Readers \subseteq Actors
    /\ Limit \in Nat \ {0} /\ MaxSeq \in Nat
    /\ None \notin Members

VARIABLES
    status,    \* conversations.status, or "absent"
    next,      \* conversations.next_sequence
    member,    \* conversation_memberships: the actor's row, or None
    disabled,  \* actors with collaboration_actors.disabled_at
    log,       \* conversation_events
    reading,   \* readers whose authorization passed and whose read is to come
    cursor,    \* the last sequence a reader has received
    seen       \* the events a reader has received

convVars   == <<status, next, member, disabled, log>>
readerVars == <<reading, cursor, seen>>
vars       == <<convVars, readerVars>>

(* An empty conversation whose first members are admins. *)
Init ==
    /\ status \in {"active", "archived"}
    /\ next = 1
    /\ member \in [Actors -> {None, [role |-> "admin", status |-> "active"]}]
    /\ disabled = {}
    /\ log = {}
    /\ reading = {}
    /\ cursor = [a \in Readers |-> 0]
    /\ seen = [a \in Readers |-> {}]

-----------------------------------------------------------------------------
(* Authorization: an enabled actor with an active membership.               *)

Authorized(a) ==
    /\ a \notin disabled
    /\ member[a] # None
    /\ member[a].status = "active"

MayAppend(a, kind) ==
    /\ Authorized(a)
    /\ member[a].role \in IF kind \in ChangeKinds THEN {"admin"} ELSE {"writer", "admin"}

\* Mutant: an edit needs a version, not the latest one.
StandingAny(s, kinds) ==
    \E e \in log :
        /\ e.seq = s /\ e.kind \in {"created", "edited"}
        /\ ~ \E later \in log : later.target = s /\ later.kind = "deleted"

(* A message version: an event with a body that no event in kinds targets.   *)
Standing(s, kinds) ==
    \E e \in log :
        /\ e.seq = s /\ e.kind \in {"created", "edited"}
        /\ ~ \E later \in log : later.target = s /\ later.kind \in kinds

\* Mutant: a tombstone may have a successor.
LinksValidAnyKind(r) ==
    /\ r.reply # 0 => r.kind = "created" /\ Standing(r.reply, {"deleted"})
    /\ IF r.kind \in {"edited", "deleted"}
       THEN \E e \in log : /\ e.seq = r.target
                           /\ ~ \E later \in log : later.target = e.seq
       ELSE r.target = 0

LinksValid(r) ==
    /\ r.reply # 0 => r.kind = "created" /\ Standing(r.reply, {"deleted"})
    /\ IF r.kind \in {"edited", "deleted"}
       THEN Standing(r.target, {"edited", "deleted"})
       ELSE r.target = 0

WithKey(k) == {e \in log : e.key = k}

SameEvent(e, r) == \A f \in DOMAIN r : e[f] = r[f]

\* Mutant: links and status are looked at before the key.
OutcomeLate(r) ==
    IF ~Authorized(r.by) THEN "not_found"
    ELSE IF ~MayAppend(r.by, r.kind) THEN "forbidden"
    ELSE IF status = "archived" THEN "archived"
    ELSE IF ~LinksValid(r) THEN "invalid_reference"
    ELSE IF WithKey(r.key) = {} THEN "inserted"
    ELSE IF \E e \in WithKey(r.key) : SameEvent(e, r) THEN "existing"
    ELSE "idempotency_conflict"

(* What an append answers, in the order of its case expression. *)
Outcome(r) ==
    IF ~Authorized(r.by) THEN "not_found"
    ELSE IF ~MayAppend(r.by, r.kind) THEN "forbidden"
    ELSE IF \E e \in WithKey(r.key) : SameEvent(e, r) THEN "existing"
    ELSE IF WithKey(r.key) # {} THEN "idempotency_conflict"
    ELSE IF status = "archived" THEN "archived"
    ELSE IF ~LinksValid(r) THEN "invalid_reference"
    ELSE "inserted"

-----------------------------------------------------------------------------
(* The transactions.                                                        *)

(* The event r with sequence s. *)
Event(r, s) == [by |-> r.by, key |-> r.key, kind |-> r.kind, payload |-> r.payload,
                target |-> r.target, reply |-> r.reply, seq |-> s]

(* Allocate the next sequence and insert; an event that holds it already     *)
(* makes the unique index abort the whole transaction.                       *)
Insert(r) ==
    /\ next <= MaxSeq
    /\ ~ \E e \in log : e.seq = next
    /\ log' = log \cup {Event(r, next)}
    /\ next' = next + 1

\* Mutant: a sequence is allocated for a refused link too.
AppendEventBurns(r) ==
    /\ Outcome(r) \in {"inserted", "invalid_reference"}
    /\ IF Outcome(r) = "inserted" THEN Insert(r)
       ELSE next <= MaxSeq /\ next' = next + 1 /\ UNCHANGED log
    /\ UNCHANGED <<status, member, disabled, readerVars>>

(* appendConversationEvent.  Every other outcome changes nothing.            *)
AppendEvent(r) ==
    /\ Outcome(r) = "inserted"
    /\ Insert(r)
    /\ UNCHANGED <<status, member, disabled, readerVars>>

(* The requests worth sending: a post that may reply, an edit, a tombstone,  *)
(* and a membership event through the generic route, which changes no row.   *)
Post(a, k, b, reply) == AppendEvent([by |-> a, key |-> k, kind |-> "created", payload |-> b,
                                     target |-> 0, reply |-> reply])
Edit(a, k, b, target) == AppendEvent([by |-> a, key |-> k, kind |-> "edited", payload |-> b,
                                      target |-> target, reply |-> 0])
Delete(a, k, b, target) == AppendEvent([by |-> a, key |-> k, kind |-> "deleted", payload |-> b,
                                        target |-> target, reply |-> 0])
Claim(a, k, c, kind) == AppendEvent([by |-> a, key |-> k, kind |-> kind, payload |-> c,
                                     target |-> 0, reply |-> 0])

ChangeKind(c) ==
    IF c.status = "removed" THEN "removed"
    ELSE IF member[c.who] = None THEN "added" ELSE "changed"

\* Mutant: the membership row is written even when the event exists already.
ChangeMemberAgain(a, k, c) ==
    /\ MayAppend(a, "changed") /\ c.who \notin disabled
    /\ status = "active"
    /\ member' = [member EXCEPT ![c.who] = [role |-> c.role, status |-> c.status]]
    /\ IF WithKey(k) = {}
       THEN Insert([by |-> a, key |-> k, kind |-> ChangeKind(c), payload |-> c,
                    target |-> 0, reply |-> 0])
       ELSE UNCHANGED <<log, next>>
    /\ UNCHANGED <<status, disabled, readerVars>>

(* mutateMembership: the row and its audit event in one transaction; a key   *)
(* that is taken, by whatever event, changes nothing.                        *)
ChangeMember(a, k, c) ==
    /\ MayAppend(a, "changed") /\ c.who \notin disabled
    /\ WithKey(k) = {}
    /\ status = "active"
    /\ member' = [member EXCEPT ![c.who] = [role |-> c.role, status |-> c.status]]
    /\ Insert([by |-> a, key |-> k, kind |-> ChangeKind(c), payload |-> c,
               target |-> 0, reply |-> 0])
    /\ UNCHANGED <<status, disabled, readerVars>>

DisableActor(a) ==
    /\ disabled' = disabled \cup {a}
    /\ UNCHANGED <<status, next, member, log, readerVars>>

-----------------------------------------------------------------------------
(* A member follows the log.                                                *)

PollAuthorize(a) ==
    /\ Authorized(a)
    /\ reading' = reading \cup {a}
    /\ UNCHANGED <<convVars, cursor, seen>>

\* Mutant: a page in no particular order.
PageUnordered(a) ==
    CHOOSE page \in SUBSET {e \in log : e.seq > cursor[a]} :
        /\ Cardinality(page) <= Limit
        /\ \A rest \in {e \in log : e.seq > cursor[a]} \ page :
              Cardinality(page) = Limit /\ \A e \in page : rest.seq < e.seq

(* The first Limit events after the cursor, by sequence. *)
Page(a) ==
    {e \in log : /\ e.seq > cursor[a]
                 /\ Cardinality({d \in log : cursor[a] < d.seq /\ d.seq < e.seq}) < Limit}

PollRead(a) ==
    /\ a \in reading
    /\ reading' = reading \ {a}
    /\ seen' = [seen EXCEPT ![a] = @ \cup Page(a)]
    /\ cursor' \in [Readers -> Links]
    /\ \A b \in Readers \ {a} : cursor'[b] = cursor[b]
    /\ IF Page(a) = {} THEN cursor'[a] = cursor[a]
       ELSE \E last \in Page(a) : /\ cursor'[a] = last.seq
                                  /\ \A e \in Page(a) : e.seq <= last.seq
    /\ UNCHANGED convVars

LogNext ==
    \/ \E a \in Actors, k \in Keys :
          \/ \E b \in Bodies, s \in Links : Post(a, k, b, s) \/ Edit(a, k, b, s) \/ Delete(a, k, b, s)
          \/ \E c \in Changes : ChangeMember(a, k, c) \/ \E kind \in ChangeKinds : Claim(a, k, c, kind)
    \/ \E a \in Actors : DisableActor(a)
    \/ \E a \in Readers : PollAuthorize(a) \/ PollRead(a)

Spec == Init /\ [][LogNext]_vars

-----------------------------------------------------------------------------
(* The tables and the readers hold what their columns can hold              *)
(* (repository.ts:142-155, the conversation_events row).                      *)
TypeOK ==
    /\ status \in {"absent", "active", "archived"}
    /\ next \in 1 .. MaxSeq + 1
    /\ member \in [Actors -> Members \cup {None}]
    /\ disabled \subseteq Actors
    /\ log \subseteq Events
    /\ reading \subseteq Readers
    /\ cursor \in [Readers -> Links]
    /\ seen \in [Readers -> SUBSET Events]

(* Sequences are handed out once each, without gaps, and the counter is      *)
(* ahead of all of them (repository.ts:295-316, the allocation under lock).  *)
NextIsFresh == \A e \in log : e.seq < next
Sequenced ==
    /\ NextIsFresh
    /\ \A s \in 1 .. next - 1 : \E e \in log : e.seq = s
    /\ \A e, f \in log : e.seq = f.seq \/ e.key = f.key => e = f

(* A message version is replaced once, by an edit or by a tombstone, and a   *)
(* tombstone is never replaced: a message's history is one chain             *)
(* (repository.ts:279-293, the target check).                                *)
OneChain ==
    /\ \A e, f \in log : e.target # 0 /\ e.target = f.target => e = f
    /\ \A e \in log : e.target # 0 =>
          \E t \in log : t.seq = e.target /\ t.seq < e.seq /\ t.kind \in {"created", "edited"}

(* An exact retry by an author who still holds the role gets the first event *)
(* back, whatever has happened to the conversation and to the event since,   *)
(* and with another payload the key is refused: it stands for one event      *)
(* (decision D5; repository.ts:318-329, the order of the outcomes).          *)
Replayable ==
    \A e \in log : MayAppend(e.by, e.kind) =>
        \A p \in Payloads :
            Outcome([by |-> e.by, key |-> e.key, kind |-> e.kind, payload |-> p,
                     target |-> e.target, reply |-> e.reply])
                = IF p = e.payload THEN "existing" ELSE "idempotency_conflict"

(* A reader that polls by cursor has every event up to its cursor and no     *)
(* other: no event turns up behind a cursor that has passed it               *)
(* (repository.ts:388-397, sequence > after_sequence, by sequence).          *)
CursorMissesNothing ==
    \A a \in Readers : seen[a] = {e \in log : e.seq <= cursor[a]}

(* A membership row changes only together with an audit event of its own,   *)
(* so a late retry of an old change cannot bring a removed member back       *)
(* (decision D3; routes/conversations.ts:158-186, one transaction).          *)
ChangesAreAudited ==
    [][\A a \in Actors : member'[a] # member[a] =>
          \E e \in log' \ log :
              /\ e.kind \in ChangeKinds
              /\ e.payload = [who |-> a, role |-> member'[a].role, status |-> member'[a].status]]_vars

(* A reply or an edit of a deleted message is refused (docs/work plan, TDD   *)
(* scenario 5: already-deleted targets fail without mutation).  A reply to   *)
(* an earlier version of the message is not.                                 *)
Above[s \in Links] ==
    LET targets == {e \in log : e.seq = s /\ e.target # 0}
    IN  IF targets = {} THEN s
        ELSE LET e == CHOOSE e \in targets : TRUE
             IN  IF e.target < s THEN Above[e.target] ELSE s

RepliesAreToLiveMessages ==
    \A e \in log : e.reply # 0 =>
        ~ \E d \in log : d.kind = "deleted" /\ d.seq < e.seq /\ Above[d.seq] = Above[e.reply]

-----------------------------------------------------------------------------
(* The messages the log stands for: each one has a text that edits replace,  *)
(* until a tombstone removes it for good.                                    *)
Version(m) == {e \in log : e.kind \in {"created", "edited", "deleted"} /\ Above[e.seq] = m}
Last(m)    == {e \in Version(m) : ~ \E later \in log : later.target = e.seq}
Latest(m)  == CHOOSE e \in Last(m) : TRUE
TextOf ==
    [m \in 1 .. MaxSeq |->
        IF Version(m) = {} THEN [state |-> "absent"]
        ELSE IF \E e \in Version(m) : e.kind = "deleted" THEN [state |-> "deleted"]
        ELSE [state |-> "live", text |-> Latest(m).payload]]

Board == INSTANCE MessageBoard WITH Messages <- 1 .. MaxSeq, Texts <- Bodies, message <- TextOf

(* The log implements a board on which messages are posted, edited while     *)
(* they stand, and deleted once (decision D6: links, not row mutation).      *)
ImplementsBoard == Board!Spec
=============================================================================
