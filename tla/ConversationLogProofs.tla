------------------------ MODULE ConversationLogProofs ------------------------
(***************************************************************************)
(* Safety of the conversation log for every set of actors, keys, payloads  *)
(* and page sizes.                                                         *)
(*                                                                         *)
(* Everything rests on the allocation under the row lock: the counter is   *)
(* ahead of every event.  A new event then comes after every cursor, after *)
(* every target, and takes a sequence of its own.                          *)
(*                                                                         *)
(* The backfill writes without that counter: it computes sequences from    *)
(* the transcripts, and what it writes is in order because a message out   *)
(* of order would take the sequence of one that is there.                  *)
(***************************************************************************)
EXTENDS ThreadBackfill, FiniteSetTheorems, WellFoundedInduction, TLAPS

(* An append of some request that a member may send. *)
Requested(r) ==
    /\ r \in AppendInputs
    /\ AppendEvent(r)
    /\ r.target # 0 => r.kind \in {"edited", "deleted"}
    /\ r.kind \in {"created", "edited"} => r.payload \in Bodies

(* The inputs of LogNext are append inputs, so each step is one of these. *)
LEMMA Steps ==
    ASSUME LogNext
    PROVE  \/ \E r \in AppendInputs : Requested(r)
           \/ \E a \in Actors, k \in Keys, c \in Changes : ChangeMember(a, k, c)
           \/ \E a \in Actors : DisableActor(a)
           \/ \E a \in Readers : PollAuthorize(a) \/ PollRead(a)
<1> USE LogAssumption DEF AppendInputs, Kinds, ChangeKinds, Payloads, Links
<1>1. ASSUME NEW a \in Actors, NEW k \in Keys, NEW b \in Bodies, NEW s \in Links, Post(a, k, b, s)
       PROVE  \E r \in AppendInputs : Requested(r)
  BY <1>1 DEF Post, Requested
<1>2. ASSUME NEW a \in Actors, NEW k \in Keys, NEW b \in Bodies, NEW s \in Links, Edit(a, k, b, s)
       PROVE  \E r \in AppendInputs : Requested(r)
  BY <1>2 DEF Edit, Requested
<1>3. ASSUME NEW a \in Actors, NEW k \in Keys, NEW b \in Bodies, NEW s \in Links, Delete(a, k, b, s)
       PROVE  \E r \in AppendInputs : Requested(r)
  BY <1>3 DEF Delete, Requested
<1>4. ASSUME NEW a \in Actors, NEW k \in Keys, NEW c \in Changes, NEW kind \in ChangeKinds,
             Claim(a, k, c, kind)
       PROVE  \E r \in AppendInputs : Requested(r)
  BY <1>4 DEF Claim, Requested
<1> QED
  BY <1>1, <1>2, <1>3, <1>4 DEF LogNext

(* The event a membership change appends. *)
Audit(a, k, c) == [by |-> a, key |-> k, kind |-> ChangeKind(c), payload |-> c,
                   target |-> 0, reply |-> 0]

LEMMA AuditType ==
    ASSUME NEW a \in Actors, NEW k \in Keys, NEW c \in Changes
    PROVE  /\ Audit(a, k, c) \in AppendInputs
           /\ Audit(a, k, c).kind \in ChangeKinds
           /\ Audit(a, k, c).target = 0
BY LogAssumption DEF Audit, AppendInputs, ChangeKind, Kinds, ChangeKinds, Payloads, Links

LEMMA EventType ==
    ASSUME NEW r \in AppendInputs, NEW s \in 1 .. MaxSeq
    PROVE  /\ Event(r, s) \in Events
           /\ Event(r, s).seq = s /\ Event(r, s).key = r.key
           /\ Event(r, s).kind = r.kind /\ Event(r, s).target = r.target
           /\ Event(r, s).payload = r.payload
BY DEF AppendInputs, Event, Events

(* The facts of an insertion that the invariants use. *)
LEMMA Inserted ==
    ASSUME TypeOK, NEW r \in AppendInputs, Insert(r)
    PROVE  /\ next \in 1 .. MaxSeq /\ next' = next + 1
           /\ Event(r, next) \in Events
           /\ log' = log \cup {Event(r, next)}
           /\ Event(r, next).seq = next
<1>1. next \in 1 .. MaxSeq
  BY LogAssumption DEF Insert, TypeOK
<1> QED
  BY <1>1, EventType DEF Insert

LEMMA InitType == Init => TypeOK
BY LogAssumption DEF Init, TypeOK, Members, Roles, Links

LEMMA TypeStep == TypeOK /\ [LogNext]_vars => TypeOK'
<1> SUFFICES ASSUME TypeOK, [LogNext]_vars PROVE TypeOK'
  OBVIOUS
<1> USE LogAssumption DEF TypeOK, vars, convVars, readerVars
<1>1. ASSUME NEW r \in AppendInputs, Requested(r)
       PROVE  TypeOK'
  <2>1. Insert(r) /\ UNCHANGED <<status, member, disabled, readerVars>>
    BY <1>1 DEF Requested, AppendEvent
  <2> QED BY <2>1, Inserted
<1>2. ASSUME NEW a \in Actors, NEW k \in Keys, NEW c \in Changes, ChangeMember(a, k, c)
       PROVE  TypeOK'
  <2>1. Audit(a, k, c) \in AppendInputs /\ Insert(Audit(a, k, c))
    BY <1>2, AuditType DEF ChangeMember, Audit
  <2>2. c.who \in Actors /\ [role |-> c.role, status |-> c.status] \in Members
    BY DEF Members
  <2>3. member' \in [Actors -> Members \cup {None}]
    BY <1>2, <2>2 DEF ChangeMember
  <2> QED BY <1>2, <2>1, <2>3, Inserted DEF ChangeMember
<1>3. ASSUME NEW a \in Actors, DisableActor(a)
       PROVE  TypeOK'
  BY <1>3 DEF DisableActor
<1>4. ASSUME NEW a \in Readers, PollAuthorize(a)
       PROVE  TypeOK'
  BY <1>4 DEF PollAuthorize
<1>5. ASSUME NEW a \in Readers, PollRead(a)
       PROVE  TypeOK'
  BY <1>5 DEF PollRead, Page
<1>6. CASE UNCHANGED vars
  BY <1>6
<1> QED
  BY <1>1, <1>2, <1>3, <1>4, <1>5, <1>6, Steps

(* Every table and every reader keeps its type. *)
THEOREM TypeCorrect == Spec => []TypeOK
BY InitType, TypeStep, PTL DEF Spec

-----------------------------------------------------------------------------
(* An insertion keeps the sequences gapless, unique and behind the counter.  *)
LEMMA InsertSequenced ==
    ASSUME TypeOK, Sequenced, NEW r \in AppendInputs, Insert(r), WithKey(r.key) = {}
    PROVE  Sequenced'
<1> DEFINE new == Event(r, next)
<1>1. /\ next \in 1 .. MaxSeq /\ next' = next + 1
      /\ log' = log \cup {new} /\ new.seq = next /\ new.key = r.key /\ new \in Events
  BY Inserted, EventType
<1>2. log \subseteq Events /\ \A e \in log : e.seq \in 1 .. MaxSeq
  BY DEF TypeOK, Events
<1>3. \A e \in log : e.seq # new.seq /\ e.key # new.key
  BY <1>1, <1>2, LogAssumption DEF Sequenced, NextIsFresh, WithKey
<1> HIDE DEF new
<1>4. NextIsFresh'
  BY <1>1, <1>2, LogAssumption DEF Sequenced, NextIsFresh
<1>5. \A s \in 1 .. next' - 1 : \E e \in log' : e.seq = s
  <2> SUFFICES ASSUME NEW s \in 1 .. next' - 1 PROVE \E e \in log' : e.seq = s
    OBVIOUS
  <2>1. CASE s = next
    BY <2>1, <1>1
  <2>2. CASE s \in 1 .. next - 1
    BY <2>2, <1>1 DEF Sequenced
  <2> QED BY <2>1, <2>2, <1>1, LogAssumption
<1>6. \A e, f \in log' : e.seq = f.seq \/ e.key = f.key => e = f
  BY <1>1, <1>3 DEF Sequenced
<1> QED
  BY <1>4, <1>5, <1>6 DEF Sequenced

LEMMA SequencedStep == TypeOK /\ Sequenced /\ [LogNext]_vars => Sequenced'
<1> SUFFICES ASSUME TypeOK, Sequenced, [LogNext]_vars PROVE Sequenced'
  OBVIOUS
<1>1. ASSUME NEW r \in AppendInputs, Requested(r)
       PROVE  Sequenced'
  <2>1. WithKey(r.key) = {} /\ Insert(r)
    BY <1>1 DEF Requested, AppendEvent, Outcome
  <2> QED BY <2>1, InsertSequenced
<1>2. ASSUME NEW a \in Actors, NEW k \in Keys, NEW c \in Changes, ChangeMember(a, k, c)
       PROVE  Sequenced'
  <2>1. Audit(a, k, c) \in AppendInputs /\ Insert(Audit(a, k, c)) /\ WithKey(Audit(a, k, c).key) = {}
    BY <1>2, AuditType DEF ChangeMember, Audit
  <2> QED BY <2>1, InsertSequenced
<1>3. CASE UNCHANGED <<next, log>>
  BY <1>3 DEF Sequenced, NextIsFresh
<1> QED
  BY <1>1, <1>2, <1>3, Steps
     DEF vars, convVars, DisableActor, PollAuthorize, PollRead

(* No two events share a sequence or a key, and the counter is ahead of      *)
(* them all.                                                                 *)
THEOREM SequencedHolds == Spec => []Sequenced
<1>1. Init => Sequenced
  BY LogAssumption DEF Init, Sequenced, NextIsFresh
<1> QED
  BY <1>1, InitType, TypeStep, SequencedStep, PTL DEF Spec

-----------------------------------------------------------------------------
(* Only an edit or a tombstone has a target, and only of a version that      *)
(* came before it.                                                           *)
Targeted ==
    \A e \in log : e.target # 0 =>
        /\ e.kind \in {"edited", "deleted"}
        /\ \E t \in log : t.seq = e.target /\ t.seq < e.seq /\ t.kind \in {"created", "edited"}

LEMMA InsertChain ==
    ASSUME TypeOK, Sequenced, OneChain, Targeted, NEW r \in AppendInputs, Insert(r),
           r.target # 0 => r.kind \in {"edited", "deleted"} /\ Standing(r.target, {"edited", "deleted"})
    PROVE  OneChain' /\ Targeted'
<1> DEFINE new == Event(r, next)
<1>1. /\ next \in 1 .. MaxSeq
      /\ log' = log \cup {new} /\ new.seq = next /\ new.target = r.target /\ new.kind = r.kind
  BY Inserted, EventType
<1> HIDE DEF new
<1>2. \A t \in log : t.seq \in 1 .. MaxSeq /\ t.seq < next
  BY DEF TypeOK, Events, Sequenced, NextIsFresh
<1>3. new.target # 0 => /\ \E t \in log : t.seq = new.target /\ t.kind \in {"created", "edited"}
                        /\ \A e \in log : e.target # new.target
  BY <1>1 DEF Standing, Targeted
<1>4. Targeted'
  BY <1>1, <1>2, <1>3 DEF Targeted
<1>5. \A e, f \in log' : e.target # 0 /\ e.target = f.target => e = f
  BY <1>1, <1>3 DEF OneChain
<1> QED
  BY <1>4, <1>5 DEF OneChain, Targeted

LEMMA ChainStep ==
    TypeOK /\ Sequenced /\ OneChain /\ Targeted /\ [LogNext]_vars => OneChain' /\ Targeted'
<1> SUFFICES ASSUME TypeOK, Sequenced, OneChain, Targeted, [LogNext]_vars PROVE OneChain' /\ Targeted'
  OBVIOUS
<1>1. ASSUME NEW r \in AppendInputs, Requested(r)
       PROVE  OneChain' /\ Targeted'
  <2>1. Insert(r) /\ LinksValid(r) /\ (r.target # 0 => r.kind \in {"edited", "deleted"})
    BY <1>1 DEF Requested, AppendEvent, Outcome
  <2> QED BY <2>1, InsertChain DEF LinksValid
<1>2. ASSUME NEW a \in Actors, NEW k \in Keys, NEW c \in Changes, ChangeMember(a, k, c)
       PROVE  OneChain' /\ Targeted'
  <2>1. Audit(a, k, c) \in AppendInputs /\ Insert(Audit(a, k, c)) /\ Audit(a, k, c).target = 0
    BY <1>2, AuditType DEF ChangeMember, Audit
  <2> QED BY <2>1, InsertChain
<1>3. CASE UNCHANGED log
  BY <1>3 DEF OneChain, Targeted
<1> QED
  BY <1>1, <1>2, <1>3, Steps
     DEF vars, convVars, DisableActor, PollAuthorize, PollRead

(* A message version is replaced at most once, and never by what came        *)
(* before it.                                                                *)
THEOREM OneChainHolds == Spec => []OneChain
<1>1. Init => OneChain /\ Targeted
  BY DEF Init, OneChain, Targeted
<1> QED
  BY <1>1, InitType, TypeStep, SequencedStep, ChainStep, PTL, SequencedHolds, TypeCorrect DEF Spec

-----------------------------------------------------------------------------
(* A cursor is behind the counter, and the log stays finite. *)
CursorInv ==
    /\ CursorMissesNothing
    /\ \A a \in Readers : cursor[a] < next
    /\ IsFiniteSet(log)

(* A page is every event after the cursor up to its last one: an event that  *)
(* comes before the last one has even fewer events before it.                *)
LEMMA PageIsPrefix ==
    ASSUME TypeOK, IsFiniteSet(log), NEW a \in Readers, NEW last \in Page(a),
           \A e \in Page(a) : e.seq <= last.seq
    PROVE  Page(a) = {e \in log : cursor[a] < e.seq /\ e.seq <= last.seq}
<1> DEFINE Between(e) == {d \in log : cursor[a] < d.seq /\ d.seq < e.seq}
<1>1. last \in log /\ cursor[a] < last.seq /\ Cardinality(Between(last)) < Limit
  BY LogAssumption DEF Page, TypeOK, Links, Events
<1>2. ASSUME NEW e \in log, cursor[a] < e.seq, e.seq <= last.seq
      PROVE  e \in Page(a)
  <2>1. Between(e) \subseteq Between(last)
    BY <1>1, <1>2, LogAssumption DEF TypeOK, Events, Links
  <2>2. IsFiniteSet(Between(last))
    BY FS_Subset
  <2>3. /\ Cardinality(Between(e)) \in Nat /\ Cardinality(Between(last)) \in Nat
        /\ Cardinality(Between(e)) <= Cardinality(Between(last))
    BY <2>1, <2>2, FS_Subset, FS_CardinalityType
  <2>4. Cardinality(Between(e)) < Limit
    BY <2>3, <1>1, LogAssumption
  <2> QED BY <1>2, <2>4, LogAssumption DEF Page, TypeOK, Events, Links
<1> QED
  BY <1>2, LogAssumption DEF Page, TypeOK, Events, Links

LEMMA InsertCursor ==
    ASSUME TypeOK, Sequenced, CursorInv, NEW r \in AppendInputs, Insert(r), UNCHANGED readerVars
    PROVE  CursorInv'
<1> DEFINE new == Event(r, next)
<1>1. /\ next \in 1 .. MaxSeq /\ next' = next + 1
      /\ log' = log \cup {new} /\ new.seq = next
  BY Inserted
<1> HIDE DEF new
<1>2. \A a \in Readers : cursor'[a] = cursor[a] /\ cursor[a] \in 0 .. MaxSeq /\ cursor[a] < next
  BY DEF readerVars, TypeOK, Links, CursorInv
<1>3. IsFiniteSet(log')
  BY <1>1, FS_AddElement DEF CursorInv
<1>4. \A a \in Readers : {e \in log' : e.seq <= cursor'[a]} = {e \in log : e.seq <= cursor[a]}
  BY <1>1, <1>2, LogAssumption
<1> QED
  BY <1>1, <1>2, <1>3, <1>4, LogAssumption DEF CursorInv, CursorMissesNothing, readerVars

LEMMA PollCursor ==
    ASSUME TypeOK, Sequenced, CursorInv, NEW a \in Readers, PollRead(a)
    PROVE  CursorInv'
<1>1. UNCHANGED <<log, next>> /\ \A b \in Readers \ {a} : cursor'[b] = cursor[b] /\ seen'[b] = seen[b]
  BY DEF PollRead, convVars, TypeOK
<1>2. seen'[a] = seen[a] \cup Page(a)
  BY DEF PollRead, TypeOK
<1>3. CASE Page(a) = {}
  BY <1>1, <1>2, <1>3 DEF PollRead, CursorInv, CursorMissesNothing
<1>4. CASE Page(a) # {}
  <2>1. PICK last \in Page(a) : cursor'[a] = last.seq /\ \A e \in Page(a) : e.seq <= last.seq
    BY <1>4 DEF PollRead
  <2>2. Page(a) = {e \in log : cursor[a] < e.seq /\ e.seq <= last.seq}
    BY <2>1, PageIsPrefix DEF CursorInv
  <2>3. last \in log /\ cursor[a] < last.seq /\ last.seq < next
    BY <2>2 DEF Sequenced, NextIsFresh
  <2>4. seen'[a] = {e \in log : e.seq <= cursor'[a]}
    BY <1>2, <2>1, <2>2, <2>3, LogAssumption DEF CursorInv, CursorMissesNothing, TypeOK, Events, Links
  <2> QED BY <1>1, <2>1, <2>3, <2>4 DEF CursorInv, CursorMissesNothing
<1> QED
  BY <1>3, <1>4

LEMMA CursorStep == TypeOK /\ Sequenced /\ CursorInv /\ [LogNext]_vars => CursorInv'
<1> SUFFICES ASSUME TypeOK, Sequenced, CursorInv, [LogNext]_vars PROVE CursorInv'
  OBVIOUS
<1>1. ASSUME NEW r \in AppendInputs, Requested(r)
       PROVE  CursorInv'
  BY <1>1, InsertCursor DEF Requested, AppendEvent
<1>2. ASSUME NEW a \in Actors, NEW k \in Keys, NEW c \in Changes, ChangeMember(a, k, c)
       PROVE  CursorInv'
  <2>1. Audit(a, k, c) \in AppendInputs /\ Insert(Audit(a, k, c)) /\ UNCHANGED readerVars
    BY <1>2, AuditType DEF ChangeMember, Audit
  <2> QED BY <2>1, InsertCursor
<1>3. CASE UNCHANGED <<next, log, cursor, seen>>
  BY <1>3 DEF CursorInv, CursorMissesNothing
<1> QED
  BY <1>1, <1>2, <1>3, PollCursor, Steps
     DEF vars, convVars, readerVars, DisableActor, PollAuthorize

(* A reader that polls by cursor has every event up to its cursor.           *)
THEOREM CursorMissesNothingHolds == Spec => []CursorMissesNothing
<1>1. Init => CursorInv
  BY LogAssumption, FS_EmptySet DEF Init, CursorInv, CursorMissesNothing
<1>2. CursorInv => CursorMissesNothing
  BY DEF CursorInv
<1> QED
  BY <1>1, <1>2, CursorStep, SequencedHolds, TypeCorrect, PTL DEF Spec

(* A membership row changes only together with the event that records it.    *)
THEOREM ChangesAreAuditedHolds == Spec => ChangesAreAudited
<1> DEFINE Audited(a) ==
      \E e \in log' \ log :
          /\ e.kind \in ChangeKinds
          /\ e.payload = [who |-> a, role |-> member'[a].role, status |-> member'[a].status]
<1>1. ASSUME TypeOK, Sequenced, [LogNext]_vars, NEW a \in Actors, member'[a] # member[a]
      PROVE  Audited(a)
  <2>1. PICK b \in Actors, k \in Keys, c \in Changes : ChangeMember(b, k, c)
    BY <1>1, Steps DEF vars, convVars, Requested, AppendEvent, DisableActor, PollAuthorize, PollRead
  <2> DEFINE new == Event(Audit(b, k, c), next)
  <2>2. /\ log' = log \cup {new} /\ new.seq = next
        /\ new.kind \in ChangeKinds /\ new.payload = c
    BY <1>1, <2>1, AuditType, Inserted, EventType DEF ChangeMember, Audit, Event
  <2>3. next \in Nat /\ new \notin log
    BY <1>1, <2>2, LogAssumption DEF Sequenced, NextIsFresh, TypeOK, Events
  <2>4. /\ c = [who |-> c.who, role |-> c.role, status |-> c.status]
        /\ a = c.who /\ member'[a] = [role |-> c.role, status |-> c.status]
    BY <1>1, <2>1, LogAssumption DEF ChangeMember, TypeOK
  <2> HIDE DEF new
  <2> QED BY <2>2, <2>3, <2>4
<1>2. ASSUME TypeOK, Sequenced, [LogNext]_vars
      PROVE  [\A a \in Actors : member'[a] # member[a] => Audited(a)]_vars
  BY <1>1, <1>2
<1> QED
  BY <1>2, SequencedHolds, TypeCorrect, PTL DEF Spec, ChangesAreAudited

(* A retry of an event that its author may still append finds it by its key, *)
(* whatever the status and the links have become; no other event has the     *)
(* key, so another payload is a conflict.                                    *)
THEOREM ReplayableHolds == Spec => []Replayable
<1>1. ASSUME Sequenced PROVE Replayable
  <2> SUFFICES ASSUME NEW e \in log, MayAppend(e.by, e.kind), NEW p \in Payloads
      PROVE  Outcome([by |-> e.by, key |-> e.key, kind |-> e.kind, payload |-> p,
                      target |-> e.target, reply |-> e.reply])
                 = IF p = e.payload THEN "existing" ELSE "idempotency_conflict"
    BY DEF Replayable
  <2> DEFINE retry == [by |-> e.by, key |-> e.key, kind |-> e.kind, payload |-> p,
                       target |-> e.target, reply |-> e.reply]
  <2>1. WithKey(retry.key) = {e}
    BY <1>1 DEF WithKey, Sequenced
  <2>2. SameEvent(e, retry) <=> p = e.payload
    BY DEF SameEvent
  <2>3. Authorized(retry.by) /\ MayAppend(retry.by, retry.kind)
    BY DEF MayAppend
  <2> HIDE DEF retry
  <2>4. Outcome(retry) = IF p = e.payload THEN "existing" ELSE "idempotency_conflict"
    BY <2>1, <2>2, <2>3 DEF Outcome
  <2> QED BY <2>4 DEF retry
<1> QED
  BY <1>1, SequencedHolds, PTL

-----------------------------------------------------------------------------
(* What the log shows: the board. *)

(* A set of naturals has a smallest element. *)
LEMMA Smallest ==
    ASSUME NEW T \in SUBSET Nat, T # {}
    PROVE  \E m \in T : \A n \in T : m <= n
<1>1. PICK m \in T : \A n \in T : <<n, m>> \notin OpToRel(<, Nat)
  BY NatLessThanWellFounded, WFMin
<1>2. \A n \in T : ~ (n < m)
  BY <1>1 DEF OpToRel
<1> QED
  BY <1>2

(* Induction, about a set: what has 0 and the successor of each of its       *)
(* elements is Nat.                                                          *)
LEMMA AllNaturals ==
    ASSUME NEW T \in SUBSET Nat, 0 \in T, \A n \in T : n + 1 \in T
    PROVE  T = Nat
<1> DEFINE Left == Nat \ T
<1> SUFFICES ASSUME Left # {} PROVE FALSE
  OBVIOUS
<1>1. PICK m \in Left : \A n \in Left : m <= n
  <2>1. Left \in SUBSET Nat
    OBVIOUS
  <2> HIDE DEF Left
  <2> QED BY <2>1, Smallest
<1>3. m - 1 \in Nat /\ m - 1 \notin Left
  BY <1>1
<1>4. m - 1 \in T
  BY <1>3
<1>5. m - 1 + 1 \in T
  BY <1>4
<1>6. m \in Nat /\ m \notin T
  OBVIOUS
<1>7. m - 1 + 1 = m
  BY <1>6
<1> QED
  BY <1>5, <1>6, <1>7

(* Above, of any log. *)
LinkOf(l, s) == CHOOSE e \in {e \in l : e.seq = s /\ e.target # 0} : TRUE

Body(l, g, s) ==
    IF {e \in l : e.seq = s /\ e.target # 0} = {} THEN s
    ELSE IF LinkOf(l, s).target < s THEN g[LinkOf(l, s).target] ELSE s

Root(l) == CHOOSE g : g = [s \in Links |-> Body(l, g, s)]

LEMMA AboveIsRoot == Above = Root(log) /\ Above' = Root(log')
BY DEF Above, Root, Body, LinkOf

(* The recursion only goes down, so there is a function that solves it. *)
LEMMA RootIs ==
    ASSUME NEW l \in SUBSET Events
    PROVE  /\ Root(l) \in [Links -> Links]
           /\ \A s \in Links : Root(l)[s] = Body(l, Root(l), s)
<1> USE LogAssumption DEF Links
<1>1. ASSUME NEW g \in [Links -> Links], NEW s \in Links PROVE Body(l, g, s) \in Links
  <2>1. CASE {e \in l : e.seq = s /\ e.target # 0} = {}
    BY <2>1 DEF Body
  <2>2. CASE {e \in l : e.seq = s /\ e.target # 0} # {}
    <3>1. LinkOf(l, s) \in Events
      BY <2>2 DEF LinkOf
    <3>2. LinkOf(l, s).target \in Links
      BY <3>1 DEF Events
    <3> QED BY <2>2, <3>2 DEF Body
  <2> QED BY <2>1, <2>2
<1> DEFINE Solves(n, g) == \A s \in Links : s <= n => g[s] = Body(l, g, s)
           Solved == {n \in Nat : \E g \in [Links -> Links] : Solves(n, g)}
<1>2. 0 \in Solved
  <2> DEFINE g == [s \in Links |-> s]
  <2>1. g \in [Links -> Links]
    OBVIOUS
  <2>2. \A e \in l : e.seq # 0
    BY DEF Events
  <2>3. Body(l, g, 0) = 0
    BY <2>2 DEF Body
  <2>4. Solves(0, g)
    BY <2>3
  <2> QED BY <2>1, <2>4
<1>3. ASSUME NEW n \in Solved PROVE n + 1 \in Solved
  <2>1. PICK g \in [Links -> Links] : Solves(n, g)
    OBVIOUS
  <2> DEFINE h == [s \in Links |-> IF s = n + 1 THEN Body(l, g, s) ELSE g[s]]
  <2>2. h \in [Links -> Links]
    BY <1>1
  <2>5. n \in Nat /\ n + 1 \in Nat /\ \A x \in Links : x # n + 1 => h[x] = g[x]
    OBVIOUS
  <2>3. ASSUME NEW s \in Links, s <= n + 1 PROVE Body(l, h, s) = Body(l, g, s)
    <3>1. CASE {e \in l : e.seq = s /\ e.target # 0} = {}
      BY <3>1 DEF Body
    <3>2. CASE {e \in l : e.seq = s /\ e.target # 0} # {}
      <4>1. LinkOf(l, s) \in Events
        BY <3>2 DEF LinkOf
      <4>2. LinkOf(l, s).target \in Links
        BY <4>1 DEF Events
      <4> HIDE DEF h
      <4>3. LinkOf(l, s).target < s => h[LinkOf(l, s).target] = g[LinkOf(l, s).target]
        <5>1. \A x \in Links : x < s => x # n + 1
          BY <2>3, <2>5
        <5> QED BY <2>5, <4>2, <5>1
      <4> QED BY <3>2, <4>3 DEF Body
    <3> QED BY <3>1, <3>2
  <2>4. Solves(n + 1, h)
    <3> SUFFICES ASSUME NEW s \in Links, s <= n + 1 PROVE h[s] = Body(l, h, s)
      OBVIOUS
    <3>1. Body(l, h, s) = Body(l, g, s)
      BY <2>3
    <3>2. CASE s = n + 1
      <4>1. h[s] = Body(l, g, s)
        BY <3>2
      <4> QED BY <3>1, <4>1
    <3>3. CASE s # n + 1
      <4>1. h[s] = g[s] /\ s <= n
        BY <3>3
      <4> QED BY <2>1, <3>1, <4>1
    <3> QED BY <3>2, <3>3
  <2> HIDE DEF Solves, h
  <2> QED BY <2>2, <2>4, <2>5
<1>4. Solved = Nat
  <2>1. Solved \in SUBSET Nat
    OBVIOUS
  <2> HIDE DEF Solved
  <2> QED BY <1>2, <1>3, <2>1, AllNaturals
<1>5. PICK g \in [Links -> Links] : \A s \in Links : g[s] = Body(l, g, s)
  <2>1. MaxSeq \in Solved
    BY <1>4
  <2>2. PICK g \in [Links -> Links] : Solves(MaxSeq, g)
    BY <2>1
  <2>3. \A s \in Links : s <= MaxSeq
    OBVIOUS
  <2> QED BY <2>2, <2>3
<1>6. g = [s \in Links |-> Body(l, g, s)]
  BY <1>5
<1> DEFINE root == Root(l)
<1>7. root = [s \in Links |-> Body(l, root, s)]
  <2> DEFINE Is(f) == f = [s \in Links |-> Body(l, f, s)]
  <2>1. Is(g)
    BY <1>6
  <2>2. root = CHOOSE f : Is(f)
    BY DEF Root
  <2> HIDE DEF Is, root
  <2>3. Is(root)
    BY <2>1, <2>2
  <2> QED BY <2>3 DEF Is
<1> HIDE DEF root
<1>8. DOMAIN root = Links /\ \A s \in Links : root[s] = Body(l, root, s)
  BY <1>7
<1> DEFINE Equal == {n \in Nat : \A s \in Links : s <= n => root[s] = g[s]}
<1>9. Equal = Nat
  <2>1. 0 \in Equal
    <3>1. \A e \in l : e.seq # 0
      BY DEF Events
    <3>2. Body(l, root, 0) = 0 /\ Body(l, g, 0) = 0
      BY <3>1 DEF Body
    <3> QED BY <1>5, <1>8, <3>2
  <2>2. ASSUME NEW n \in Equal PROVE n + 1 \in Equal
    <3> SUFFICES ASSUME NEW s \in Links, s = n + 1 PROVE root[s] = g[s]
      OBVIOUS
    <3>1. CASE {e \in l : e.seq = s /\ e.target # 0} = {}
      BY <1>5, <1>8, <3>1 DEF Body
    <3>2. CASE {e \in l : e.seq = s /\ e.target # 0} # {}
      <4>1. LinkOf(l, s) \in Events
        BY <3>2 DEF LinkOf
      <4>2. LinkOf(l, s).target \in Links
        BY <4>1 DEF Events
      <4>3. LinkOf(l, s).target < s => root[LinkOf(l, s).target] = g[LinkOf(l, s).target]
        <5>1. n \in Nat /\ \A x \in Links : x <= n => root[x] = g[x]
          OBVIOUS
        <5>2. \A x \in Links : x < s => x <= n
          BY <5>1
        <5> QED BY <4>2, <5>1, <5>2
      <4>4. Body(l, root, s) = Body(l, g, s)
        BY <3>2, <4>3 DEF Body
      <4> QED BY <1>5, <1>8, <4>4
    <3> QED BY <3>1, <3>2
  <2>3. Equal \in SUBSET Nat
    OBVIOUS
  <2> HIDE DEF Equal
  <2> QED BY <2>1, <2>2, <2>3, AllNaturals
<1>10. root \in [Links -> Links]
  <2>1. \A s \in Links : root[s] = g[s]
    <3>1. MaxSeq \in Equal
      BY <1>9
    <3> QED BY <3>1
  <2>2. root = [s \in Links |-> root[s]]
    <3>1. root = [s \in Links |-> Body(l, root, s)]
      BY <1>7
    <3> QED BY <1>8, <3>1
  <2> QED BY <2>1, <2>2
<1> QED
  BY <1>8, <1>10 DEF root

(* A log of message histories: its events have sequences of their own, and   *)
(* an edit or a tombstone replaces a version before it that no other does.   *)
Chained(l) ==
    /\ \A e, f \in l : e.seq = f.seq => e = f
    /\ \A e, f \in l : e.target # 0 /\ e.target = f.target => e = f
    /\ \A e \in l : e.target # 0 <=> e.kind \in {"edited", "deleted"}
    /\ \A e \in l : e.target # 0 =>
           \E t \in l : t.seq = e.target /\ t.seq < e.seq /\ t.kind \in {"created", "edited"}

(* Where an event's chain of targets ends. *)
LEMMA RootOf ==
    ASSUME NEW l \in SUBSET Events, Chained(l)
    PROVE  /\ \A e \in l : e.target = 0 => Root(l)[e.seq] = e.seq
           /\ \A e \in l : e.target # 0 => Root(l)[e.seq] = Root(l)[e.target]
           /\ \A s \in Links : (\A e \in l : e.seq # s) => Root(l)[s] = s
           /\ \A s \in Links : Root(l)[s] \in Links /\ Root(l)[s] <= s /\ (s # 0 => Root(l)[s] # 0)
<1> DEFINE root == Root(l)
<1>1. root \in [Links -> Links] /\ \A s \in Links : root[s] = Body(l, root, s)
  BY RootIs
<1> HIDE DEF root
<1>2. \A e \in l : e.seq \in Links /\ e.seq # 0 /\ e.target \in Links
  BY LogAssumption DEF Events, Links
<1>3. ASSUME NEW s \in Links, \A e \in l : e.seq = s => e.target = 0 PROVE root[s] = s
  BY <1>1, <1>3 DEF Body
<1>4. ASSUME NEW e \in l, e.target # 0 PROVE root[e.seq] = root[e.target] /\ e.target < e.seq
  <2>1. {d \in l : d.seq = e.seq /\ d.target # 0} = {e}
    BY <1>4 DEF Chained
  <2>2. LinkOf(l, e.seq) = e
    BY <2>1 DEF LinkOf
  <2>3. e.target < e.seq
    BY <1>4 DEF Chained
  <2>4. Body(l, root, e.seq) = root[e.target]
    BY <2>1, <2>2, <2>3 DEF Body
  <2> QED BY <1>1, <1>2, <2>3, <2>4
<1>5. \A e \in l : e.target = 0 => root[e.seq] = e.seq
  <2> SUFFICES ASSUME NEW e \in l, e.target = 0 PROVE root[e.seq] = e.seq
    OBVIOUS
  <2>1. \A d \in l : d.seq = e.seq => d.target = 0
    BY DEF Chained
  <2> QED BY <1>2, <1>3, <2>1
<1> DEFINE Down == {n \in Nat : \A s \in Links : s <= n => root[s] <= s /\ (s # 0 => root[s] # 0)}
<1>6. Down = Nat
  <2>1. 0 \in Down
    <3>1. root[0] = 0 /\ 0 \in Links
      <4>1. 0 \in Links
        BY LogAssumption DEF Links
      <4> QED BY <1>2, <1>3, <4>1
    <3> QED BY <3>1, LogAssumption DEF Links
  <2>2. ASSUME NEW n \in Down PROVE n + 1 \in Down
    <3>1. n \in Nat /\ n + 1 \in Nat /\ \A s \in Links : s <= n => root[s] <= s /\ (s # 0 => root[s] # 0)
      OBVIOUS
    <3>2. ASSUME NEW s \in Links, s = n + 1 PROVE root[s] <= s /\ (s # 0 => root[s] # 0)
      <4>1. s \in Nat
        BY LogAssumption DEF Links
      <4>2. CASE \A e \in l : e.seq = s => e.target = 0
        <5>1. root[s] = s
          BY <1>3, <4>2
        <5> QED BY <4>1, <5>1
      <4>3. CASE \E e \in l : e.seq = s /\ e.target # 0
        <5>1. PICK e \in l : e.seq = s /\ e.target # 0
          BY <4>3
        <5>2. root[s] = root[e.target] /\ e.target < s
          BY <1>4, <5>1
        <5>3. e.target \in Links /\ e.target \in Nat /\ root[e.target] \in Nat
          BY <1>1, <1>2, LogAssumption DEF Links
        <5>4. e.target <= n
          BY <3>1, <3>2, <5>2, <5>3
        <5> QED BY <3>1, <4>1, <5>1, <5>2, <5>3, <5>4
      <4> QED BY <4>2, <4>3
    <3>3. \A s \in Links : s <= n + 1 => s <= n \/ s = n + 1
      BY <3>1, LogAssumption DEF Links
    <3> QED BY <3>1, <3>2, <3>3
  <2>3. Down \in SUBSET Nat
    OBVIOUS
  <2> HIDE DEF Down
  <2> QED BY <2>1, <2>2, <2>3, AllNaturals
<1>7. \A s \in Links : root[s] <= s /\ (s # 0 => root[s] # 0)
  <2>1. \A s \in Links : s \in Nat /\ s <= s
    BY LogAssumption DEF Links
  <2>2. \A s \in Links : s \in Down
    BY <1>6, <2>1
  <2> QED BY <2>1, <2>2
<1>8. \A s \in Links : (\A e \in l : e.seq # s) => root[s] = s
  BY <1>3
<1>9. \A e \in l : e.target # 0 => root[e.seq] = root[e.target]
  BY <1>4
<1> QED
  BY <1>1, <1>5, <1>7, <1>8, <1>9 DEF root

(* An event that comes last leaves the other chains as they are. *)
LEMMA RootStays ==
    ASSUME NEW l \in SUBSET Events, Chained(l), NEW new \in Events, Chained(l \cup {new}),
           \A e \in l : e.seq < new.seq
    PROVE  \A s \in Links : s # new.seq => Root(l \cup {new})[s] = Root(l)[s]
<1> DEFINE root == Root(l)
           more == Root(l \cup {new})
           Same == {n \in Nat : \A s \in Links : s <= n /\ s # new.seq => more[s] = root[s]}
<1>1. l \cup {new} \in SUBSET Events
  OBVIOUS
<1>2. /\ \A e \in l : e.target = 0 => root[e.seq] = e.seq /\ more[e.seq] = e.seq
      /\ \A e \in l : e.target # 0 => root[e.seq] = root[e.target] /\ more[e.seq] = more[e.target]
      /\ \A s \in Links : s # new.seq /\ (\A e \in l : e.seq # s) => root[s] = s /\ more[s] = s
  <2>1. /\ \A e \in l : e.target = 0 => root[e.seq] = e.seq
        /\ \A e \in l : e.target # 0 => root[e.seq] = root[e.target]
        /\ \A s \in Links : (\A e \in l : e.seq # s) => root[s] = s
    BY RootOf
  <2>2. /\ \A e \in l \cup {new} : e.target = 0 => more[e.seq] = e.seq
        /\ \A e \in l \cup {new} : e.target # 0 => more[e.seq] = more[e.target]
        /\ \A s \in Links : (\A e \in l \cup {new} : e.seq # s) => more[s] = s
    BY <1>1, RootOf
  <2> HIDE DEF root, more
  <2> QED BY <2>1, <2>2
<1> HIDE DEF root, more
<1>3. \A e \in l : e.seq \in Nat /\ e.target \in Links /\ e.target \in Nat
  BY LogAssumption DEF Events, Links
<1>4. \A e \in l : e.target # 0 => e.target < e.seq /\ e.target # new.seq
  <2> SUFFICES ASSUME NEW e \in l, e.target # 0 PROVE e.target < e.seq /\ e.target # new.seq
    OBVIOUS
  <2>1. PICK t \in l : t.seq = e.target /\ t.seq < e.seq
    BY DEF Chained
  <2>2. t.seq < new.seq /\ t.seq \in Nat /\ new.seq \in Nat
    BY <1>3 DEF Events
  <2> QED BY <2>1, <2>2
<1>5. ASSUME NEW s \in Links, s # new.seq,
             \A x \in Links : x < s /\ x # new.seq => more[x] = root[x]
      PROVE  more[s] = root[s]
  <2>1. CASE \A e \in l : e.seq # s
    BY <1>2, <1>5, <2>1
  <2>2. CASE \E e \in l : e.seq = s
    <3>1. PICK e \in l : e.seq = s
      BY <2>2
    <3>2. CASE e.target = 0
      BY <1>2, <3>1, <3>2
    <3>3. CASE e.target # 0
      BY <1>2, <1>3, <1>4, <1>5, <3>1, <3>3
    <3> QED BY <3>2, <3>3
  <2> QED BY <2>1, <2>2
<1>6. \A s \in Links : s \in Nat
  BY LogAssumption DEF Links
<1>7. Same = Nat
  <2>1. 0 \in Same
    <3>1. \A x \in Links : ~ x < 0
      BY <1>6
    <3>2. 0 \in Links
      BY LogAssumption DEF Links
    <3>3. 0 # new.seq => more[0] = root[0]
      BY <1>5, <3>1, <3>2
    <3> QED BY <1>6, <3>3
  <2>2. ASSUME NEW n \in Same PROVE n + 1 \in Same
    <3>1. n \in Nat /\ n + 1 \in Nat
          /\ \A s \in Links : s <= n /\ s # new.seq => more[s] = root[s]
      OBVIOUS
    <3>2. ASSUME NEW s \in Links, s <= n + 1, s # new.seq PROVE more[s] = root[s]
      <4>1. \A x \in Links : x < s => x <= n
        BY <1>6, <3>1, <3>2
      <4> QED BY <1>5, <3>1, <3>2, <4>1
    <3> QED BY <3>1, <3>2
  <2>3. Same \in SUBSET Nat
    OBVIOUS
  <2> HIDE DEF Same
  <2> QED BY <2>1, <2>2, <2>3, AllNaturals
<1>8. \A s \in Links : s <= s /\ s \in Same
  BY <1>6, <1>7
<1> QED
  BY <1>8 DEF root, more

(* A chain is a line: what is not its last event has a successor, and that   *)
(* one comes no later than anything that follows.                            *)
LEMMA ChainIsLine ==
    ASSUME NEW l \in SUBSET Events, Chained(l), NEW e \in l, NEW f \in l,
           Root(l)[e.seq] = Root(l)[f.seq], e.seq < f.seq
    PROVE  \E g \in l : g.target = e.seq /\ g.seq <= f.seq
<1> DEFINE root == Root(l)
           Follows(a, b) == \E g \in l : g.target = a.seq /\ g.seq <= b.seq
           Line == {n \in Nat : \A a, b \in l :
                      b.seq <= n /\ root[a.seq] = root[b.seq] /\ a.seq < b.seq => Follows(a, b)}
<1>1. /\ \A a \in l : a.target = 0 => root[a.seq] = a.seq
      /\ \A a \in l : a.target # 0 => root[a.seq] = root[a.target]
      /\ \A s \in Links : root[s] <= s
  BY RootOf
<1> HIDE DEF root
<1>2. \A a \in l : a.seq \in Nat /\ a.seq \in Links /\ 0 < a.seq /\ a.target \in Links
  BY LogAssumption DEF Events, Links
<1>3. \A s \in Links : s \in Nat
  BY LogAssumption DEF Links
<1>4. Line = Nat
  <2>1. 0 \in Line
    BY <1>2
  <2>2. ASSUME NEW n \in Line PROVE n + 1 \in Line
    <3>1. n \in Nat /\ n + 1 \in Nat
      OBVIOUS
    <3>2. \A a, b \in l : b.seq <= n /\ root[a.seq] = root[b.seq] /\ a.seq < b.seq => Follows(a, b)
      OBVIOUS
    <3>3. ASSUME NEW a \in l, NEW b \in l, b.seq <= n + 1, root[a.seq] = root[b.seq], a.seq < b.seq
          PROVE  Follows(a, b)
      <4>1. b.target # 0
        <5> SUFFICES ASSUME b.target = 0 PROVE FALSE
          OBVIOUS
        <5>1. root[b.seq] = b.seq /\ root[a.seq] <= a.seq
          BY <1>1, <1>2
        <5> QED BY <1>2, <3>3, <5>1
      <4>2. PICK p \in l : p.seq = b.target /\ p.seq < b.seq
        BY <4>1 DEF Chained
      <4>3. root[p.seq] = root[b.seq]
        BY <1>1, <4>1, <4>2
      <4>4. /\ a.seq \in Nat /\ b.seq \in Nat /\ p.seq \in Nat /\ p.seq <= n
            /\ (a.seq <= n \/ a.seq = b.seq)
        BY <1>2, <3>1, <3>3, <4>2
      <4>5. CASE a.seq = p.seq
        <5>1. b.target = a.seq /\ b.seq <= b.seq
          BY <4>2, <4>4, <4>5
        <5> QED BY <5>1
      <4>6. CASE a.seq < p.seq
        <5>1. Follows(a, p)
          BY <3>2, <3>3, <4>3, <4>4, <4>6
        <5>2. PICK g \in l : g.target = a.seq /\ g.seq <= p.seq
          BY <5>1
        <5>3. g.seq <= b.seq
          BY <1>2, <4>2, <4>4, <5>2
        <5> QED BY <5>2, <5>3
      <4>7. CASE p.seq < a.seq
        <5>1. Follows(p, a)
          BY <3>2, <3>3, <4>3, <4>4, <4>7
        <5>2. PICK g \in l : g.target = p.seq /\ g.seq <= a.seq
          BY <5>1
        <5>3. g = b
          BY <4>1, <4>2, <5>2 DEF Chained
        <5> QED BY <3>3, <4>4, <5>2, <5>3
      <4>8. a.seq = p.seq \/ a.seq < p.seq \/ p.seq < a.seq
        <5>1. \A x, y \in Nat : x = y \/ x < y \/ y < x
          OBVIOUS
        <5>2. a.seq \in Nat /\ p.seq \in Nat
          BY <4>4
        <5> QED BY <5>1, <5>2
      <4> QED BY <4>5, <4>6, <4>7, <4>8
    <3> HIDE DEF Follows
    <3> QED BY <3>1, <3>3
  <2>3. Line \in SUBSET Nat
    OBVIOUS
  <2> HIDE DEF Line
  <2> QED BY <2>1, <2>2, <2>3, AllNaturals
<1>5. f.seq \in Line /\ f.seq <= f.seq
  BY <1>2, <1>4
<1>6. Follows(e, f)
  BY <1>5 DEF root
<1> QED
  BY <1>6

(* So it has one last event. *)
LEMMA OneLast ==
    ASSUME NEW l \in SUBSET Events, Chained(l), NEW e \in l, NEW f \in l,
           Root(l)[e.seq] = Root(l)[f.seq],
           ~ \E g \in l : g.target = e.seq, ~ \E g \in l : g.target = f.seq
    PROVE  e = f
<1>1. e.seq \in Nat /\ f.seq \in Nat
  BY DEF Events
<1>2. ~ e.seq < f.seq /\ ~ f.seq < e.seq
  BY ChainIsLine
<1>3. e.seq = f.seq
  BY <1>1, <1>2
<1> QED
  BY <1>3 DEF Chained
(* The messages of any log. *)
VersionIn(l, m) ==
    {e \in l : e.kind \in {"created", "edited", "deleted"} /\ Root(l)[e.seq] = m}

LastIn(l, m) == {e \in VersionIn(l, m) : ~ \E later \in l : later.target = e.seq}

StateIn(l, m) ==
    IF VersionIn(l, m) = {} THEN [state |-> "absent"]
    ELSE IF \E e \in VersionIn(l, m) : e.kind = "deleted" THEN [state |-> "deleted"]
    ELSE [state |-> "live", text |-> (CHOOSE e \in LastIn(l, m) : TRUE).payload]

BoardOf(l) == [m \in 1 .. MaxSeq |-> StateIn(l, m)]

(* The board of the log is what the refinement mapping shows. *)
LEMMA TextOfIsBoard == TextOf = BoardOf(log) /\ TextOf' = BoardOf(log')
<1>1. Above = Root(log) /\ Above' = Root(log')
  BY AboveIsRoot
<1>2. TextOf = BoardOf(log)
  BY <1>1 DEF TextOf, BoardOf, StateIn, VersionIn, LastIn, Version, Last, Latest
<1>3. TextOf' = BoardOf(log')
  BY <1>1 DEF TextOf, BoardOf, StateIn, VersionIn, LastIn, Version, Last, Latest
<1> QED
  BY <1>2, <1>3

(* What a new event does to the versions: it joins those of one message.     *)
LEMMA VersionsGrow ==
    ASSUME NEW l \in SUBSET Events, Chained(l), NEW new \in Events, Chained(l \cup {new}),
           \A e \in l : e.seq < new.seq
    PROVE  LET more == l \cup {new}
               m    == Root(more)[new.seq]
           IN  /\ m \in 1 .. MaxSeq
               /\ new.target = 0 => m = new.seq /\ VersionIn(l, m) = {}
               /\ new.target # 0 => \E t \in l : /\ t \in VersionIn(l, m) /\ t.seq = new.target
                                                 /\ ~ \E g \in l : g.target = t.seq
               /\ new.kind \in {"created", "edited", "deleted"} =>
                      VersionIn(more, m) = VersionIn(l, m) \cup {new}
               /\ new.kind \notin {"created", "edited", "deleted"} =>
                      VersionIn(more, m) = VersionIn(l, m)
               /\ \A other \in 1 .. MaxSeq \ {m} :
                      /\ VersionIn(more, other) = VersionIn(l, other)
                      /\ LastIn(more, other) = LastIn(l, other)
<1> DEFINE more == l \cup {new}
           m    == Root(more)[new.seq]
<1>1. more \in SUBSET Events
  OBVIOUS
<1>2. \A e \in more : e.seq \in Nat /\ e.seq \in Links /\ 0 < e.seq /\ e.target \in Links
  BY LogAssumption DEF Events, Links
<1>3. \A e \in l : e.seq # new.seq /\ Root(more)[e.seq] = Root(l)[e.seq]
  <2>1. \A e \in l : e.seq # new.seq
    BY <1>2
  <2> QED BY <1>2, <2>1, RootStays
<1>4. /\ new.target = 0 => m = new.seq
      /\ new.target # 0 => m = Root(more)[new.target]
      /\ m \in Links /\ m # 0
  BY <1>1, <1>2, RootOf
<1>5. m \in 1 .. MaxSeq
  BY <1>4, LogAssumption DEF Links
<1> HIDE DEF m
<1>6. ASSUME new.target = 0 PROVE VersionIn(l, m) = {}
  <2>1. \A e \in l : Root(l)[e.seq] \in Links /\ Root(l)[e.seq] <= e.seq
    BY <1>2, RootOf
  <2>2. \A e \in l : Root(l)[e.seq] # new.seq
    BY <1>2, <2>1, LogAssumption DEF Links
  <2> QED BY <1>4, <1>6, <2>2 DEF VersionIn
<1>7. ASSUME new.target # 0
      PROVE  \E t \in l : /\ t \in VersionIn(l, m) /\ t.seq = new.target
                          /\ ~ \E g \in l : g.target = t.seq
  <2>1. PICK t \in more : t.seq = new.target /\ t.seq < new.seq /\ t.kind \in {"created", "edited"}
    BY <1>7 DEF Chained
  <2>2. t \in l
    BY <1>2, <2>1
  <2>3. Root(l)[t.seq] = m
    BY <1>3, <1>4, <1>7, <2>1, <2>2
  <2>4. ~ \E g \in l : g.target = t.seq
    BY <1>3, <1>7, <2>1 DEF Chained
  <2> QED BY <2>1, <2>2, <2>3, <2>4 DEF VersionIn
<1>8. \A x : VersionIn(more, x) =
          VersionIn(l, x) \cup {e \in {new} : e.kind \in {"created", "edited", "deleted"} /\ m = x}
  BY <1>3 DEF VersionIn, m
<1>9. ASSUME NEW other \in 1 .. MaxSeq \ {m}
      PROVE  /\ VersionIn(more, other) = VersionIn(l, other)
             /\ LastIn(more, other) = LastIn(l, other)
  <2>1. VersionIn(more, other) = VersionIn(l, other)
    BY <1>8
  <2>2. \A e \in VersionIn(l, other) : new.target # e.seq
    <3> SUFFICES ASSUME NEW e \in VersionIn(l, other), new.target = e.seq PROVE FALSE
      OBVIOUS
    <3>1. e \in l /\ Root(l)[e.seq] = other
      BY DEF VersionIn
    <3>2. new.target # 0
      BY <1>2, <3>1
    <3>3. m = other
      BY <1>3, <1>4, <3>1, <3>2
    <3> QED BY <3>3
  <2> QED BY <2>1, <2>2 DEF LastIn
<1> QED
  BY <1>4, <1>5, <1>6, <1>7, <1>8, <1>9 DEF m

(* What the board shows of it. *)
LEMMA BoardGrows ==
    ASSUME NEW l \in SUBSET Events, Chained(l), NEW new \in Events, Chained(l \cup {new}),
           \A e \in l : e.seq < new.seq, new.kind \in {"created", "edited"} => new.payload \in Bodies
    PROVE  LET before == BoardOf(l)
               after  == BoardOf(l \cup {new})
           IN  \/ after = before
               \/ \E m \in 1 .. MaxSeq, t \in Bodies :
                     /\ before[m].state \in {"absent", "live"}
                     /\ after = [before EXCEPT ![m] = [state |-> "live", text |-> t]]
               \/ \E m \in 1 .. MaxSeq :
                     /\ before[m].state = "live"
                     /\ after = [before EXCEPT ![m] = [state |-> "deleted"]]
<1> DEFINE more == l \cup {new}
           m    == Root(more)[new.seq]
           old  == VersionIn(l, m)
<1>1. /\ m \in 1 .. MaxSeq
      /\ new.target = 0 => m = new.seq /\ old = {}
      /\ new.target # 0 => \E t \in l : /\ t \in old /\ t.seq = new.target
                                        /\ ~ \E g \in l : g.target = t.seq
      /\ new.kind \in {"created", "edited", "deleted"} => VersionIn(more, m) = old \cup {new}
      /\ new.kind \notin {"created", "edited", "deleted"} => VersionIn(more, m) = old
      /\ \A other \in 1 .. MaxSeq \ {m} : /\ VersionIn(more, other) = VersionIn(l, other)
                                          /\ LastIn(more, other) = LastIn(l, other)
  BY VersionsGrow
<1>2. more \in SUBSET Events
  OBVIOUS
<1> HIDE DEF m
<1>3. \A other \in 1 .. MaxSeq \ {m} : StateIn(more, other) = StateIn(l, other)
  BY <1>1 DEF StateIn
<1>4. \A s : StateIn(more, m) = s => BoardOf(more) = [BoardOf(l) EXCEPT ![m] = s]
  BY <1>1, <1>3 DEF BoardOf
<1>5. new.target # 0 <=> new.kind \in {"edited", "deleted"}
  BY DEF Chained
<1>6. BoardOf(l)[m] = StateIn(l, m)
  BY <1>1 DEF BoardOf
<1>7. CASE new.kind \notin {"created", "edited", "deleted"}
  <2>1. StateIn(l, m) = [state |-> "absent"] /\ StateIn(more, m) = [state |-> "absent"]
    BY <1>1, <1>5, <1>7 DEF StateIn
  <2>2. BoardOf(more) = BoardOf(l)
    BY <1>3, <2>1 DEF BoardOf
  <2> QED BY <2>2
<1>8. ASSUME new.kind \in {"edited", "deleted"} PROVE BoardOf(l)[m].state = "live"
  <2>1. PICK t \in l : t \in old /\ t.seq = new.target /\ ~ \E g \in l : g.target = t.seq
    BY <1>1, <1>5, <1>8
  <2>2. \A d \in old : d.kind # "deleted"
    <3> SUFFICES ASSUME NEW d \in old, d.kind = "deleted" PROVE FALSE
      OBVIOUS
    <3>1. d \in l /\ Root(l)[d.seq] = m /\ Root(l)[t.seq] = m
      BY <2>1 DEF VersionIn
    <3>2. ~ \E g \in more : g.target = d.seq
      <4> SUFFICES ASSUME NEW g \in more, g.target = d.seq PROVE FALSE
        OBVIOUS
      <4>1. d.seq # 0
        BY <3>1 DEF Events
      <4>2. PICK p \in more : p.seq = g.target /\ p.kind \in {"created", "edited"}
        BY <4>1 DEF Chained
      <4>3. p = d
        BY <3>1, <4>2 DEF Chained
      <4> QED BY <4>2, <4>3
    <3>3. d = t
      BY <2>1, <3>1, <3>2, OneLast
    <3> QED BY <1>5, <1>8, <2>1, <3>2, <3>3
  <2>3. StateIn(l, m).state = "live"
    BY <2>1, <2>2 DEF StateIn
  <2> QED BY <1>6, <2>3
<1>9. CASE new.kind = "deleted"
  <2>1. StateIn(more, m) = [state |-> "deleted"]
    BY <1>1, <1>9 DEF StateIn
  <2> QED BY <1>1, <1>4, <1>8, <1>9, <2>1
<1>10. CASE new.kind \in {"created", "edited"}
  <2>1. BoardOf(l)[m].state \in {"absent", "live"}
    <3>1. CASE new.kind = "created"
      BY <1>1, <1>5, <1>6, <3>1 DEF StateIn
    <3>2. CASE new.kind = "edited"
      BY <1>8, <3>2
    <3> QED BY <1>10, <3>1, <3>2
  <2>2. VersionIn(more, m) = old \cup {new}
    BY <1>1, <1>10
  <2>3. \A d \in VersionIn(more, m) : d.kind # "deleted"
    <3>1. CASE new.kind = "created"
      BY <1>1, <1>5, <2>2, <3>1
    <3>2. CASE new.kind = "edited"
      <4>1. BoardOf(l)[m].state = "live"
        BY <1>8, <3>2
      <4>2. \A d \in old : d.kind # "deleted"
        BY <1>6, <4>1 DEF StateIn
      <4> QED BY <2>2, <3>2, <4>2
    <3> QED BY <1>10, <3>1, <3>2
  <2>4. LastIn(more, m) = {new}
    <3>1. \A g \in more : g.target # new.seq
      <4> SUFFICES ASSUME NEW g \in more, g.target = new.seq PROVE FALSE
        OBVIOUS
      <4>1. \A e \in more : e.seq \in Nat /\ e.seq # 0
        BY DEF Events
      <4>2. PICK p \in more : p.seq = g.target /\ p.seq < g.seq
        BY <4>1 DEF Chained
      <4>3. g = new \/ g.seq < new.seq
        OBVIOUS
      <4> QED BY <4>1, <4>2, <4>3
    <3>2. new \in LastIn(more, m)
      BY <2>2, <3>1 DEF LastIn
    <3>3. ASSUME NEW e \in LastIn(more, m) PROVE e = new
      <4>1. e \in more /\ new \in more /\ Root(more)[e.seq] = m /\ Root(more)[new.seq] = m
        BY <3>2, <3>3 DEF LastIn, VersionIn
      <4>2. (~ \E g \in more : g.target = e.seq) /\ (~ \E g \in more : g.target = new.seq)
        BY <3>1, <3>3 DEF LastIn
      <4> QED BY <1>2, <4>1, <4>2, OneLast
    <3> QED BY <3>2, <3>3
  <2>5. (CHOOSE e \in LastIn(more, m) : TRUE) = new
    BY <2>4
  <2>6. StateIn(more, m) = [state |-> "live", text |-> new.payload]
    BY <2>2, <2>3, <2>5 DEF StateIn
  <2>7. new.payload \in Bodies
    BY <1>10
  <2> QED BY <1>1, <1>4, <2>1, <2>6, <2>7
<1> QED
  BY <1>7, <1>9, <1>10

-----------------------------------------------------------------------------
(* Every edit and every tombstone has a target, since no event has sequence  *)
(* 0; with the rest the log is chained.                                      *)
Linked == \A e \in log : e.kind \in {"edited", "deleted"} => e.target # 0

(* So the log is chained: the board lemmas apply to it. *)
LEMMA LogIsChained ==
    ASSUME Sequenced, OneChain, Targeted, Linked
    PROVE  Chained(log)
<1>1. \A e, f \in log : e.seq = f.seq => e = f
  BY DEF Sequenced
<1> QED
  BY <1>1 DEF OneChain, Targeted, Linked, Chained

(* What a step does to the log, if anything: it appends one event that comes *)
(* after all others.                                                         *)
LEMMA StepAppends ==
    ASSUME TypeOK, Sequenced, [LogNext]_vars
    PROVE  \/ UNCHANGED log
           \/ \E new \in Events :
                 /\ log' = log \cup {new} /\ \A e \in log : e.seq < new.seq
                 /\ new.target # 0 <=> new.kind \in {"edited", "deleted"}
                 /\ new.kind \in {"created", "edited"} => new.payload \in Bodies
<1>1. \A e \in log : e.seq < next
  BY DEF Sequenced, NextIsFresh
<1>2. ASSUME NEW r \in AppendInputs, Insert(r), r.target # 0 <=> r.kind \in {"edited", "deleted"},
             r.kind \in {"created", "edited"} => r.payload \in Bodies
      PROVE  \E new \in Events :
                 /\ log' = log \cup {new} /\ \A e \in log : e.seq < new.seq
                 /\ new.target # 0 <=> new.kind \in {"edited", "deleted"}
                 /\ new.kind \in {"created", "edited"} => new.payload \in Bodies
  <2> DEFINE new == Event(r, next)
  <2>1. /\ new \in Events /\ log' = log \cup {new} /\ new.seq = next
        /\ new.kind = r.kind /\ new.target = r.target /\ new.payload = r.payload
    BY <1>2, Inserted, EventType
  <2> HIDE DEF new
  <2> QED BY <1>1, <1>2, <2>1
<1>3. ASSUME NEW r \in AppendInputs, Requested(r)
      PROVE  Insert(r) /\ (r.target # 0 <=> r.kind \in {"edited", "deleted"})
             /\ (r.kind \in {"created", "edited"} => r.payload \in Bodies)
  <2>1. ASSUME r.kind \in {"edited", "deleted"} PROVE r.target # 0
    <3>1. LinksValid(r)
      BY <1>3 DEF Requested, AppendEvent, Outcome
    <3>2. PICK e \in log : e.seq = r.target
      BY <2>1, <3>1 DEF LinksValid, Standing
    <3>3. e.seq \in 1 .. MaxSeq
      BY <3>2 DEF TypeOK, Events
    <3> QED BY <3>2, <3>3, LogAssumption
  <2> QED BY <1>3, <2>1 DEF Requested, AppendEvent
<1>4. ASSUME NEW a \in Actors, NEW k \in Keys, NEW c \in Changes, ChangeMember(a, k, c)
      PROVE  /\ Audit(a, k, c) \in AppendInputs /\ Insert(Audit(a, k, c))
             /\ Audit(a, k, c).target = 0 /\ Audit(a, k, c).kind \in ChangeKinds
  BY <1>4, AuditType DEF ChangeMember, Audit
<1>5. \A kind \in ChangeKinds : kind \notin {"created", "edited", "deleted"}
  BY DEF ChangeKinds
<1>6. CASE \E r \in AppendInputs : Requested(r)
  BY <1>2, <1>3, <1>6
<1>7. CASE \E a \in Actors, k \in Keys, c \in Changes : ChangeMember(a, k, c)
  <2>1. PICK a \in Actors, k \in Keys, c \in Changes : ChangeMember(a, k, c)
    BY <1>7
  <2> DEFINE r == Audit(a, k, c)
  <2>2. r \in AppendInputs /\ Insert(r) /\ r.target = 0 /\ r.kind \in ChangeKinds
    BY <1>4, <2>1
  <2> HIDE DEF r
  <2> QED BY <1>2, <1>5, <2>2
<1>8. CASE UNCHANGED log
  BY <1>8
<1> QED
  BY <1>6, <1>7, <1>8, Steps
     DEF vars, convVars, DisableActor, PollAuthorize, PollRead

(* A step that appends an edit or a tombstone gives it a target. *)
LEMMA LinkedStep == TypeOK /\ Sequenced /\ Linked /\ [LogNext]_vars => Linked'
<1> SUFFICES ASSUME TypeOK, Sequenced, Linked, [LogNext]_vars PROVE Linked'
  OBVIOUS
<1> QED
  BY StepAppends DEF Linked

(* The log implements the board: an event posts, edits or deletes the one    *)
(* message whose chain it joins, an edit or a tombstone joins only one that  *)
(* stands, and every other step leaves what the board shows (decision D6).   *)
THEOREM BoardIsImplemented == Spec => ImplementsBoard
<1>1. Init => Board!Init
  <2> SUFFICES ASSUME Init PROVE TextOf = [m \in 1 .. MaxSeq |-> [state |-> "absent"]]
    BY DEF Board!Init
  <2>1. TextOf = BoardOf({})
    BY TextOfIsBoard DEF Init
  <2>2. \A m : VersionIn({}, m) = {}
    BY DEF VersionIn
  <2> QED BY <2>1, <2>2 DEF BoardOf, StateIn
<1>2. /\ TypeOK /\ Sequenced /\ OneChain /\ Targeted /\ Linked /\ [LogNext]_vars
      /\ Sequenced' /\ OneChain' /\ Targeted' /\ Linked'
      => [Board!Next]_TextOf
  <2> SUFFICES ASSUME TypeOK, Sequenced, OneChain, Targeted, Linked, [LogNext]_vars,
                      Sequenced', OneChain', Targeted', Linked'
               PROVE  [Board!Next]_TextOf
    OBVIOUS
  <2>1. Chained(log) /\ Chained(log') /\ log \in SUBSET Events
    <3>1. Chained(log)
      BY LogIsChained
    <3>2. Chained(log')
      BY DEF Chained, Sequenced, OneChain, Targeted, Linked
    <3> QED BY <3>1, <3>2 DEF TypeOK
  <2>2. TextOf = BoardOf(log) /\ TextOf' = BoardOf(log')
    BY TextOfIsBoard
  <2>3. CASE UNCHANGED log
    BY <2>2, <2>3
  <2>4. CASE \E new \in Events :
                 /\ log' = log \cup {new} /\ \A e \in log : e.seq < new.seq
                 /\ new.target # 0 <=> new.kind \in {"edited", "deleted"}
                 /\ new.kind \in {"created", "edited"} => new.payload \in Bodies
    <3>1. PICK new \in Events :
              /\ log' = log \cup {new} /\ \A e \in log : e.seq < new.seq
              /\ new.kind \in {"created", "edited"} => new.payload \in Bodies
      BY <2>4
    <3>2. \/ TextOf' = TextOf
          \/ \E m \in 1 .. MaxSeq, t \in Bodies :
                /\ TextOf[m].state \in {"absent", "live"}
                /\ TextOf' = [TextOf EXCEPT ![m] = [state |-> "live", text |-> t]]
          \/ \E m \in 1 .. MaxSeq :
                /\ TextOf[m].state = "live"
                /\ TextOf' = [TextOf EXCEPT ![m] = [state |-> "deleted"]]
      <4> DEFINE l == log
      <4>1. l \in SUBSET Events /\ Chained(l) /\ Chained(l \cup {new}) /\ \A e \in l : e.seq < new.seq
        BY <2>1, <3>1
      <4>2. TextOf = BoardOf(l) /\ TextOf' = BoardOf(l \cup {new})
        BY <2>2, <3>1
      <4>3. new.kind \in {"created", "edited"} => new.payload \in Bodies
        BY <3>1
      <4> HIDE DEF l
      <4>4. LET before == BoardOf(l)
                after  == BoardOf(l \cup {new})
            IN  \/ after = before
                \/ \E m \in 1 .. MaxSeq, t \in Bodies :
                      /\ before[m].state \in {"absent", "live"}
                      /\ after = [before EXCEPT ![m] = [state |-> "live", text |-> t]]
                \/ \E m \in 1 .. MaxSeq :
                      /\ before[m].state = "live"
                      /\ after = [before EXCEPT ![m] = [state |-> "deleted"]]
        BY <4>1, <4>3, BoardGrows
      <4> QED BY <4>2, <4>4
    <3> QED BY <3>2 DEF Board!Next, Board!Post, Board!Edit, Board!Delete, Board!Write, Board!Live
  <2> QED BY <2>3, <2>4, StepAppends
<1>3. Init => OneChain /\ Targeted /\ Linked
  BY DEF Init, OneChain, Targeted, Linked
<1> QED
  BY <1>1, <1>2, <1>3, TypeCorrect, SequencedHolds, ChainStep, LinkedStep, PTL
     DEF Spec, ImplementsBoard, Board!Spec

-----------------------------------------------------------------------------
(* The backfill.                                                            *)

Imported == {e.key.run : e \in Imports}

(* What the log has of the transcripts: whole turns of completed runs, each  *)
(* message once and at the place it has among the imported runs; what a      *)
(* backfill has read contains all of these runs; and a run whose INSERT has  *)
(* only begun knows the conversation, too, or overlaps the backfill.         *)
ThreadInv ==
    /\ run \in [Runs -> RunStates]
    /\ batch.runs \subseteq Completed /\ Imported \subseteq Completed
    /\ stage # "idle" => Imported \subseteq batch.runs
    /\ \A e \in Imports : e.seq = 2 * Cardinality({s \in Imported : s < e.key.run}) + e.key.part
    /\ \A e, f \in Imports : e.key = f.key => e = f
    /\ \A r \in Imported, part \in 1 .. 2 : \E e \in Imports : e.key = [run |-> r, part |-> part]
    /\ status # "absent" => Begun \subseteq linked \cup raced

LEMMA ThreadInit == BackfillInit => ThreadInv
<1> SUFFICES ASSUME BackfillInit PROVE ThreadInv
  OBVIOUS
<1>1. Imports = {} /\ Imported = {} /\ batch.runs = {} /\ status = "absent" /\ stage = "idle"
  BY DEF BackfillInit, Imports, Imported, NoBatch
<1> QED
  BY <1>1 DEF BackfillInit, ThreadInv, Completed, RunStates

LEMMA RunsAreNumbered == Runs \subseteq Nat /\ IsFiniteSet(Runs)
  BY BackfillAssumption, FS_Interval DEF Runs

(* If no message of the batch meets a sequence in use, the runs that are     *)
(* still missing come after all runs that were imported: otherwise the first *)
(* missing one would take the place of the imported run that follows it.     *)
LEMMA NoneIsLate ==
    ASSUME ThreadInv, stage # "idle", ~ Collides,
           NEW r \in Imported, NEW s \in batch.runs \ Imported
    PROVE  r < s
<1>1. batch.runs \subseteq Nat /\ Imported \subseteq batch.runs
  BY RunsAreNumbered DEF ThreadInv, Completed
<1> SUFFICES ASSUME s < r PROVE FALSE
  BY <1>1
<1> DEFINE Late == {x \in batch.runs \ Imported : \E y \in Imported : x < y}
<1>2. PICK m \in Late : \A x \in Late : m <= x
  <2>1. Late \in SUBSET Nat /\ Late # {}
    BY <1>1
  <2> HIDE DEF Late
  <2> QED BY <2>1, Smallest
<1> DEFINE Above1 == {y \in Imported : m < y}
<1>3. PICK n \in Above1 : \A y \in Above1 : n <= y
  <2>1. Above1 \in SUBSET Nat /\ Above1 # {}
    BY <1>1, <1>2
  <2> HIDE DEF Above1
  <2> QED BY <2>1, Smallest
<1>4. {t \in batch.runs : t < m} = {t \in Imported : t < n}
  <2>1. ASSUME NEW t \in batch.runs, t < m PROVE t \in Imported /\ t < n
    BY <1>1, <1>2, <1>3, <2>1
  <2>2. ASSUME NEW t \in Imported, t < n PROVE t \in batch.runs /\ t < m
    BY <1>1, <1>2, <1>3, <2>2
  <2> QED BY <2>1, <2>2
<1>5. PICK e \in Imports : e.key = [run |-> n, part |-> 1]
  <2>1. \A x \in Imported, part \in 1 .. 2 : \E e \in Imports : e.key = [run |-> x, part |-> part]
    BY DEF ThreadInv
  <2>2. n \in Imported /\ 1 \in 1 .. 2
    BY <1>3
  <2> QED BY <2>1, <2>2
<1>6. e.seq = Position(m, 1)
  BY <1>4, <1>5 DEF ThreadInv, Position
<1>7. WithKey([run |-> m, part |-> 1]) = {}
  <2> SUFFICES ASSUME NEW f \in log, f.key = [run |-> m, part |-> 1] PROVE FALSE
    BY DEF WithKey
  <2>1. m \in Runs
    BY <1>2 DEF ThreadInv, Completed
  <2>2. f \in Imports /\ f.key.run = m
    BY <2>1 DEF Imports, LegacyKeys
  <2> QED BY <1>2, <2>2 DEF Imported
<1>8. Import(m, 1) \in Missing /\ Import(m, 1).seq = Position(m, 1)
  BY <1>2, <1>7 DEF Missing, Import
<1> QED
  BY <1>5, <1>6, <1>8 DEF Collides, Imports

LEMMA ApplyHolds ==
    ASSUME ThreadInv, BackfillApply
    PROVE  ThreadInv'
<1> DEFINE I == Imported
           B == batch.runs
<1>1. /\ stage # "idle" /\ ~ Collides /\ log' = log \cup Missing
      /\ linked' = linked \cup batch.sees /\ raced' = Begun \ batch.sees
      /\ stage' = "idle" /\ batch' = NoBatch /\ run' = run
  BY DEF BackfillApply, LinkRuns
<1>2. /\ I \subseteq B /\ B \subseteq Completed /\ Completed \subseteq Runs
      /\ B \subseteq Nat
  BY <1>1, RunsAreNumbered DEF ThreadInv, Completed
<1>3. Missing = {Import(r, part) : r \in B \ I, part \in 1 .. 2}
  <2>1. ASSUME NEW r \in B, NEW part \in 1 .. 2
        PROVE  WithKey(Import(r, part).key) = {} <=> r \notin I
    <3>1. Import(r, part).key = [run |-> r, part |-> part] /\ Import(r, part).key \in LegacyKeys
      BY <1>2 DEF Import, LegacyKeys
    <3>2. CASE r \in I
      <4>1. PICK e \in Imports : e.key = [run |-> r, part |-> part]
        BY <3>2 DEF ThreadInv
      <4> QED BY <3>1, <3>2, <4>1 DEF WithKey, Imports
    <3>3. CASE r \notin I
      <4>1. ASSUME NEW e \in WithKey(Import(r, part).key) PROVE FALSE
        <5>1. e \in Imports /\ e.key.run = r
          BY <3>1, <4>1 DEF WithKey, Imports
        <5> QED BY <3>3, <5>1 DEF Imported
      <4> QED BY <3>3, <4>1
    <3> QED BY <3>2, <3>3
  <2> QED BY <2>1, <1>2 DEF Missing
<1>4. \A e \in Missing : \E r \in B \ I, part \in 1 .. 2 :
         /\ e = Import(r, part) /\ e.key = [run |-> r, part |-> part] /\ e.key \in LegacyKeys
         /\ e.key.run = r /\ e.key.part = part /\ e.seq = Position(r, part)
  <2>1. ASSUME NEW r \in B \ I, NEW part \in 1 .. 2
        PROVE  LET e == Import(r, part) IN
               /\ e.key = [run |-> r, part |-> part] /\ e.key \in LegacyKeys
               /\ e.key.run = r /\ e.key.part = part /\ e.seq = Position(r, part)
    BY <1>2 DEF Import, LegacyKeys
  <2> QED BY <1>3, <2>1
<1>5. Imports' = Imports \cup Missing
  BY <1>1, <1>4 DEF Imports, LegacyKeys, Runs
<1>6. Imported' = B
  <2>1. ASSUME NEW r \in B \ I PROVE r \in Imported'
    <3>1. Import(r, 1) \in Missing /\ Import(r, 1).key.run = r
      BY <1>3 DEF Import
    <3> QED BY <1>5, <3>1 DEF Imported
  <2>2. I \subseteq Imported'
    BY <1>5 DEF Imported
  <2>3. ASSUME NEW e \in Imports' PROVE e.key.run \in B
    <3>1. CASE e \in Imports
      BY <1>2, <3>1 DEF Imported
    <3>2. CASE e \in Missing
      BY <1>4, <3>2
    <3> QED BY <1>5, <3>1, <3>2
  <2>4. Imported' \subseteq B
    BY <2>3 DEF Imported
  <2> QED BY <2>1, <2>2, <2>4
<1>7. \A e \in Imports' : e.seq = 2 * Cardinality({s \in B : s < e.key.run}) + e.key.part
  <2>1. ASSUME NEW e \in Imports
        PROVE  e.seq = 2 * Cardinality({s \in B : s < e.key.run}) + e.key.part
    <3>1. e.key.run \in I
      BY DEF Imported
    <3>2. \A s \in B \ I : e.key.run < s
      BY <1>1, <3>1, NoneIsLate
    <3>3. {s \in B : s < e.key.run} = {s \in I : s < e.key.run}
      BY <1>2, <3>1, <3>2
    <3> QED BY <3>3 DEF ThreadInv
  <2>2. ASSUME NEW e \in Missing
        PROVE  e.seq = 2 * Cardinality({s \in B : s < e.key.run}) + e.key.part
    BY <1>4 DEF Position
  <2> QED BY <1>5, <2>1, <2>2
<1>8. \A e, f \in Imports' : e.key = f.key => e = f
  <2>1. \A e \in Imports, f \in Missing : e.key # f.key
    <3> SUFFICES ASSUME NEW e \in Imports, NEW f \in Missing, e.key = f.key PROVE FALSE
      OBVIOUS
    <3>1. e.key.run \in I /\ f.key.run \notin I
      BY <1>4 DEF Imported
    <3> QED BY <3>1
  <2>2. \A e, f \in Missing : e.key = f.key => e = f
    <3> SUFFICES ASSUME NEW e \in Missing, NEW f \in Missing, e.key = f.key PROVE e = f
      OBVIOUS
    <3>1. /\ e = Import(e.key.run, e.key.part)
          /\ f = Import(f.key.run, f.key.part)
      BY <1>4
    <3> QED BY <3>1
  <2> QED BY <1>5, <2>1, <2>2 DEF ThreadInv
<1>9. \A r \in B, part \in 1 .. 2 : \E e \in Imports' : e.key = [run |-> r, part |-> part]
  <2> SUFFICES ASSUME NEW r \in B, NEW part \in 1 .. 2
               PROVE  \E e \in Imports' : e.key = [run |-> r, part |-> part]
    OBVIOUS
  <2>1. CASE r \in I
    BY <1>5, <2>1 DEF ThreadInv
  <2>2. CASE r \notin I
    <3>1. Import(r, part) \in Missing /\ Import(r, part).key = [run |-> r, part |-> part]
      BY <1>3, <2>2 DEF Import
    <3> QED BY <1>5, <3>1
  <2> QED BY <2>1, <2>2
<1>10. /\ Begun' \subseteq linked' \cup raced'
       /\ Completed' = Completed /\ batch'.runs = {}
  BY <1>1 DEF Begun, Completed, NoBatch
<1> QED
  <2> HIDE DEF I, B
  <2>1. run' \in [Runs -> RunStates] /\ Imported' \subseteq Completed'
    BY <1>1, <1>2, <1>6, <1>10 DEF ThreadInv
  <2> QED BY <1>1, <1>6, <1>7, <1>8, <1>9, <1>10, <2>1 DEF ThreadInv

(* Nobody but the backfill touches what was imported; runs only complete.    *)
LEMMA OthersHold ==
    ASSUME ThreadInv, Imports' = Imports, batch' = batch, stage' = stage,
           run' \in [Runs -> RunStates], Completed \subseteq Completed',
           (status # "absent" => Begun \subseteq linked \cup raced)'
    PROVE  ThreadInv'
<1>1. Imported' = Imported
  BY DEF Imported
<1> QED
  BY <1>1 DEF ThreadInv

LEMMA ThreadStep == ThreadInv /\ [ThreadNext]_allVars => ThreadInv'
<1> SUFFICES ASSUME ThreadInv, [ThreadNext]_allVars PROVE ThreadInv'
  OBVIOUS
<1> USE DEF vars, convVars, runVars, backfillVars
<1>1. CASE UNCHANGED allVars
  <2>1. UNCHANGED <<log, status, linked, run, batch, stage, raced>>
    BY <1>1 DEF allVars
  <2> QED BY <2>1, OthersHold DEF ThreadInv, Imports, Completed, Begun
<1>2. ASSUME NEW r \in Runs, MintRun(r) PROVE ThreadInv'
  <2>1. /\ UNCHANGED <<log, status, batch, stage, raced>> /\ run' = [run EXCEPT ![r] = "minting"]
        /\ run[r] = "unborn" /\ linked \subseteq linked'
        /\ status # "absent" => linked' = linked \cup {r}
    BY <1>2 DEF MintRun
  <2>2. run' \in [Runs -> RunStates] /\ Completed \subseteq Completed'
    BY <2>1 DEF ThreadInv, RunStates, Completed
  <2>3. (status # "absent" => Begun \subseteq linked \cup raced)'
    BY <2>1 DEF ThreadInv, Begun
  <2> QED BY <2>1, <2>2, <2>3, OthersHold DEF Imports
<1>3. ASSUME NEW r \in Runs, StartRun(r) \/ CloseRun(r, "completed") \/ CloseRun(r, "failed")
      PROVE  ThreadInv'
  <2>1. PICK step \in {"running", "completed", "failed"} : run' = [run EXCEPT ![r] = step]
    BY <1>3 DEF StartRun, CloseRun
  <2>2. /\ UNCHANGED <<log, status, batch, stage, linked, raced>>
        /\ run[r] \in {"minting", "running"}
    BY <1>3 DEF StartRun, CloseRun
  <2>3. run' \in [Runs -> RunStates] /\ Completed \subseteq Completed'
    BY <2>1, <2>2 DEF ThreadInv, RunStates, Completed
  <2>4. (status # "absent" => Begun \subseteq linked \cup raced)'
    BY <2>1, <2>2 DEF ThreadInv, Begun
  <2> QED BY <2>2, <2>3, <2>4, OthersHold DEF Imports
<1>4. CASE ArchiveThread
  <2>1. UNCHANGED <<log, status, linked, run, batch, stage, raced>>
    BY <1>4 DEF ArchiveThread
  <2> QED BY <2>1, OthersHold DEF ThreadInv, Imports, Completed, Begun
<1>5. CASE BackfillLoad \/ BackfillBegin \/ BackfillStops
  <2>1. /\ UNCHANGED <<log, status, linked, run, raced>>
        /\ \/ batch'.runs = Completed
           \/ batch'.runs = {} /\ stage' = "idle"
           \/ batch'.runs = batch.runs /\ stage = "read"
    <3>1. CASE BackfillLoad
      BY <3>1 DEF BackfillLoad, NoBatch
    <3>2. CASE BackfillBegin
      <4>1. batch'.runs = batch.runs
        BY <3>2 DEF BackfillBegin
      <4> QED BY <3>2, <4>1 DEF BackfillBegin
    <3>3. CASE BackfillStops
      BY <3>3 DEF BackfillStops, NoBatch
    <3> QED BY <1>5, <3>1, <3>2, <3>3
  <2>2. Imports' = Imports /\ Completed' = Completed /\ Begun' = Begun
    BY <2>1 DEF Imports, Completed, Begun
  <2>3. Imported' = Imported
    BY <2>2 DEF Imported
  <2>4. batch'.runs \subseteq Completed' /\ (stage' # "idle" => Imported' \subseteq batch'.runs)
    BY <2>1, <2>2, <2>3 DEF ThreadInv
  <2> QED BY <2>1, <2>2, <2>3, <2>4 DEF ThreadInv
<1>6. CASE BackfillApply
  BY <1>6, ApplyHolds
<1>7. CASE People
  <2>1. UNCHANGED <<status, linked, run, batch, stage, raced>>
    BY <1>7 DEF People, Post, AppendEvent, ChangeMember, DisableActor
  <2>2. Imports' = Imports
    <3>1. ASSUME NEW r, AppendEvent(r) \/ Insert(r), r.key \notin LegacyKeys PROVE Imports' = Imports
      <4>1. log' = log \cup {Event(r, next)} /\ Event(r, next).key = r.key
        BY <3>1 DEF AppendEvent, Insert, Event
      <4> HIDE DEF LegacyKeys
      <4> QED BY <3>1, <4>1 DEF Imports
    <3>2. ASSUME NEW a \in Actors, NEW k \in Keys \ LegacyKeys, NEW b \in Bodies, Post(a, k, b, 0)
          PROVE  Imports' = Imports
      BY <3>1, <3>2 DEF Post
    <3>3. ASSUME NEW a \in Actors, NEW k \in Keys \ LegacyKeys, NEW c \in Changes, ChangeMember(a, k, c)
          PROVE  Imports' = Imports
      BY <3>1, <3>3 DEF ChangeMember
    <3>4. ASSUME NEW a \in Actors, DisableActor(a) PROVE Imports' = Imports
      BY <3>4 DEF DisableActor, Imports
    <3> QED BY <1>7, <3>2, <3>3, <3>4 DEF People
  <2> QED BY <2>1, <2>2, OthersHold DEF ThreadInv, Completed, Begun
<1> QED
  BY <1>1, <1>2, <1>3, <1>4, <1>5, <1>6, <1>7 DEF ThreadNext, RunNext, BackfillNext

(* However often the backfill runs, and whatever completes, starts or is     *)
(* posted in between, the messages of a thread follow each other in its      *)
(* conversation as in the transcripts, each of them once.                    *)
THEOREM ImportedInOrderHolds == ThreadSpec => []ImportedInOrder
<1>1. ThreadInv => ImportedInOrder
  <2> SUFFICES ASSUME ThreadInv, NEW e \in Imports, NEW f \in Imports, Before(e.key, f.key)
               PROVE  e.seq < f.seq
    BY DEF ImportedInOrder, ThreadInv
  <2> DEFINE Lower(r) == {s \in Imported : s < r}
  <2>1. /\ e.key \in [run : Runs, part : 1 .. 2] /\ f.key \in [run : Runs, part : 1 .. 2]
        /\ e.key.run \in Imported /\ f.key.run \in Imported /\ Imported \subseteq Runs
    BY DEF Imports, LegacyKeys, Imported, ThreadInv, Completed
  <2>2. \A r \in Runs : IsFiniteSet(Lower(r)) /\ Cardinality(Lower(r)) \in Nat
    BY <2>1, RunsAreNumbered, FS_Subset, FS_CardinalityType
  <2>3. /\ e.seq = 2 * Cardinality(Lower(e.key.run)) + e.key.part
        /\ f.seq = 2 * Cardinality(Lower(f.key.run)) + f.key.part
    BY DEF ThreadInv
  <2>4. /\ e.key.run \in Nat /\ f.key.run \in Nat
        /\ e.key.part \in 1 .. 2 /\ f.key.part \in 1 .. 2
    BY <2>1, RunsAreNumbered
  <2>5. CASE e.key.run = f.key.run
    <3>1. e.key.part < f.key.part
      BY <2>4, <2>5 DEF Before
    <3> HIDE DEF Lower
    <3> QED BY <2>1, <2>2, <2>3, <2>4, <2>5, <3>1
  <2>6. CASE e.key.run < f.key.run
    <3>1. Lower(e.key.run) \in SUBSET Lower(f.key.run)
      <4>1. ASSUME NEW s \in Imported, s < e.key.run PROVE s < f.key.run
        <5>1. s \in Nat
          BY <2>1, RunsAreNumbered
        <5> QED BY <2>4, <2>6, <4>1, <5>1
      <4> QED BY <4>1
    <3>2. e.key.run \in Lower(f.key.run) /\ e.key.run \notin Lower(e.key.run)
      BY <2>1, <2>4, <2>6
    <3>3. Cardinality(Lower(e.key.run)) < Cardinality(Lower(f.key.run))
      <4> HIDE DEF Lower
      <4> QED BY <2>1, <2>2, <3>1, <3>2, FS_Subset
    <3> HIDE DEF Lower
    <3> QED BY <2>1, <2>2, <2>3, <2>4, <3>3
  <2> QED BY <2>5, <2>6 DEF Before
<1> QED
  BY <1>1, ThreadInit, ThreadStep, PTL DEF ThreadSpec

(* The conversation holds whole turns of completed runs and nothing else of  *)
(* a thread's transcripts.                                                   *)
THEOREM ImportsAreCompletedTurnsHolds == ThreadSpec => []ImportsAreCompletedTurns
<1>1. ThreadInv => ImportsAreCompletedTurns
  <2> SUFFICES ASSUME ThreadInv, NEW e \in Imports
               PROVE  /\ run[e.key.run] = "completed"
                      /\ {f.key.part : f \in {f \in Imports : f.key.run = e.key.run}} = 1 .. 2
    BY DEF ImportsAreCompletedTurns
  <2>1. e.key.run \in Imported /\ Imported \subseteq Completed
    BY DEF Imported, ThreadInv
  <2>2. \A f \in Imports : f.key.part \in 1 .. 2
    BY DEF Imports, LegacyKeys
  <2>3. ASSUME NEW part \in 1 .. 2
        PROVE  part \in {f.key.part : f \in {f \in Imports : f.key.run = e.key.run}}
    <3>1. PICK f \in Imports : f.key = [run |-> e.key.run, part |-> part]
      BY <2>1 DEF ThreadInv
    <3> QED BY <3>1
  <2> QED BY <2>1, <2>2, <2>3 DEF Completed
<1> QED
  BY <1>1, ThreadInit, ThreadStep, PTL DEF ThreadSpec

(* A thread that has a conversation has each of its runs linked to it,       *)
(* however often the backfill was repeated, except for runs whose INSERT     *)
(* overlapped the backfill that committed last: those take their snapshot    *)
(* before there is a conversation and commit after the backfill took its.    *)
THEOREM RunsAreLinkedHolds == ThreadSpec => []RunsAreLinked
<1>1. ThreadInv => RunsAreLinked
  BY DEF ThreadInv, RunsAreLinked, Born
<1> QED
  BY <1>1, ThreadInit, ThreadStep, PTL DEF ThreadSpec
=============================================================================
