-------------------------- MODULE MemoryChainProofs --------------------------
(***************************************************************************)
(* Safety of the memory chains for every set of ids, proposals and         *)
(* accepts.                                                                *)
(*                                                                         *)
(* The memories only change by five kinds of statement (RowSteps), each    *)
(* described by the rows it leaves alone and the rows it writes; the       *)
(* invariants are then a matter of these rows.  They need that ids are     *)
(* minted once, that the row of a create has no predecessor, and that an   *)
(* accept under way has a proposal with a target.                          *)
(***************************************************************************)
EXTENDS MemoryChain, TLAPS

Minted == \A m \in Exists : m \in used /\ row[m].root \in used

Sourced == \A m \in Exists : row[m].src # None /\ Op[row[m].src] = "create" => row[m].prev = None

Underway ==
    \A d \in Drives : pc[d] # "idle" => on[d] \in Proposals /\ decision[on[d]] # "draft"

Targeted ==
    \A p \in Proposals : decision[p] # "draft" /\ Op[p] # "create" => target[p] \in used

IInv == TypeOK /\ Minted /\ Sourced /\ Underway /\ Targeted

(* What a supersession may be made for: a person, or a proposal to supersede.*)
Superseders == {p \in Proposals : Op[p] = "supersede"} \cup {None}
Creators    == {p \in Proposals : Op[p] = "create"} \cup {None}

-----------------------------------------------------------------------------
(* The five kinds of statement.                                             *)

Created(m, p) ==
    /\ m \in Memories \ used /\ used' = used \cup {m} /\ SourceFree(p)
    /\ row'[m] = [status |-> "active", root |-> m, prev |-> None, next |-> None, src |-> p]
    /\ \A k \in Memories \ {m} : row'[k] = row[k]

Superseded(m, n, p) ==
    /\ m \in Exists /\ row[m].status = "active" /\ m # n
    /\ n \in Memories \ used /\ used' = used \cup {n} /\ SourceFree(p)
    /\ row'[m] = [status |-> "superseded", root |-> row[m].root, prev |-> row[m].prev,
                  next |-> n, src |-> row[m].src]
    /\ row'[n] = [status |-> "active", root |-> row[m].root, prev |-> m,
                  next |-> None, src |-> p]
    /\ \A k \in Memories \ {m, n} : row'[k] = row[k]

Restated(m, from, to) ==
    /\ m \in Exists /\ row[m].status \in from /\ used' = used
    /\ row'[m] = [status |-> to, root |-> row[m].root, prev |-> row[m].prev,
                  next |-> row[m].next, src |-> row[m].src]
    /\ \A k \in Memories \ {m} : row'[k] = row[k]

Deleted(p) ==
    /\ p \in Creators \ {None} /\ decision[p] = "rejected" /\ used' = used
    /\ \A m \in Memories :
          IF row[m] = None \/ Gone(p, m) THEN row'[m] = None
          ELSE row'[m] = [status |-> row[m].status, root |-> row[m].root,
                          prev |-> Nullify(p, row[m].prev),
                          next |-> Nullify(p, row[m].next),
                          src |-> row[m].src]

RowStep ==
    \/ \E m \in Memories, p \in Creators : Created(m, p)
    \/ \E m \in Memories, n \in Memories, p \in Superseders : Superseded(m, n, p)
    \/ \E m \in Memories : \/ Restated(m, {"active", "deferred"}, "retracted")
                           \/ Restated(m, {"active"}, "deferred")
                           \/ Restated(m, {"deferred"}, "active")
    \/ \E p \in Proposals : Deleted(p)
    \/ UNCHANGED <<row, used>>

LEMMA RowFields ==
    ASSUME TypeOK, NEW m \in Exists
    PROVE  /\ m \in Memories /\ row[m] \in Rows
           /\ row[m] = [status |-> row[m].status, root |-> row[m].root, prev |-> row[m].prev,
                        next |-> row[m].next, src |-> row[m].src]
BY DEF TypeOK, Rows, Exists

LEMMA CreateIsCreated ==
    ASSUME IInv, NEW m \in Memories, NEW p, Create(m, p)
    PROVE  Created(m, p)
BY DEF Create, Created, Mint, IInv, TypeOK

LEMMA SupersedeIsSuperseded ==
    ASSUME IInv, NEW m \in Memories, NEW n \in Memories, NEW p, Supersede(m, n, p)
    PROVE  Superseded(m, n, p)
<1>1. m \in Exists /\ row[m].status = "active" /\ n \notin used /\ used' = used \cup {n} /\ SourceFree(p)
  BY DEF Supersede, StatusIs, Mint, Exists
<1>2. m # n
  BY <1>1 DEF IInv, Minted
<1>3. row'[m] = [[row[m] EXCEPT !.status = "superseded"] EXCEPT !.next = n]
  BY <1>1, <1>2 DEF Supersede, IInv, TypeOK
<1>4. row'[n] = [status |-> "active", root |-> row[m].root, prev |-> m, next |-> None, src |-> p]
  BY <1>1, <1>2 DEF Supersede, IInv, TypeOK
<1>5. \A k \in Memories \ {m, n} : row'[k] = row[k]
  BY <1>1, <1>2 DEF Supersede, IInv, TypeOK
<1>6. row'[m] = [status |-> "superseded", root |-> row[m].root, prev |-> row[m].prev,
                 next |-> n, src |-> row[m].src]
  BY <1>1, <1>3, RowFields DEF IInv, Rows
<1> QED
  BY <1>1, <1>2, <1>4, <1>5, <1>6 DEF Superseded

LEMMA RestateIsRestated ==
    ASSUME IInv, NEW m \in Memories, NEW from, NEW to, StatusIs(m, from), Restate(m, to)
    PROVE  Restated(m, from, to)
<1>1. m \in Exists /\ row[m].status \in from /\ used' = used
  BY DEF StatusIs, Restate, Exists
<1>2. row'[m] = [row[m] EXCEPT !.status = to] /\ \A k \in Memories \ {m} : row'[k] = row[k]
  BY DEF Restate, IInv, TypeOK
<1>3. row'[m] = [status |-> to, root |-> row[m].root, prev |-> row[m].prev,
                 next |-> row[m].next, src |-> row[m].src]
  BY <1>1, <1>2, RowFields DEF IInv, Rows
<1> QED
  BY <1>1, <1>2, <1>3 DEF Restated

LEMMA DeleteIsDeleted ==
    ASSUME IInv, NEW p \in Proposals, Op[p] = "create", decision[p] = "rejected", Delete(p), used' = used
    PROVE  Deleted(p)
<1>1. ASSUME NEW m \in Memories
      PROVE  IF row[m] = None \/ Gone(p, m) THEN row'[m] = None
             ELSE row'[m] = [row[m] EXCEPT !.prev = Nullify(p, row[m].prev),
                                           !.next = Nullify(p, row[m].next)]
  BY <1>1 DEF Delete
<1>2. ASSUME NEW m \in Memories, row[m] # None, ~ Gone(p, m)
      PROVE  row'[m] = [status |-> row[m].status, root |-> row[m].root,
                        prev |-> Nullify(p, row[m].prev),
                        next |-> Nullify(p, row[m].next),
                        src |-> row[m].src]
  <2>1. row[m] \in Rows
    BY <1>2, RowFields DEF Exists, IInv
  <2>2. row'[m] = [row[m] EXCEPT !.prev = Nullify(p, row[m].prev),
                                 !.next = Nullify(p, row[m].next)]
    BY <1>1, <1>2
  <2> QED BY <2>1, <2>2 DEF Rows
<1>3. p \in Creators \ {None}
  BY MemoryAssumption DEF Creators
<1> QED
  BY <1>1, <1>2, <1>3 DEF Deleted

-----------------------------------------------------------------------------
(* Every step of the system is one of these statements.                     *)

LEMMA PeopleStep ==
    ASSUME IInv, People
    PROVE  RowStep
<1>1. ASSUME NEW m \in Memories, Create(m, None)
      PROVE  RowStep
  BY <1>1, CreateIsCreated DEF RowStep, Creators
<1>2. ASSUME NEW m \in Memories, Retract(m)
      PROVE  RowStep
  <2>1. Restated(m, {"active", "deferred"}, "retracted")
    BY <1>2, RestateIsRestated DEF Retract
  <2> QED BY <2>1 DEF RowStep
<1>3. ASSUME NEW m \in Memories, Defer(m)
      PROVE  RowStep
  <2>1. Restated(m, {"active"}, "deferred")
    BY <1>3, RestateIsRestated DEF Defer
  <2> QED BY <2>1 DEF RowStep
<1>4. ASSUME NEW m \in Memories, Reactivate(m)
      PROVE  RowStep
  <2>1. Restated(m, {"deferred"}, "active")
    BY <1>4, RestateIsRestated DEF Reactivate
  <2> QED BY <2>1 DEF RowStep
<1>5. ASSUME NEW m \in Memories, NEW n \in Memories, Supersede(m, n, None)
      PROVE  RowStep
  BY <1>5, SupersedeIsSuperseded DEF RowStep, Superseders
<1> QED
  BY <1>1, <1>2, <1>3, <1>4, <1>5 DEF People

LEMMA WriteStep ==
    ASSUME IInv, NEW d \in Drives, Write(d)
    PROVE  RowStep
<1> DEFINE p == on[d]
<1>1. p \in Proposals /\ decision[p] # "draft"
  BY DEF Write, IInv, Underway
<1>2. CASE Op[p] = "create" /\ \E m \in Memories : Create(m, p)
  BY <1>1, <1>2, CreateIsCreated DEF RowStep, Creators
<1>3. ASSUME Op[p] # "create"
      PROVE  target[p] \in Memories
  BY <1>1, <1>3 DEF IInv, Targeted, TypeOK
<1>4. CASE Op[p] = "supersede" /\ \E n \in Memories : Supersede(target[p], n, p)
  BY <1>1, <1>3, <1>4, SupersedeIsSuperseded DEF RowStep, Superseders
<1>5. CASE Op[p] = "retract" /\ Retract(target[p])
  <2>1. Restated(target[p], {"active", "deferred"}, "retracted")
    BY <1>3, <1>5, RestateIsRestated DEF Retract
  <2> QED BY <1>3, <1>5, <2>1 DEF RowStep
<1>6. CASE Op[p] = "defer" /\ Defer(target[p])
  <2>1. Restated(target[p], {"active"}, "deferred")
    BY <1>3, <1>6, RestateIsRestated DEF Defer
  <2> QED BY <1>3, <1>6, <2>1 DEF RowStep
<1> QED
  BY <1>2, <1>4, <1>5, <1>6 DEF Write, Command

LEMMA RowSteps ==
    ASSUME IInv, [Next]_vars
    PROVE  RowStep
<1>1. ASSUME NEW d \in Drives, Lost(d)
      PROVE  RowStep
  <2>1. CASE Op[on[d]] = "create" /\ decision[on[d]] = "rejected"
    <3>1. on[d] \in Proposals
      BY <1>1 DEF Lost, IInv, Underway
    <3>2. Deleted(on[d])
      BY <1>1, <2>1, <3>1, DeleteIsDeleted DEF Lost
    <3> QED BY <3>1, <3>2 DEF RowStep
  <2>2. CASE ~ (Op[on[d]] = "create" /\ decision[on[d]] = "rejected")
    BY <1>1, <2>2 DEF Lost, RowStep
  <2> QED BY <2>1, <2>2
<1>2. ASSUME NEW p \in Proposals, Draft(p) \/ Reject(p) \/ \E d \in Drives : Load(d, p)
      PROVE  RowStep
  BY <1>2 DEF Draft, Reject, Load, RowStep
<1>3. ASSUME NEW d \in Drives, Converge(d) \/ Stale(d) \/ Flip(d) \/ Dies(d)
      PROVE  RowStep
  BY <1>3 DEF Converge, Stale, Flip, Dies, RowStep
<1>4. CASE UNCHANGED vars
  BY <1>4 DEF vars, RowStep
<1> QED
  BY <1>1, <1>2, <1>3, <1>4, PeopleStep, WriteStep DEF Next

-----------------------------------------------------------------------------
(* What every kind of statement does to the types and the minted ids.       *)

LEMMA RowStepTypes ==
    ASSUME TypeOK, Minted, RowStep, row' = [m \in Memories |-> row'[m]]
    PROVE  /\ row' \in [Memories -> Rows \cup {None}] /\ used' \subseteq Memories
           /\ used \subseteq used' /\ Minted'
<1>0. \A m \in Exists : m \in Memories /\ row[m] \in Rows /\ m \in used /\ row[m].root \in used
  BY RowFields DEF Minted, Exists
<1>1. ASSUME NEW m \in Memories, NEW p \in Creators, Created(m, p)
      PROVE  /\ \A k \in Memories : row'[k] \in Rows \cup {None}
             /\ used' \subseteq Memories /\ used \subseteq used' /\ Minted'
  <2>1. row'[m] \in Rows
    BY <1>1, MemoryAssumption DEF Created, Creators, Rows, Status
  <2> QED BY <1>0, <1>1, <2>1 DEF Created, TypeOK, Minted, Exists
<1>2. ASSUME NEW m \in Memories, NEW n \in Memories, NEW p \in Superseders, Superseded(m, n, p)
      PROVE  /\ \A k \in Memories : row'[k] \in Rows \cup {None}
             /\ used' \subseteq Memories /\ used \subseteq used' /\ Minted'
  <2>1. row'[m] \in Rows /\ row'[n] \in Rows
    BY <1>0, <1>2 DEF Superseded, Superseders, Rows, Status
  <2> QED BY <1>0, <1>2, <2>1 DEF Superseded, TypeOK, Minted, Exists
<1>3. ASSUME NEW m \in Memories, NEW from, NEW to \in Status, Restated(m, from, to)
      PROVE  /\ \A k \in Memories : row'[k] \in Rows \cup {None}
             /\ used' \subseteq Memories /\ used \subseteq used' /\ Minted'
  <2>1. row'[m] \in Rows
    BY <1>0, <1>3 DEF Restated, Rows
  <2> QED BY <1>0, <1>3, <2>1 DEF Restated, TypeOK, Minted, Exists
<1>4. ASSUME NEW p \in Proposals, Deleted(p)
      PROVE  /\ \A k \in Memories : row'[k] \in Rows \cup {None}
             /\ used' \subseteq Memories /\ used \subseteq used' /\ Minted'
  <2>1. ASSUME NEW k \in Memories, row'[k] # None
        PROVE  /\ k \in Exists /\ row'[k].root = row[k].root
               /\ row'[k] \in Rows
    <3>1. k \in Exists
      BY <1>4, <2>1 DEF Deleted, Exists
    <3>2. Nullify(p, row[k].prev) \in Memories \cup {None} /\ Nullify(p, row[k].next) \in Memories \cup {None}
      BY <1>0, <3>1 DEF Nullify, Rows
    <3>3. row'[k] = [status |-> row[k].status, root |-> row[k].root,
                     prev |-> Nullify(p, row[k].prev),
                     next |-> Nullify(p, row[k].next), src |-> row[k].src]
      BY <1>4, <2>1 DEF Deleted
    <3> QED BY <1>0, <3>1, <3>2, <3>3 DEF Rows
  <2> QED BY <1>0, <1>4, <2>1 DEF Deleted, TypeOK, Minted, Exists
<1>5. CASE UNCHANGED <<row, used>>
  BY <1>5 DEF TypeOK, Minted, Exists
<1> QED
  BY <1>1, <1>2, <1>3, <1>4, <1>5 DEF RowStep, Status

LEMMA DeletedKeeps ==
    ASSUME NEW p \in Proposals, Deleted(p), NEW k \in Memories, row'[k] # None
    PROVE  /\ k \in Exists /\ ~ Gone(p, k)
           /\ row'[k].status = row[k].status /\ row'[k].root = row[k].root
           /\ row'[k].src = row[k].src
           /\ row'[k].prev = Nullify(p, row[k].prev) /\ row'[k].next = Nullify(p, row[k].next)
<1>1. row[k] # None /\ ~ Gone(p, k)
  BY DEF Deleted
<1>2. row'[k] = [status |-> row[k].status, root |-> row[k].root,
                 prev |-> Nullify(p, row[k].prev),
                 next |-> Nullify(p, row[k].next), src |-> row[k].src]
  BY <1>1 DEF Deleted
<1> QED
  BY <1>1, <1>2 DEF Exists

LEMMA RowStepSourced ==
    ASSUME TypeOK, Minted, Sourced, RowStep
    PROVE  Sourced'
<1>0. \A m \in Exists : m \in Memories /\ row[m] \in Rows /\ m \in used
  BY RowFields DEF Minted, Exists
<1>1. ASSUME NEW m \in Memories, NEW p \in Creators, Created(m, p)
      PROVE  Sourced'
  BY <1>0, <1>1 DEF Created, Sourced, Exists
<1>2. ASSUME NEW m \in Memories, NEW n \in Memories, NEW p \in Superseders, Superseded(m, n, p)
      PROVE  Sourced'
  BY <1>0, <1>2 DEF Superseded, Superseders, Sourced, Exists
<1>3. ASSUME NEW m \in Memories, NEW from, NEW to, Restated(m, from, to)
      PROVE  Sourced'
  BY <1>0, <1>3 DEF Restated, Sourced, Exists
<1>4. ASSUME NEW p \in Proposals, Deleted(p)
      PROVE  Sourced'
  <2>1. ASSUME NEW k \in Memories, row'[k] # None
        PROVE  k \in Exists /\ row'[k].src = row[k].src /\ row'[k].prev = Nullify(p, row[k].prev)
    BY <1>4, <2>1, DeletedKeeps
  <2> QED BY <2>1 DEF Sourced, Nullify, Exists
<1>5. CASE UNCHANGED <<row, used>>
  BY <1>5 DEF Sourced, Exists
<1> QED
  BY <1>1, <1>2, <1>3, <1>4, <1>5 DEF RowStep

(* The requests and the decisions. *)

Requests ==
    /\ decision \in [Proposals -> {"draft", "pending", "applied", "rejected"}]
    /\ target \in [Proposals -> Memories \cup {None}]
    /\ pc \in [Drives -> {"idle", "write", "flip", "lost", "applied", "stale", "not_pending", "dead"}]
    /\ on \in [Drives -> Proposals \cup {None}]
    /\ landed \in [Proposals -> 0 .. 2]

LEMMA RequestsHold ==
    ASSUME IInv, [Next]_vars, used \subseteq used'
    PROVE  Requests' /\ Underway' /\ Targeted' /\ row' = [m \in Memories |-> row'[m]]
<1>0. Requests /\ Underway /\ Targeted /\ row = [m \in Memories |-> row[m]]
  BY DEF IInv, TypeOK, Requests
<1>1. CASE People
  BY <1>0, <1>1 DEF People, Create, Supersede, Retract, Defer, Reactivate, Restate, Requests,
     Underway, Targeted
<1>2. ASSUME NEW p \in Proposals, Draft(p)
      PROVE  Requests' /\ Underway' /\ Targeted' /\ row' = [m \in Memories |-> row'[m]]
  <2>1. ASSUME Op[p] # "create"
        PROVE  target'[p] \in used
    BY <1>2, <2>1 DEF Draft, IInv, Minted, Exists, TypeOK
  <2> QED BY <1>0, <1>2, <2>1 DEF Draft, Requests, Underway, Targeted
<1>3. ASSUME NEW p \in Proposals, Reject(p) \/ \E d \in Drives : Load(d, p)
      PROVE  Requests' /\ Underway' /\ Targeted' /\ row' = [m \in Memories |-> row'[m]]
  BY <1>0, <1>3 DEF Reject, Load, Goto, Requests, Underway, Targeted
<1>4. ASSUME NEW d \in Drives, Write(d)
      PROVE  Requests' /\ Underway' /\ Targeted' /\ row' = [m \in Memories |-> row'[m]]
  <2>1. on[d] \in Proposals
    BY <1>0, <1>4 DEF Write, Underway
  <2>2. row' = [m \in Memories |-> row'[m]]
    BY <1>0, <1>4, Zenon DEF Write, Command, Create, Supersede, Retract, Defer, Restate
  <2> QED BY <1>0, <1>4, <2>1, <2>2 DEF Write, Goto, Count, Requests, Underway, Targeted
<1>5. ASSUME NEW d \in Drives, Converge(d) \/ Stale(d) \/ Dies(d)
      PROVE  Requests' /\ Underway' /\ Targeted' /\ row' = [m \in Memories |-> row'[m]]
  BY <1>0, <1>5 DEF Converge, Stale, Dies, Goto, Requests, Underway, Targeted
<1>6. ASSUME NEW d \in Drives, Flip(d)
      PROVE  Requests' /\ Underway' /\ Targeted' /\ row' = [m \in Memories |-> row'[m]]
  BY <1>0, <1>6 DEF Flip, Goto, Requests, Underway, Targeted
<1>7. ASSUME NEW d \in Drives, Lost(d)
      PROVE  Requests' /\ Underway' /\ Targeted' /\ row' = [m \in Memories |-> row'[m]]
  BY <1>0, <1>7 DEF Lost, Delete, Goto, Requests, Underway, Targeted
<1>8. CASE UNCHANGED vars
  BY <1>0, <1>8 DEF vars, Requests, Underway, Targeted
<1> QED
  BY <1>1, <1>2, <1>3, <1>4, <1>5, <1>6, <1>7, <1>8 DEF Next

LEMMA InitInv ==
    ASSUME Init
    PROVE  IInv /\ OneHead /\ ChainIntact
BY DEF Init, IInv, TypeOK, Minted, Sourced, Underway, Targeted, OneHead, ChainIntact, Exists

LEMMA StepInv ==
    ASSUME IInv, [Next]_vars
    PROVE  IInv'
<1>1. RowStep /\ TypeOK /\ Minted /\ Sourced
  BY RowSteps DEF IInv
<1>2. used \subseteq used'
  BY <1>1 DEF RowStep, Created, Superseded, Restated, Deleted
<1>3. Requests' /\ Underway' /\ Targeted' /\ row' = [m \in Memories |-> row'[m]]
  BY <1>2, RequestsHold
<1>4. row' \in [Memories -> Rows \cup {None}] /\ used' \subseteq Memories /\ Minted'
  BY <1>1, <1>3, RowStepTypes
<1>5. Sourced'
  BY <1>1, RowStepSourced
<1> QED
  BY <1>3, <1>4, <1>5 DEF IInv, TypeOK, Requests

-----------------------------------------------------------------------------
(* The chains.                                                              *)

LEMMA StepOneHead ==
    ASSUME TypeOK, Minted, OneHead, RowStep
    PROVE  OneHead'
<1>0. \A m \in Exists : m \in Memories /\ m \in used /\ row[m].root \in used
  BY DEF Minted, Exists
<1>1. ASSUME NEW m \in Memories, NEW p \in Creators, Created(m, p)
      PROVE  OneHead'
  BY <1>0, <1>1 DEF Created, OneHead, Exists
<1>2. ASSUME NEW m \in Memories, NEW n \in Memories, NEW p \in Superseders, Superseded(m, n, p)
      PROVE  OneHead'
  <2>1. row'[m].status = "superseded" /\ row'[n].root = row[m].root
    BY <1>2 DEF Superseded
  <2>2. ASSUME NEW k \in Memories \ {m, n}, row'[k] # None,
               row'[k].status \in {"active", "deferred"}
        PROVE  row'[k] = row[k] /\ k \in Exists /\ row'[k].root # row[m].root
    BY <1>2, <2>2 DEF Superseded, OneHead, Exists
  <2> QED BY <1>2, <2>1, <2>2 DEF OneHead, Exists
<1>3. ASSUME NEW m \in Memories, NEW from \in SUBSET {"active", "deferred"}, NEW to,
             Restated(m, from, to)
      PROVE  OneHead'
  <2>1. ASSUME NEW k \in Memories, row'[k] # None
        PROVE  /\ k \in Exists /\ row'[k].root = row[k].root
               /\ row'[k].status \in {"active", "deferred"} => row[k].status \in {"active", "deferred"}
    <3>0. /\ m \in Exists /\ row[m].status \in {"active", "deferred"}
          /\ row'[m].root = row[m].root
      <4>1. m \in Exists /\ row[m].status \in from
        BY <1>3 DEF Restated
      <4>2. row'[m].root = row[m].root
        BY <1>3 DEF Restated
      <4> QED BY <4>1, <4>2
    <3>1. CASE k = m
      BY <3>0, <3>1
    <3>2. CASE k # m
      BY <1>3, <2>1, <3>2 DEF Restated, Exists
    <3> QED BY <3>1, <3>2
  <2> QED BY <2>1 DEF OneHead, Exists
<1>4. ASSUME NEW p \in Proposals, Deleted(p)
      PROVE  OneHead'
  BY <1>4, DeletedKeeps DEF OneHead, Exists
<1>5. CASE UNCHANGED <<row, used>>
  BY <1>5 DEF OneHead, Exists
<1> QED
  BY <1>1, <1>2, <1>3, <1>4, <1>5 DEF RowStep

LEMMA StepChainIntact ==
    ASSUME TypeOK, Minted, Sourced, ChainIntact, RowStep
    PROVE  ChainIntact'
<1>0. \A m \in Exists : m \in Memories /\ row[m] \in Rows /\ m \in used
  BY RowFields DEF Minted, Exists
<1>1. ASSUME NEW m \in Memories, NEW p \in Creators, Created(m, p)
      PROVE  ChainIntact'
  BY <1>0, <1>1 DEF Created, ChainIntact, Exists
<1>2. ASSUME NEW m \in Memories, NEW n \in Memories, NEW p \in Superseders, Superseded(m, n, p)
      PROVE  ChainIntact'
  <2>1. /\ row[m].next = None /\ m \in Exists /\ n \notin Exists
        /\ \A k \in Exists : row[k].prev # m /\ row[k].next # n /\ row[k].prev # n
    <3>1. m \in Exists /\ row[m].status = "active" /\ n \notin used
      BY <1>2 DEF Superseded
    <3>2. row[m].next = None
      BY <3>1 DEF ChainIntact
    <3>3. n \notin Exists
      BY <1>0, <3>1
    <3>4. ASSUME NEW k \in Exists
          PROVE  row[k].prev # m /\ row[k].next # n /\ row[k].prev # n
      BY <1>0, <3>1, <3>2, <3>3, MemoryAssumption DEF ChainIntact
    <3> QED BY <3>1, <3>2, <3>3, <3>4
  <2>2. /\ row'[m].status = "superseded" /\ row'[m].next = n /\ row'[m].prev = row[m].prev
        /\ row'[n].status = "active" /\ row'[n].next = None /\ row'[n].prev = m
        /\ row'[m] # None /\ row'[n] # None
    <3>1. /\ row'[m] \in Rows /\ row'[n] \in Rows
      BY <1>0, <1>2 DEF Superseded, Superseders, Rows, Status
    <3> QED BY <1>2, <3>1, MemoryAssumption DEF Superseded
  <2>3. ASSUME NEW k \in Memories \ {m, n}, row'[k] # None
        PROVE  k \in Exists /\ row'[k] = row[k]
    BY <1>2, <2>3 DEF Superseded, Exists
  <2> QED BY <1>0, <1>2, <2>1, <2>2, <2>3, MemoryAssumption DEF Superseded, ChainIntact, Exists
<1>3. ASSUME NEW m \in Memories, NEW from \in SUBSET {"active", "deferred"},
             NEW to \in {"active", "deferred", "retracted"}, Restated(m, from, to)
      PROVE  ChainIntact'
  <2>1. m \in Exists /\ row[m].next = None
    BY <1>3 DEF Restated, ChainIntact
  <2>2. row'[m] \in Rows
    BY <1>0, <1>3 DEF Restated, Rows, Status
  <2>3. /\ row'[m] # None /\ row'[m].status # "superseded"
        /\ row'[m].next = row[m].next /\ row'[m].prev = row[m].prev
    BY <1>3, <2>2, MemoryAssumption DEF Restated
  <2>4. \A k \in Memories \ {m} : row'[k] = row[k]
    BY <1>3 DEF Restated
  <2>5. \A k \in Memories : (row'[k] # None) <=> (k \in Exists)
    BY <2>1, <2>3, <2>4 DEF Exists
  <2>6. \A k \in Memories : row'[k].next = row[k].next /\ row'[k].prev = row[k].prev
    BY <2>3, <2>4
  <2>7. \A k \in Exists : row'[k].status = "superseded" <=> row[k].next # None
    BY <1>0, <2>1, <2>3, <2>4 DEF ChainIntact
  <2> QED BY <1>0, <2>5, <2>6, <2>7 DEF ChainIntact, Exists
<1>4. ASSUME NEW p \in Proposals, Deleted(p)
      PROVE  ChainIntact'
  <2>1. ASSUME NEW k \in Exists, Gone(p, k)
        PROVE  row[k].prev = None
    BY <1>4, <2>1, MemoryAssumption DEF Deleted, Creators, Gone, Sourced
  <2>2. ASSUME NEW k \in Exists
        PROVE  ~ Gone(p, row[k].next)
    <3> SUFFICES ASSUME Gone(p, row[k].next) PROVE FALSE
      OBVIOUS
    <3>1. row[k].next \in Exists /\ row[row[k].next].prev = k
      BY DEF ChainIntact, Gone
    <3>2. row[row[k].next].prev = None
      BY <2>1, <3>1
    <3> QED BY <1>0, <3>1, <3>2, MemoryAssumption
  <2>3. ASSUME NEW k \in Memories, row'[k] # None
        PROVE  /\ k \in Exists /\ row'[k].next = row[k].next /\ ~ Gone(p, k)
               /\ row'[k].status = row[k].status
               /\ row'[k].prev = Nullify(p, row[k].prev)
    BY <1>4, <2>2, <2>3, DeletedKeeps DEF Nullify
  <2>4. ASSUME NEW k \in Exists, ~ Gone(p, k)
        PROVE  row'[k] # None
    <3>1. row'[k] = [status |-> row[k].status, root |-> row[k].root,
                     prev |-> Nullify(p, row[k].prev),
                     next |-> Nullify(p, row[k].next), src |-> row[k].src]
      BY <1>4, <2>4 DEF Deleted, Exists
    <3>2. Nullify(p, row[k].prev) \in Memories \cup {None} /\ Nullify(p, row[k].next) \in Memories \cup {None}
      BY <1>0, <2>4 DEF Nullify, Rows
    <3>3. row'[k] \in Rows
      BY <1>0, <2>4, <3>1, <3>2 DEF Rows
    <3> QED BY <3>3, MemoryAssumption
  <2> QED BY <1>0, <2>1, <2>2, <2>3, <2>4 DEF ChainIntact, Nullify, Exists
<1>5. CASE UNCHANGED <<row, used>>
  BY <1>5 DEF ChainIntact, Exists
<1> QED
  BY <1>1, <1>2, <1>3, <1>4, <1>5 DEF RowStep

-----------------------------------------------------------------------------
(* The chains keep their history: rows only leave by the compensation of a  *)
(* rejected create, and a superseded or retracted row stays so.             *)

LEMMA StepHistory ==
    ASSUME TypeOK, Minted, RowStep, NEW h \in Exists
    PROVE  /\ row'[h] = None => row[h].src # None /\ decision[row[h].src] = "rejected"
           /\ row[h].status \in {"superseded", "retracted"} /\ row'[h] # None
                => row'[h].status = row[h].status
<1>0. h \in Memories /\ h \in used /\ row[h] # None
  BY DEF Minted, Exists
<1>1. ASSUME NEW m \in Memories, NEW p \in Creators, Created(m, p)
      PROVE  row'[h] = row[h]
  BY <1>0, <1>1 DEF Created
<1>2. ASSUME NEW m \in Memories, NEW n \in Memories, NEW p \in Superseders, Superseded(m, n, p)
      PROVE  row'[h] = row[h] \/ (row[h].status = "active" /\ row'[h] # None)
  <2>1. CASE h = m
    <3>1. row'[m] \in Rows
      <4>1. row[m] \in Rows /\ row'[m] = [status |-> "superseded", root |-> row[m].root,
                prev |-> row[m].prev, next |-> n, src |-> row[m].src]
        BY <1>2, RowFields DEF Superseded
      <4> QED BY <4>1 DEF Rows, Status
    <3> QED BY <1>2, <2>1, <3>1, MemoryAssumption DEF Superseded
  <2>2. CASE h # m
    BY <1>0, <1>2, <2>2 DEF Superseded
  <2> QED BY <2>1, <2>2
<1>3. ASSUME NEW m \in Memories, NEW from \in SUBSET {"active", "deferred"},
             NEW to \in {"active", "deferred", "retracted"}, Restated(m, from, to)
      PROVE  row'[h] = row[h] \/ (row[h].status \in {"active", "deferred"} /\ row'[h] # None)
  <2>1. CASE h = m
    <3>1. row'[m] \in Rows
      <4>1. row[m] \in Rows /\ row'[m] = [status |-> to, root |-> row[m].root,
                prev |-> row[m].prev, next |-> row[m].next, src |-> row[m].src]
        BY <1>3, RowFields DEF Restated
      <4> QED BY <4>1 DEF Rows, Status
    <3>2. row[m].status \in {"active", "deferred"}
      BY <1>3 DEF Restated
    <3> QED BY <2>1, <3>1, <3>2, MemoryAssumption
  <2>2. CASE h # m
    BY <1>0, <1>3, <2>2 DEF Restated
  <2> QED BY <2>1, <2>2
<1>4. ASSUME NEW p \in Proposals, Deleted(p)
      PROVE  /\ row'[h] = None => row[h].src = p /\ p # None /\ decision[p] = "rejected"
             /\ row'[h] # None => row'[h].status = row[h].status
  <2>1. ASSUME row'[h] = None
        PROVE  Gone(p, h)
    <3> SUFFICES ASSUME ~ Gone(p, h) PROVE FALSE
      OBVIOUS
    <3>1. row'[h] = [status |-> row[h].status, root |-> row[h].root,
                     prev |-> Nullify(p, row[h].prev),
                     next |-> Nullify(p, row[h].next), src |-> row[h].src]
      BY <1>0, <1>4 DEF Deleted
    <3>2. row[h] \in Rows /\ Nullify(p, row[h].prev) \in Memories \cup {None}
          /\ Nullify(p, row[h].next) \in Memories \cup {None}
      BY RowFields DEF Nullify, Rows
    <3>3. row'[h] \in Rows
      BY <3>1, <3>2 DEF Rows
    <3> QED BY <2>1, <3>3, MemoryAssumption
  <2>2. row'[h] # None => row'[h].status = row[h].status
    BY <1>0, <1>4, DeletedKeeps
  <2> QED BY <1>4, <2>1, <2>2, MemoryAssumption DEF Deleted, Gone
<1>5. CASE UNCHANGED <<row, used>>
  BY <1>0, <1>5
<1>6. CASE \E m \in Memories, p \in Creators : Created(m, p)
  BY <1>0, <1>1, <1>6
<1>7. CASE \E m \in Memories, n \in Memories, p \in Superseders : Superseded(m, n, p)
  BY <1>0, <1>2, <1>7
<1>8. CASE \E m \in Memories : \/ Restated(m, {"active", "deferred"}, "retracted")
                               \/ Restated(m, {"active"}, "deferred")
                               \/ Restated(m, {"deferred"}, "active")
  BY <1>0, <1>3, <1>8
<1>9. CASE \E p \in Proposals : Deleted(p)
  BY <1>4, <1>9
<1> QED
  BY <1>5, <1>6, <1>7, <1>8, <1>9 DEF RowStep

-----------------------------------------------------------------------------
(* What the chains promise, for every set of ids, proposals and accepts.    *)

(* The memories, the proposals and the accepts are well typed (the schema of *)
(* the two tables).                                                          *)
THEOREM TypeCorrect == Spec => []TypeOK
<1>1. IInv => TypeOK
  BY DEF IInv
<1> QED BY <1>1, InitInv, StepInv, PTL DEF Spec

(* Of the versions of a decision at most one is in force or parked: a        *)
(* supersession latches the version it replaces in the same statement.       *)
THEOREM OneHeadHolds == Spec => []OneHead
<1>1. Init => IInv /\ OneHead
  BY InitInv
<1>2. IInv /\ OneHead /\ [Next]_vars => (IInv /\ OneHead)'
  BY StepInv, StepOneHead, RowSteps DEF IInv
<1> QED BY <1>1, <1>2, PTL DEF Spec

(* The versions of a decision stay linked both ways, through supersessions,  *)
(* crashes and the compensation of rejected creates.                         *)
THEOREM ChainIntactHolds == Spec => []ChainIntact
<1>1. Init => IInv /\ ChainIntact
  BY InitInv
<1>2. IInv /\ ChainIntact /\ [Next]_vars => (IInv /\ ChainIntact)'
  BY StepInv, StepChainIntact, RowSteps DEF IInv
<1> QED BY <1>1, <1>2, PTL DEF Spec

(* What was superseded or retracted stays so, and only the compensation of a *)
(* rejected create removes a memory.                                         *)
THEOREM HistoryIsKeptHolds == Spec => HistoryIsKept
<1>1. IInv /\ [Next]_vars
      => [\A m \in Exists :
             /\ row'[m] = None => row[m].src # None /\ decision[row[m].src] = "rejected"
             /\ row[m].status \in {"superseded", "retracted"} /\ row'[m] # None
                   => row'[m].status = row[m].status]_vars
  BY RowSteps, StepHistory DEF IInv
<1> QED BY <1>1, InitInv, StepInv, PTL DEF Spec, HistoryIsKept

-----------------------------------------------------------------------------
(* Once a supersession or a retraction has landed its target is spent: it is *)
(* out of the states the command accepts, or gone, and its id is used up.    *)

Spent ==
    \A p \in Proposals :
        /\ decision[p] = "draft" => landed[p] = 0
        /\ Op[p] \in {"supersede", "retract"} /\ landed[p] # 0
           => landed[p] = 1 /\ ~ StatusIs(target[p], {"active", "deferred"})

LEMMA SpentStays ==
    ASSUME IInv, RowStep, NEW t \in used, ~ StatusIs(t, {"active", "deferred"})
    PROVE  ~ (row'[t] # None /\ row'[t].status \in {"active", "deferred"})
<1>0. t \in Memories
  BY DEF IInv, TypeOK
<1>1. CASE row[t] # None
  <2>1. t \in Exists /\ row[t].status \in {"superseded", "retracted"}
    BY <1>0, <1>1, RowFields DEF StatusIs, Exists, IInv, Rows, Status
  <2> QED BY <2>1, StepHistory DEF IInv
<1>2. CASE row[t] = None
  BY <1>0, <1>2 DEF RowStep, Created, Superseded, Restated, Deleted, Exists
<1> QED
  BY <1>1, <1>2

LEMMA StepSpent ==
    ASSUME IInv, Spent, [Next]_vars
    PROVE  Spent'
<1>0. RowStep /\ Requests /\ Targeted /\ Underway
  BY RowSteps DEF IInv, TypeOK, Requests
<1>1. ASSUME NEW p \in Proposals, Op[p] \in {"supersede", "retract"}, decision[p] # "draft",
             ~ StatusIs(target[p], {"active", "deferred"}), target'[p] = target[p]
      PROVE  ~ StatusIs(target[p], {"active", "deferred"})'
  BY <1>0, <1>1, SpentStays DEF Targeted, StatusIs
<1>2. CASE landed' = landed
  <2>1. ASSUME NEW p \in Proposals
        PROVE  /\ decision'[p] = "draft" => decision[p] = "draft"
               /\ decision[p] # "draft" => target'[p] = target[p]
    BY <1>0, <1>2 DEF Next, vars, People, Draft, Reject, Load, Write, Converge, Stale, Flip,
       Lost, Dies, Requests, Underway
  <2> QED BY <1>0, <1>1, <1>2, <2>1 DEF Spent, Requests
<1>3. CASE landed' # landed
  <2>1. PICK d \in Drives : Write(d)
    BY <1>3 DEF Next, vars, People, Draft, Reject, Load, Converge, Stale, Flip, Lost, Dies
  <2>0. PICK q \in Proposals : q = on[d]
    BY <1>0, <2>1 DEF Write, Underway
  <2>2. q \in Proposals /\ decision[q] # "draft" /\ decision' = decision /\ target' = target
    BY <1>0, <2>0, <2>1 DEF Write, Underway
  <2>3. /\ landed'[q] = IF landed[q] < 2 THEN landed[q] + 1 ELSE landed[q]
        /\ \A p \in Proposals \ {q} : landed'[p] = landed[p]
    BY <1>0, <2>0, <2>1, <2>2 DEF Write, Count, Requests
  <2>4. ASSUME NEW p \in Proposals, p # q
        PROVE  /\ decision'[p] = "draft" => landed'[p] = 0
               /\ Op[p] \in {"supersede", "retract"} /\ landed'[p] # 0
                  => landed'[p] = 1 /\ ~ StatusIs(target[p], {"active", "deferred"})'
    <3>1. landed'[p] = landed[p] /\ decision'[p] = decision[p] /\ target'[p] = target[p]
      BY <2>2, <2>3, <2>4
    <3>2. decision'[p] = "draft" => landed'[p] = 0
      BY <3>1 DEF Spent
    <3>3. ASSUME Op[p] \in {"supersede", "retract"}, landed'[p] # 0
          PROVE  landed'[p] = 1 /\ ~ StatusIs(target[p], {"active", "deferred"})'
      <4>1. landed[p] = 1 /\ ~ StatusIs(target[p], {"active", "deferred"}) /\ decision[p] # "draft"
        BY <3>1, <3>3 DEF Spent
      <4> QED BY <1>1, <3>1, <3>3, <4>1
    <3> QED BY <3>2, <3>3
  <2>5. ASSUME Op[q] \in {"supersede", "retract"}
        PROVE  landed'[q] = 1 /\ ~ StatusIs(target[q], {"active", "deferred"})'
    <3>1. target[q] \in Memories
      <4>1. target[q] \in used
        BY <1>0, <2>2, <2>5 DEF Targeted
      <4> QED BY <4>1 DEF IInv, TypeOK
    <3>2. StatusIs(target[q], {"active", "deferred"})
      BY <2>0, <2>1, <2>5 DEF Write, Command, Supersede, Retract, StatusIs
    <3>3. landed[q] = 0
      BY <2>2, <2>5, <3>2 DEF Spent
    <3>4. CASE Op[q] = "supersede"
      <4>1. PICK n \in Memories : Supersede(target[q], n, q)
        BY <2>0, <2>1, <3>4 DEF Write, Command
      <4>2. Superseded(target[q], n, q)
        BY <3>1, <4>1, SupersedeIsSuperseded
      <4>3. row'[target[q]].status = "superseded"
        BY <4>2 DEF Superseded
      <4>4. target'[q] = target[q]
        BY <2>2
      <4>5. ~ StatusIs(target[q], {"active", "deferred"})'
        BY <4>3, <4>4 DEF StatusIs
      <4> QED BY <2>3, <3>3, <4>5
    <3>5. CASE Op[q] = "retract"
      <4>1. Restated(target[q], {"active", "deferred"}, "retracted")
        BY <2>0, <2>1, <3>1, <3>5, RestateIsRestated DEF Write, Command, Retract
      <4>2. row'[target[q]].status = "retracted"
        BY <4>1 DEF Restated
      <4>3. target'[q] = target[q]
        BY <2>2
      <4>4. ~ StatusIs(target[q], {"active", "deferred"})'
        BY <4>2, <4>3 DEF StatusIs
      <4> QED BY <2>3, <3>3, <4>4
    <3> QED BY <2>5, <3>4, <3>5
  <2>6. decision'[q] # "draft"
    BY <2>2
  <2>7. ASSUME NEW p \in Proposals
        PROVE  /\ decision'[p] = "draft" => landed'[p] = 0
               /\ Op[p] \in {"supersede", "retract"} /\ landed'[p] # 0
                  => landed'[p] = 1 /\ ~ StatusIs(target[p], {"active", "deferred"})'
    BY <2>4, <2>5, <2>6
  <2> QED BY <2>7 DEF Spent
<1> QED
  BY <1>2, <1>3

(* A supersession or a retraction takes effect once, however often it is     *)
(* accepted and wherever an accept dies: the command's guard refuses the     *)
(* state the command itself left.                                            *)
THEOREM TakesEffectOnceHolds == Spec => []TakesEffectOnce
<1>1. Init => IInv /\ Spent
  <2>1. Init => Spent
    BY DEF Init, Spent
  <2> QED BY <2>1, InitInv
<1>2. IInv /\ Spent /\ [Next]_vars => (IInv /\ Spent)'
  BY StepInv, StepSpent
<1>3. Spent => TakesEffectOnce
  BY DEF Spent, TakesEffectOnce
<1> QED BY <1>1, <1>2, <1>3, PTL DEF Spec
=============================================================================
