--------------------------- MODULE WorkItemProofs ---------------------------
(***************************************************************************)
(* The tree of work items and their dependencies get a cycle from          *)
(* overlapping statements only, and what a client has drawn does not       *)
(* vanish, for every set of items, teams, clients and concurrent requests. *)
(*                                                                         *)
(* Only two statements write a row of the tree.  An insert writes an id    *)
(* that nothing refers to yet; an update is guarded by the ancestors of    *)
(* the new parent in its snapshot, and it needs the early refusal of       *)
(* self-parents, which the guard itself does not see.  What the guard      *)
(* found stays true of the rows that were not written since (Guarded), so  *)
(* a chain that closes leads through a row that was.  On the workboard the *)
(* two go together: an item takes its edges along.  A dependency is        *)
(* guarded by a walk.                                                      *)
(***************************************************************************)
EXTENDS BoardHistory, TLAPS

Creating(r) == pc[r] = "insert" \/ (pc[r] = "parent" /\ saw[r] = None)

(* What a request knows of the row it is about to write. *)
Prepared ==
    \A r \in Requests :
        /\ pc[r] # "idle" => on[r] \in Items
        /\ pc[r] \in {"team", "kids", "write", "running"} => saw[r] # None
        /\ Creating(r) => /\ ask[r].team # Keep /\ ask[r].parent # Keep
                          /\ on[r] \in used /\ item[on[r]] = None
        /\ saw[r] # None => /\ saw[r].parent # on[r]
                            /\ saw[r].depth = 0 <=> saw[r].parent = None
        /\ pc[r] \in {"parent", "write", "running"} /\ saw[r] # None => ask[r].parent # on[r]

(* An id belongs to the one request that creates it, or to its item. *)
Minted ==
    /\ Exists \subseteq used
    /\ \A r, s \in Requests : Creating(r) /\ Creating(s) /\ on[r] = on[s] => r = s

(* The walk from p through rows that are not in late does not meet i. *)
WalkMisses(i, p, overlap) ==
    \E T \in SUBSET Items :
        /\ i \notin T
        /\ \A j \in Items : j = p \/ j \in T => j \in overlap \/ ParentIn(j, T)

(* What the guard found holds of the rows that were not written since. *)
Guarded ==
    \A r \in Requests :
        pc[r] = "running" /\ NewRow(r).parent # None => WalkMisses(on[r], NewRow(r).parent, late[r])

IInv ==
    TypeOK /\ Prepared /\ Minted /\ DepthIsTrue /\ Guarded /\ ParentCyclesAreRaced

-----------------------------------------------------------------------------
(* The guard: a parent whose walk misses the item in the rows that the       *)
(* UPDATE saw closes no cycle but one with a row it did not see.             *)

LEMMA GuardBreaksCycles ==
    ASSUME TypeOK, ParentCyclesAreRaced,
           NEW i \in Items, NEW row \in Row, row.parent # i, NEW overlap,
           row.parent # None => WalkMisses(i, row.parent, overlap),
           item' = [item EXCEPT ![i] = row],
           raced' = {s \in raced : i \notin s}
                     \cup IF row.parent = None THEN {} ELSE {{i, k} : k \in overlap \ {i}}
    PROVE  ParentCyclesAreRaced'
<1> SUFFICES ASSUME NEW S \in SUBSET Exists', S # {}, \A k \in S : item'[k].parent \in S
             PROVE  \E k, l \in S : k # l /\ {k, l} \in raced'
  BY DEF ParentCyclesAreRaced
<1>1. item'[i] = row /\ \A k \in Items \ {i} : item'[k] = item[k]
  BY DEF TypeOK
<1>2. S \subseteq Items /\ \A k \in S \ {i} : k \in Exists
  BY <1>1 DEF Exists
<1>3. ASSUME NEW U \in SUBSET (S \ {i}), U # {}, \A k \in U : item[k].parent \in U
      PROVE  \E k, l \in S : k # l /\ {k, l} \in raced'
  <2>1. U \in SUBSET Exists
    BY <1>2
  <2>2. PICK k \in U, l \in U : k # l /\ {k, l} \in raced
    BY <1>3, <2>1 DEF ParentCyclesAreRaced
  <2>3. i \notin {k, l}
    BY <1>3
  <2> QED BY <2>2, <2>3
<1>4. CASE i \notin S
  <2>1. S \in SUBSET (S \ {i}) /\ \A k \in S : item[k].parent \in S
    BY <1>1, <1>2, <1>4
  <2> QED BY <1>3, <2>1
<1>5. CASE i \in S
  <2> DEFINE p == row.parent
  <2>1. p \in S /\ p \in Items /\ p # i /\ p # None
    <3>1. p \in S
      BY <1>1, <1>5
    <3> QED BY <1>2, <3>1, TreeAssumption
  <2>2. CASE \E k \in S \ {i} : k \in overlap
    BY <1>5, <2>1, <2>2
  <2>3. CASE \A k \in S \ {i} : k \notin overlap
    <3>1. PICK T \in SUBSET Items :
              /\ i \notin T
              /\ \A j \in Items : j = p \/ j \in T => j \in overlap \/ ParentIn(j, T)
      BY <2>1 DEF WalkMisses
    <3> DEFINE U == {k \in S : k \in T \cup {p}}
    <3>2. U # {} /\ U \in SUBSET (S \ {i})
      BY <2>1, <3>1
    <3>3. ASSUME NEW k \in U
          PROVE  item[k].parent \in U
      <4>1. k \in S /\ k \in Items /\ k # i
        BY <1>2, <2>1, <3>1
      <4>2. item'[k] = item[k] /\ k \in Exists
        BY <1>1, <1>2, <4>1
      <4>3. item[k].parent \in S
        BY <4>1, <4>2
      <4>4. item[k].parent # None /\ item[k] # None
        BY <1>2, <4>2, <4>3, TreeAssumption DEF Exists
      <4>5. ParentIn(k, T)
        BY <2>3, <3>1, <4>1
      <4>6. item[k].parent \in T
        BY <4>4, <4>5 DEF ParentIn
      <4> QED BY <4>3, <4>6
    <3> HIDE DEF U
    <3> QED BY <1>3, <3>2, <3>3
  <2> QED BY <2>2, <2>3
<1> QED
  BY <1>4, <1>5

(* A row that goes takes nothing with it. *)
LEMMA RemovalBreaksNothing ==
    ASSUME TypeOK, ParentCyclesAreRaced, NEW i \in Items,
           item' = [item EXCEPT ![i] = None], raced' = {s \in raced : i \notin s}
    PROVE  ParentCyclesAreRaced'
<1>1. item'[i] = None /\ \A k \in Items \ {i} : item'[k] = item[k]
  BY DEF TypeOK
<1>2. \A k \in Exists' : k \in Exists /\ k # i /\ item'[k] = item[k]
  BY <1>1 DEF Exists
<1> SUFFICES ASSUME NEW S \in SUBSET Exists', S # {}, \A k \in S : item'[k].parent \in S
             PROVE  \E k, l \in S : k # l /\ {k, l} \in raced'
  BY DEF ParentCyclesAreRaced
<1>3. PICK k \in S, l \in S : k # l /\ {k, l} \in raced
  BY <1>2 DEF ParentCyclesAreRaced
<1>4. i \notin {k, l}
  BY <1>2
<1> QED
  BY <1>3, <1>4

(* What a guard has found stays true as long as every row that it went       *)
(* through is as it was, leads nowhere, or is late.                          *)
LEMMA GuardedStays ==
    ASSUME Guarded,
           \A q \in Requests : pc'[q] = "running" =>
               pc[q] = "running" /\ on'[q] = on[q] /\ ask'[q] = ask[q] /\ saw'[q] = saw[q],
           \A q \in Requests, j \in Items, T \in SUBSET Items :
               pc'[q] = "running" /\ (j \in late[q] \/ ParentIn(j, T)) => j \in late'[q] \/ ParentIn(j, T)'
    PROVE  Guarded'
<1> SUFFICES ASSUME NEW q \in Requests, pc'[q] = "running", NewRow(q)'.parent # None
             PROVE  WalkMisses(on[q], NewRow(q).parent, late[q])'
  BY DEF Guarded
<1>1. on'[q] = on[q] /\ NewRow(q)'.parent = NewRow(q).parent
  BY DEF NewRow
<1>2. WalkMisses(on[q], NewRow(q).parent, late[q])
  BY <1>1 DEF Guarded
<1>3. PICK T \in SUBSET Items :
          /\ on[q] \notin T
          /\ \A j \in Items : j = NewRow(q).parent \/ j \in T => j \in late[q] \/ ParentIn(j, T)
  BY <1>2 DEF WalkMisses
<1>4. \A j \in Items : j = NewRow(q)'.parent \/ j \in T => j \in late'[q] \/ ParentIn(j, T)'
  BY <1>1, <1>3
<1> QED
  BY <1>1, <1>3, <1>4 DEF WalkMisses

-----------------------------------------------------------------------------
(* The rows.                                                                *)

TreeInv ==
    /\ item \in [Items -> Row \cup {None}]
    /\ late \in [Requests -> SUBSET Items] /\ raced \subseteq SUBSET Items
    /\ DepthIsTrue /\ Guarded /\ ParentCyclesAreRaced

(* A request answers; others go on. *)
LEMMA AnswerIs ==
    ASSUME IInv, NEW r \in Requests, Answer(r)
    PROVE  /\ pc'[r] = "idle" /\ on'[r] = None /\ ask'[r] = Idle /\ saw'[r] = None
           /\ \A q \in Requests \ {r} :
                 pc'[q] = pc[q] /\ on'[q] = on[q] /\ ask'[q] = ask[q] /\ saw'[q] = saw[q]
  BY DEF Answer, IInv, TypeOK

LEMMA NothingWrittenHolds ==
    ASSUME IInv, NEW r \in Requests, Answer(r),
           item' = item, raced' = raced, late' = late \/ late' = [late EXCEPT ![r] = {}]
    PROVE  TreeInv'
<1>1. late' \in [Requests -> SUBSET Items] /\ \A q \in Requests \ {r} : late'[q] = late[q]
  BY DEF IInv, TypeOK
<1>2. Guarded'
  BY <1>1, AnswerIs, GuardedStays DEF IInv, ParentIn
<1> QED
  BY <1>1, <1>2 DEF IInv, TypeOK, TreeInv, DepthIsTrue, ParentCyclesAreRaced, Exists

LEMMA WriteHolds ==
    ASSUME IInv, NEW r \in Requests, Answer(r),
           NEW i \in Items, NEW row \in Row, NEW overlap \in SUBSET Items, Write(r, i, row, overlap),
           row.depth = (IF row.parent = None THEN 0 ELSE 1),
           row.parent # None => item[row.parent] # None /\ row.parent # i
                                /\ WalkMisses(i, row.parent, overlap)
    PROVE  TreeInv'
<1>1. /\ item' = [item EXCEPT ![i] = row]
      /\ raced' = {s \in raced : i \notin s}
                   \cup IF row.parent = None THEN {} ELSE {{i, k} : k \in overlap \ {i}}
  BY DEF Write
<1>2. item'[i] = row /\ row # None /\ \A k \in Items \ {i} : item'[k] = item[k]
  BY <1>1, TreeAssumption DEF IInv, TypeOK
<1>3. ParentCyclesAreRaced'
  <2>1. row.parent # i
    BY TreeAssumption
  <2> QED BY <1>1, <2>1, GuardBreaksCycles DEF IInv
<1>4. DepthIsTrue'
  <2>1. \A k \in Exists : k \in Exists'
    BY <1>2 DEF Exists
  <2>2. row.parent # None => row.parent \in Exists'
    BY <2>1 DEF Row, Exists
  <2>3. ASSUME NEW k \in Exists', k # i
        PROVE  k \in Exists /\ item'[k] = item[k]
    BY <1>2, <2>3 DEF Exists
  <2> QED BY <1>2, <2>1, <2>2, <2>3 DEF IInv, DepthIsTrue
<1>5. ASSUME NEW q \in Requests
      PROVE  late'[q] = IF q # r /\ pc[q] = "running"
                        THEN (IF row.parent = None THEN late[q] \ {i} ELSE late[q] \cup {i}) ELSE {}
  BY DEF Write
<1>6. Guarded'
  <2>1. ASSUME NEW q \in Requests, pc'[q] = "running"
        PROVE  q # r /\ pc[q] = "running" /\ on'[q] = on[q] /\ ask'[q] = ask[q] /\ saw'[q] = saw[q]
    BY <2>1, AnswerIs
  <2>2. ASSUME NEW q \in Requests, NEW j \in Items, NEW T \in SUBSET Items, pc'[q] = "running",
               j \in late[q] \/ ParentIn(j, T)
        PROVE  j \in late'[q] \/ ParentIn(j, T)'
    <3>1. q # r /\ pc[q] = "running"
      BY <2>1, <2>2
    <3>2. CASE j = i
      BY <1>2, <1>5, <3>1, <3>2 DEF ParentIn
    <3>3. CASE j # i
      BY <1>2, <1>5, <2>2, <3>1, <3>3 DEF ParentIn
    <3> QED BY <3>2, <3>3
  <2> QED BY <2>1, <2>2, GuardedStays DEF IInv
<1>7. late' \in [Requests -> SUBSET Items]
  <2>1. late' = [q \in Requests |->
                   IF q # r /\ pc[q] = "running"
                   THEN (IF row.parent = None THEN late[q] \ {i} ELSE late[q] \cup {i}) ELSE {}]
    BY DEF Write
  <2> QED BY <2>1 DEF IInv, TypeOK
<1>8. raced' \subseteq SUBSET Items
  BY <1>1 DEF IInv, TypeOK
<1>9. item' \in [Items -> Row \cup {None}]
  BY <1>1 DEF IInv, TypeOK
<1> QED
  BY <1>3, <1>4, <1>6, <1>7, <1>8, <1>9 DEF TreeInv

LEMMA InsertTree ==
    ASSUME IInv, NEW r \in Requests, Insert(r)
    PROVE  TreeInv'
<1> DEFINE i == on[r]
           a == ask[r]
<1>1. i \in Items /\ i \in used /\ item[i] = None /\ a.team # Keep /\ a.parent # Keep /\ Answer(r)
  BY DEF Insert, IInv, Prepared, Creating
<1>2. CASE a.parent # None /\ item[a.parent] = None
  BY <1>1, <1>2, NothingWrittenHolds DEF Insert, WriteNothing
<1>3. CASE ~ (a.parent # None /\ item[a.parent] = None)
  <2> DEFINE row == [team |-> a.team, status |-> a.team, parent |-> a.parent,
                     depth |-> IF a.parent = None THEN 0 ELSE 1]
  <2>1. Write(r, i, row, {})
    BY <1>3 DEF Insert
  <2>2. a.team \in Teams /\ a.parent \in Items \cup {None}
    BY <1>1 DEF IInv, TypeOK, Ask
  <2>3. row \in Row /\ row.parent = a.parent /\ row.depth = IF row.parent = None THEN 0 ELSE 1
    BY <2>2 DEF Row
  <2>4. ASSUME a.parent # None
        PROVE  a.parent # i /\ WalkMisses(i, a.parent, {})
    <3>1. \A j \in Items : ParentIn(j, Exists)
      BY DEF IInv, DepthIsTrue, ParentIn, Exists
    <3>2. i \notin Exists /\ Exists \in SUBSET Items
      BY <1>1 DEF Exists
    <3> QED BY <1>1, <1>3, <2>4, <3>1, <3>2 DEF WalkMisses
  <2> HIDE DEF row, i
  <2> QED BY <1>1, <1>3, <2>1, <2>3, <2>4, WriteHolds
<1> QED
  BY <1>2, <1>3

(* What an update is about to write. *)
LEMMA NewRowIs ==
    ASSUME IInv, NEW r \in Requests, pc[r] \in {"write", "running"}
    PROVE  /\ on[r] \in Items /\ NewRow(r) \in Row /\ NewRow(r).parent # on[r]
           /\ NewRow(r).depth = IF NewRow(r).parent = None THEN 0 ELSE 1
<1> DEFINE parent == IF ask[r].parent = Keep THEN saw[r].parent ELSE ask[r].parent
           depth == IF ask[r].parent = Keep THEN saw[r].depth ELSE IF parent = None THEN 0 ELSE 1
<1>1. /\ on[r] \in Items /\ saw[r] \in Row /\ saw[r].parent # on[r] /\ ask[r].parent # on[r]
      /\ saw[r].depth = 0 <=> saw[r].parent = None
      /\ ask[r] \in Ask
  BY DEF IInv, Prepared, TypeOK
<1>2. parent \in Items \cup {None} /\ parent # on[r]
  BY <1>1 DEF Ask, Row
<1>3. depth \in 0 .. 1 /\ depth = IF parent = None THEN 0 ELSE 1
  BY <1>1 DEF Ask, Row
<1>4. TeamFor(r) \in Teams /\ (IF ask[r].status = Keep THEN saw[r].status ELSE ask[r].status) \in Teams
  BY <1>1 DEF Ask, Row, TeamFor
<1>5. NewRow(r).parent = parent /\ NewRow(r).depth = depth
  BY DEF NewRow
<1>6. NewRow(r) \in Row
  BY <1>2, <1>3, <1>4 DEF NewRow, Row
<1> QED
  BY <1>1, <1>2, <1>3, <1>5, <1>6

LEMMA UpdateTree ==
    ASSUME IInv, NEW r \in Requests, Update(r)
    PROVE  TreeInv'
<1> DEFINE i == on[r]
           row == NewRow(r)
<1>1. pc[r] = "running" /\ Answer(r) /\ late[r] \in SUBSET Items
  BY DEF Update, IInv, TypeOK
<1>2. i \in Items /\ row \in Row /\ row.parent # i /\ row.depth = IF row.parent = None THEN 0 ELSE 1
  BY <1>1, NewRowIs
<1>3. CASE item[i] = None \/ (row.parent # None /\ item[row.parent] = None)
  <2>1. WriteNothing(r)
    BY <1>3 DEF Update
  <2> QED BY <1>1, <2>1, NothingWrittenHolds DEF WriteNothing
<1>4. CASE ~ (item[i] = None \/ (row.parent # None /\ item[row.parent] = None))
  <2>1. Write(r, i, row, late[r])
    BY <1>4 DEF Update
  <2>2. row.parent # None => WalkMisses(i, row.parent, late[r])
    BY <1>1 DEF IInv, Guarded
  <2> HIDE DEF row, i
  <2> QED BY <1>1, <1>2, <1>4, <2>1, <2>2, WriteHolds
<1> QED
  BY <1>3, <1>4

LEMMA CompensateTree ==
    ASSUME IInv, NEW i \in Items, Compensate(i)
    PROVE  TreeInv'
<1>1. /\ item' = [item EXCEPT ![i] = None] /\ raced' = {s \in raced : i \notin s}
      /\ late' = [r \in Requests |-> late[r] \ {i}] /\ \A k \in Exists : item[k].parent # i
      /\ pc' = pc /\ on' = on /\ ask' = ask /\ saw' = saw
  BY DEF Compensate, Children, request
<1>2. ParentCyclesAreRaced'
  BY <1>1, RemovalBreaksNothing DEF IInv
<1>3. item'[i] = None /\ \A k \in Items \ {i} : item'[k] = item[k]
  BY <1>1 DEF IInv, TypeOK
<1>4. \A k \in Exists' : k \in Exists /\ item'[k] = item[k]
  BY <1>3 DEF Exists
<1>5. \A k \in Exists : k # i => k \in Exists'
  BY <1>3 DEF Exists
<1>6. DepthIsTrue'
  BY <1>1, <1>4, <1>5 DEF IInv, DepthIsTrue
<1>7. Guarded'
  <2>1. ASSUME NEW q \in Requests, NEW j \in Items, NEW T \in SUBSET Items, j \in late[q] \/ ParentIn(j, T)
        PROVE  j \in late'[q] \/ ParentIn(j, T)'
    BY <1>1, <1>3, <2>1 DEF ParentIn
  <2> QED BY <1>1, <2>1, GuardedStays DEF IInv
<1> QED
  BY <1>1, <1>2, <1>6, <1>7 DEF IInv, TypeOK, TreeInv

-----------------------------------------------------------------------------
(* The requests.                                                            *)

RequestTypes ==
    /\ used \subseteq Items
    /\ pc \in [Requests -> {"idle", "insert", "team", "kids", "parent", "write", "running"}]
    /\ on \in [Requests -> Items \cup {None}]
    /\ ask \in [Requests -> Ask]
    /\ saw \in [Requests -> Row \cup {None}]

(* A statement that only looks moves one request on. *)
Moved(r, step) ==
    /\ pc' = [pc EXCEPT ![r] = step] /\ UNCHANGED <<item, used, on, ask, saw, history>>
    /\ step \in {"insert", "kids", "parent", "write", "running"}
    /\ step \in {"kids", "write", "running"} => saw[r] # None
    /\ step = "insert" => pc[r] = "parent" /\ saw[r] = None
    /\ pc[r] # "idle"
    /\ step = "parent" => saw[r] # None
    /\ step \in {"parent", "write", "running"} /\ saw[r] # None => ask[r].parent # on[r]
    /\ step = "running" => pc[r] = "write" /\ MayWrite(on[r], NewRow(r).parent)

LEMMA MovedHolds ==
    ASSUME IInv, NEW r \in Requests, NEW step, Moved(r, step)
    PROVE  RequestTypes' /\ Prepared' /\ Minted'
<1>1. /\ pc'[r] = step /\ \A s \in Requests \ {r} : pc'[s] = pc[s]
      /\ item' = item /\ used' = used /\ on' = on /\ ask' = ask /\ saw' = saw
  BY DEF Moved, IInv, TypeOK
<1>2. RequestTypes'
  BY <1>1 DEF Moved, IInv, TypeOK, RequestTypes
<1>3. \A s \in Requests : Creating(s)' => Creating(s)
  BY <1>1 DEF Moved, Creating
<1>4. Minted'
  BY <1>1, <1>3 DEF IInv, Minted, Exists
<1>5. ASSUME NEW s \in Requests
      PROVE  /\ pc'[s] # "idle" => on'[s] \in Items
             /\ pc'[s] \in {"team", "kids", "write", "running"} => saw'[s] # None
             /\ Creating(s)' => /\ ask'[s].team # Keep /\ ask'[s].parent # Keep
                                /\ on'[s] \in used' /\ item'[on'[s]] = None
             /\ saw'[s] # None => /\ saw'[s].parent # on'[s]
                                  /\ saw'[s].depth = 0 <=> saw'[s].parent = None
             /\ pc'[s] \in {"parent", "write", "running"} /\ saw'[s] # None => ask'[s].parent # on'[s]
  <2>1. CASE s = r
    BY <1>1, <1>3, <2>1 DEF Moved, IInv, Prepared
  <2>2. CASE s # r
    BY <1>1, <1>3, <2>2 DEF IInv, Prepared
  <2> QED BY <2>1, <2>2
<1> QED
  BY <1>2, <1>4, <1>5 DEF Prepared

(* The guard's snapshot is what is there when it looks. *)
LEMMA MovedTree ==
    ASSUME IInv, NEW r \in Requests, NEW step, Moved(r, step)
    PROVE  TreeInv'
<1>1. /\ pc'[r] = step /\ \A s \in Requests \ {r} : pc'[s] = pc[s]
      /\ item' = item /\ on' = on /\ ask' = ask /\ saw' = saw /\ late' = late /\ raced' = raced
  BY DEF Moved, history, IInv, TypeOK
<1>2. Guarded'
  <2> SUFFICES ASSUME NEW q \in Requests, pc'[q] = "running", NewRow(q)'.parent # None
               PROVE  WalkMisses(on[q], NewRow(q).parent, late[q])'
    BY DEF Guarded
  <2>1. NewRow(q)'.parent = NewRow(q).parent
    BY <1>1 DEF NewRow
  <2>2. WalkMisses(on[q], NewRow(q).parent, late[q])
    <3>1. CASE q # r
      BY <1>1, <2>1, <3>1 DEF IInv, Guarded
    <3>2. CASE q = r
      <4> DEFINE p == NewRow(r).parent
      <4>1. on[r] \in Items /\ on[r] \notin Ancestors(p)
        BY <1>1, <2>1, <3>2, NewRowIs DEF Moved, MayWrite
      <4>2. PICK T \in SUBSET Items : ParentIn(p, T) /\ (\A j \in T : ParentIn(j, T)) /\ on[r] \notin T
        BY <4>1 DEF Ancestors
      <4> QED BY <3>2, <4>2 DEF WalkMisses
    <3> QED BY <3>1, <3>2
  <2> QED BY <1>1, <2>1, <2>2 DEF WalkMisses, ParentIn
<1> QED
  BY <1>1, <1>2 DEF IInv, TypeOK, TreeInv, DepthIsTrue, ParentCyclesAreRaced, Exists

(* A check fails, or its request moves on. *)
LEMMA ChecksMove ==
    ASSUME IInv, NEW r \in Requests, CheckTeam(r) \/ CheckKids(r) \/ CheckParent(r) \/ Guard(r)
    PROVE  \/ Answer(r) /\ UNCHANGED <<item, used, history>>
           \/ \E step : Moved(r, step)
<1>1. CASE CheckTeam(r)
  <2>1. pc[r] = "team" /\ saw[r] # None
    BY <1>1 DEF CheckTeam, Check, IInv, Prepared
  <2>2. \/ Answer(r) /\ UNCHANGED <<item, used, history>>
        \/ Goto(r, "kids") /\ UNCHANGED <<item, used, history>>
    BY <1>1 DEF CheckTeam, Check
  <2>3. ASSUME Goto(r, "kids"), UNCHANGED <<item, used, history>>
        PROVE  Moved(r, "kids")
    BY <2>1, <2>3 DEF Goto, Moved
  <2> QED BY <2>2, <2>3
<1>2. CASE CheckKids(r)
  <2>1. pc[r] = "kids" /\ saw[r] # None /\ on[r] \in Items
    BY <1>2 DEF CheckKids, Check, IInv, Prepared
  <2> DEFINE step == IF Nests(r) THEN "parent" ELSE "write"
  <2>2. \/ Answer(r) /\ UNCHANGED <<item, used, history>>
        \/ /\ Goto(r, step) /\ UNCHANGED <<item, used, history>>
           /\ Nests(r) => ask[r].parent # on[r]
    BY <1>2 DEF CheckKids, Check
  <2>3. (Nests(r) => ask[r].parent # on[r]) => ask[r].parent # on[r]
    BY <2>1, TreeAssumption DEF Nests
  <2>4. step \in {"parent", "write"}
    OBVIOUS
  <2> HIDE DEF step
  <2>5. ASSUME Goto(r, step), UNCHANGED <<item, used, history>>, ask[r].parent # on[r]
        PROVE  Moved(r, step)
    BY <2>1, <2>4, <2>5 DEF Goto, Moved
  <2> QED BY <2>2, <2>3, <2>5
<1>3. CASE CheckParent(r)
  <2>1. pc[r] = "parent" /\ (saw[r] # None => ask[r].parent # on[r])
    BY <1>3 DEF CheckParent, Check, IInv, Prepared
  <2> DEFINE step == IF saw[r] = None THEN "insert" ELSE "write"
  <2>2. \/ Answer(r) /\ UNCHANGED <<item, used, history>>
        \/ Goto(r, step) /\ UNCHANGED <<item, used, history>>
    BY <1>3 DEF CheckParent, Check
  <2>3. ASSUME Goto(r, step), UNCHANGED <<item, used, history>>
        PROVE  Moved(r, step)
    BY <2>1, <2>3 DEF Goto, Moved
  <2> QED BY <2>2, <2>3
<1>4. CASE Guard(r)
  <2>1. pc[r] = "write" /\ saw[r] # None /\ ask[r].parent # on[r]
    BY <1>4 DEF Guard, Check, IInv, Prepared
  <2>2. \/ Answer(r) /\ UNCHANGED <<item, used, history>>
        \/ /\ Goto(r, "running") /\ UNCHANGED <<item, used, history>>
           /\ MayWrite(on[r], NewRow(r).parent)
    BY <1>4 DEF Guard, Check
  <2>3. ASSUME Goto(r, "running"), UNCHANGED <<item, used, history>>, MayWrite(on[r], NewRow(r).parent)
        PROVE  Moved(r, "running")
    BY <2>1, <2>3 DEF Goto, Moved
  <2> QED BY <2>2, <2>3
<1> QED
  BY <1>1, <1>2, <1>3, <1>4

LEMMA BeginCreateHolds ==
    ASSUME IInv, NEW r \in Requests, NEW i \in Items, NEW a \in Asks, BeginCreate(r, i, a)
    PROVE  RequestTypes' /\ Prepared' /\ Minted'
<1>1. /\ i \notin used /\ used' = used \cup {i} /\ item' = item /\ item[i] = None
      /\ on'[r] = i /\ ask'[r] = a /\ saw'[r] = None /\ pc'[r] \in {"insert", "parent"}
      /\ \A s \in Requests \ {r} :
            pc'[s] = pc[s] /\ on'[s] = on[s] /\ ask'[s] = ask[s] /\ saw'[s] = saw[s]
      /\ a.team # Keep /\ a.parent # Keep /\ a \in Ask
  BY TreeAssumption DEF BeginCreate, IInv, TypeOK, Minted, Exists
<1>2. RequestTypes'
  BY <1>1, TreeAssumption DEF BeginCreate, IInv, TypeOK, RequestTypes
<1>3. \A s \in Requests : Creating(s)' <=> s = r \/ Creating(s)
  BY <1>1 DEF Creating, BeginCreate
<1>4. \A s \in Requests : Creating(s) => on[s] # i
  BY <1>1 DEF IInv, Prepared
<1>5. ~ Creating(r)
  BY DEF BeginCreate, Creating
<1>6. Minted'
  BY <1>1, <1>3, <1>4, <1>5 DEF IInv, Minted, Exists
<1>7. Prepared'
  BY <1>1, <1>3 DEF IInv, Prepared
<1> QED
  BY <1>2, <1>6, <1>7

LEMMA BeginUpdateHolds ==
    ASSUME IInv, NEW r \in Requests, NEW i \in Items, NEW a \in Asks, BeginUpdate(r, i, a)
    PROVE  RequestTypes' /\ Prepared' /\ Minted'
<1>1. /\ used' = used /\ item' = item /\ item[i] # None /\ item[i] \in Row
      /\ on'[r] = i /\ ask'[r] = a /\ saw'[r] = item[i] /\ pc'[r] = "team"
      /\ \A s \in Requests \ {r} :
            pc'[s] = pc[s] /\ on'[s] = on[s] /\ ask'[s] = ask[s] /\ saw'[s] = saw[s]
  BY DEF BeginUpdate, IInv, TypeOK
<1>2. RequestTypes'
  BY <1>1, TreeAssumption DEF BeginUpdate, IInv, TypeOK, RequestTypes
<1>3. \A s \in Requests : Creating(s)' => s # r /\ Creating(s)
  BY <1>1 DEF Creating
<1>4. item[i].parent # i /\ (item[i].depth = 0 <=> item[i].parent = None)
  <2>1. i \in Exists
    BY <1>1 DEF Exists
  <2>2. item[i].parent # i
    <3>1. {i} \in SUBSET Exists /\ {i} # {} /\ ~ \E k, l \in {i} : k # l
      BY <2>1
    <3> QED BY <3>1 DEF IInv, ParentCyclesAreRaced
  <2> QED BY <2>1, <2>2 DEF IInv, DepthIsTrue
<1>5. Minted'
  BY <1>1, <1>3 DEF IInv, Minted, Exists
<1>6. Prepared'
  BY <1>1, <1>3, <1>4 DEF IInv, Prepared
<1> QED
  BY <1>2, <1>5, <1>6

(* A request that only begins leaves the rows and the guards alone. *)
LEMMA BeginTree ==
    ASSUME IInv, NEW r \in Requests, NEW i \in Items, NEW a \in Asks,
           BeginCreate(r, i, a) \/ BeginUpdate(r, i, a)
    PROVE  TreeInv'
<1>1. /\ item' = item /\ late' = late /\ raced' = raced /\ pc'[r] \in {"insert", "parent", "team"}
      /\ \A s \in Requests \ {r} :
            pc'[s] = pc[s] /\ on'[s] = on[s] /\ ask'[s] = ask[s] /\ saw'[s] = saw[s]
  BY DEF BeginCreate, BeginUpdate, history, IInv, TypeOK
<1>2. Guarded'
  BY <1>1, GuardedStays DEF IInv, ParentIn
<1> QED
  BY <1>1, <1>2 DEF IInv, TypeOK, TreeInv, DepthIsTrue, ParentCyclesAreRaced, Exists

(* A request that is done, its row written or not. *)
LEMMA DoneHolds ==
    ASSUME IInv, NEW r \in Requests, Answer(r), used' = used,
           \/ item' = item
           \/ /\ on[r] \in Items /\ \A k \in Items : k # on[r] => item'[k] = item[k]
              /\ Creating(r) \/ item[on[r]] # None
    PROVE  RequestTypes' /\ Prepared' /\ Minted'
<1>1. /\ pc'[r] = "idle" /\ on'[r] = None /\ ask'[r] = Idle /\ saw'[r] = None
      /\ \A s \in Requests \ {r} :
            pc'[s] = pc[s] /\ on'[s] = on[s] /\ ask'[s] = ask[s] /\ saw'[s] = saw[s]
  BY AnswerIs
<1>2. RequestTypes'
  <2>1. Idle \in Ask
    BY DEF Idle, Ask
  <2> QED BY <2>1 DEF Answer, IInv, TypeOK, RequestTypes
<1>3. \A s \in Requests : Creating(s)' => s # r /\ Creating(s)
  BY <1>1 DEF Creating
<1>4. \A s \in Requests \ {r} : Creating(s) => on[s] \in Items /\ item'[on[s]] = None
  <2> SUFFICES ASSUME NEW s \in Requests \ {r}, Creating(s)
               PROVE  on[s] \in Items /\ item'[on[s]] = None
    OBVIOUS
  <2>1. on[s] \in Items /\ item[on[s]] = None
    BY DEF Creating, IInv, Prepared
  <2>2. item' = item \/ on[s] # on[r]
    BY <2>1 DEF IInv, Minted
  <2> QED BY <2>1, <2>2
<1>5. Exists' \subseteq used
  <2>1. \A k \in Exists' : k \in Exists \/ (k = on[r] /\ (Creating(r) \/ item[k] # None))
    BY DEF Exists
  <2> QED BY <2>1 DEF IInv, Minted, Prepared, Exists
<1>6. Minted'
  BY <1>1, <1>3, <1>5 DEF IInv, Minted
<1>7. Prepared'
  BY <1>1, <1>3, <1>4 DEF IInv, Prepared
<1> QED
  BY <1>2, <1>6, <1>7

LEMMA WriteIsDone ==
    ASSUME IInv, NEW r \in Requests, Insert(r) \/ Update(r)
    PROVE  RequestTypes' /\ Prepared' /\ Minted'
<1>1. Answer(r) /\ used' = used
  BY DEF Insert, Update
<1>2. CASE item' = item
  BY <1>1, <1>2, DoneHolds
<1>3. CASE item' # item
  <2>1. on[r] \in Items /\ (Creating(r) \/ item[on[r]] # None)
    BY <1>3 DEF Insert, Update, WriteNothing, Creating, IInv, Prepared
  <2>2. \A k \in Items : k # on[r] => item'[k] = item[k]
    BY <1>3 DEF Insert, Update, WriteNothing, Write, IInv, TypeOK
  <2> QED BY <1>1, <2>1, <2>2, DoneHolds
<1> QED
  BY <1>2, <1>3

LEMMA CompensateHolds ==
    ASSUME IInv, NEW i \in Items, Compensate(i)
    PROVE  RequestTypes' /\ Prepared' /\ Minted'
<1>1. /\ item' = [item EXCEPT ![i] = None]
      /\ used' = used /\ pc' = pc /\ on' = on /\ ask' = ask /\ saw' = saw
  BY DEF Compensate, request
<1>2. item'[i] = None /\ \A k \in Items \ {i} : item'[k] = item[k]
  BY <1>1 DEF IInv, TypeOK
<1>3. \A s \in Requests : Creating(s)' <=> Creating(s)
  BY <1>1 DEF Creating
<1> QED
  BY <1>1, <1>2, <1>3 DEF IInv, TypeOK, RequestTypes, Prepared, Minted, Exists

LEMMA InitInv ==
    ASSUME Init
    PROVE  IInv
<1>1. Exists = {} /\ Idle \in Ask
  BY DEF Init, Exists, Idle, Ask
<1>2. ParentCyclesAreRaced /\ DepthIsTrue
  BY <1>1 DEF ParentCyclesAreRaced, DepthIsTrue
<1>3. TypeOK /\ Prepared /\ Minted /\ Guarded
  BY <1>1 DEF Init, TypeOK, Prepared, Minted, Creating, Guarded
<1> QED
  BY <1>2, <1>3 DEF IInv

LEMMA StepInv ==
    ASSUME IInv, [Next]_vars
    PROVE  IInv'
<1>1. ASSUME RequestTypes' /\ Prepared' /\ Minted', TreeInv'
      PROVE  IInv'
  BY <1>1 DEF IInv, TypeOK, RequestTypes, TreeInv
<1>2. ASSUME NEW r \in Requests, NEW i \in Items, NEW a \in Asks,
             BeginCreate(r, i, a) \/ BeginUpdate(r, i, a)
      PROVE  IInv'
  BY <1>1, <1>2, BeginCreateHolds, BeginUpdateHolds, BeginTree
<1>3. ASSUME NEW r \in Requests, Answer(r), item' = item, used' = used, raced' = raced,
             late' = late \/ late' = [late EXCEPT ![r] = {}]
      PROVE  IInv'
  BY <1>1, <1>3, DoneHolds, NothingWrittenHolds
<1>4. ASSUME NEW r \in Requests, CheckTeam(r) \/ CheckKids(r) \/ CheckParent(r) \/ Guard(r)
      PROVE  IInv'
  <2>1. CASE Answer(r) /\ UNCHANGED <<item, used, history>>
    BY <1>3, <2>1 DEF history
  <2>2. CASE \E step : Moved(r, step)
    BY <1>1, <2>2, MovedHolds, MovedTree
  <2> QED BY <1>4, <2>1, <2>2, ChecksMove
<1>5. ASSUME NEW r \in Requests, Dies(r)
      PROVE  IInv'
  BY <1>3, <1>5 DEF Dies, WriteNothing
<1>6. ASSUME NEW r \in Requests, Insert(r) \/ Update(r)
      PROVE  IInv'
  BY <1>1, <1>6, WriteIsDone, InsertTree, UpdateTree
<1>7. ASSUME NEW i \in Items, Compensate(i)
      PROVE  IInv'
  BY <1>1, <1>7, CompensateHolds, CompensateTree
<1>8. CASE UNCHANGED vars
  <2>1. /\ item' = item /\ used' = used /\ pc' = pc /\ on' = on /\ ask' = ask /\ saw' = saw
        /\ late' = late /\ raced' = raced
    BY <1>8 DEF vars, request, history
  <2>2. Guarded'
    BY <2>1, GuardedStays DEF IInv, ParentIn
  <2> QED
    BY <2>1, <2>2 DEF IInv, TypeOK, Prepared, Minted, Creating, DepthIsTrue, ParentCyclesAreRaced, Exists
<1> QED
  BY <1>2, <1>4, <1>5, <1>6, <1>7, <1>8 DEF Next

-----------------------------------------------------------------------------
(* The rows and the requests are well typed: an update merges its patch into *)
(* a row that it has read.                                                   *)
THEOREM TypeCorrect == Spec => []TypeOK
<1>1. IInv => TypeOK
  BY DEF IInv
<1> QED BY <1>1, InitInv, StepInv, PTL DEF Spec

(* A chain of parents that closes has two items whose rows were written by   *)
(* UPDATEs that overlapped, however many requests nest items into each other *)
(* at the same time, and whatever they have read before: each UPDATE is      *)
(* guarded by the ancestors of its new parent in the snapshot it runs in.    *)
THEOREM ParentCyclesAreRacedHolds == Spec => []ParentCyclesAreRaced
<1>1. IInv => ParentCyclesAreRaced
  BY DEF IInv
<1> QED BY <1>1, InitInv, StepInv, PTL DEF Spec

(* The stored depth of an item agrees with its parent, and its parent is     *)
(* there.                                                                    *)
THEOREM DepthIsTrueHolds == Spec => []DepthIsTrue
<1>1. IInv => DepthIsTrue
  BY DEF IInv
<1> QED BY <1>1, InitInv, StepInv, PTL DEF Spec
-----------------------------------------------------------------------------
(* The dependency graph.  An edge that is committed was added by the one    *)
(* request that has its id, a snapshot holds such edges only, and an item    *)
(* is not connected to itself.                                               *)
WasAdded(e) == \E r \in adds : r.step = "added" /\ EdgeOf(r) = e

Committed ==
    /\ \A e \in edges : WasAdded(e)
    /\ \A r \in adds : \A e \in r.saw : WasAdded(e)
    /\ \A r \in adds : r.source # r.target

GraphInv == GraphTypeOK /\ Committed /\ CyclesAreRaced

(* Adds only become more: what was added stays so. *)
AddedStay == \A r \in adds : r.step = "added" => r \in adds'

LEMMA GraphInit1 == GraphInit => GraphInv
  BY DEF GraphInit, GraphInv, GraphTypeOK, Committed, CyclesAreRaced

(* Two edges that overlapped are told by the requests that added them, so    *)
(* they overlapped for good.                                                 *)
LEMMA OverlapStays ==
    ASSUME GraphTypeOK, Committed, AddedStay,
           NEW e \in edges, NEW f \in edges, Overlapped(e, f)
    PROVE  Overlapped(e, f)'
<1>1. PICK r \in adds, q \in adds : r.id = e.id /\ q.id = f.id /\ e \notin q.saw /\ f \notin r.saw
  BY DEF Overlapped
<1>2. r.step = "added" /\ q.step = "added"
  BY <1>1 DEF Committed, WasAdded, EdgeOf, GraphTypeOK
<1> QED
  BY <1>1, <1>2 DEF AddedStay, Overlapped

LEMMA FewerEdgesHold ==
    ASSUME GraphInv, AddedStay, edges' \subseteq edges
    PROVE  CyclesAreRaced'
<1> SUFFICES ASSUME NEW E \in SUBSET edges', E # {}, Endless(E)
             PROVE  \E e, f \in E : e # f /\ Overlapped(e, f)'
  BY DEF CyclesAreRaced, Endless
<1>1. PICK e \in E, f \in E : e # f /\ Overlapped(e, f)
  BY DEF GraphInv, CyclesAreRaced
<1>2. e \in edges /\ f \in edges /\ Overlapped(e, f)'
  BY <1>1, OverlapStays DEF GraphInv
<1> QED
  BY <1>1, <1>2

(* The walk.  A set of edges that goes on for ever from an edge whose        *)
(* snapshot had all the others has a cycle without it: the walk from its     *)
(* target did not arrive at its source.                                      *)
LEMMA WalkBreaksCycles ==
    ASSUME NEW s \in Nodes, NEW t \in Nodes, NEW new \in Edge, NEW E \in SUBSET Edge, NEW Saw,
           new.source = s, new.target = t, s # t, new \in E, Endless(E),
           E \ {new} \subseteq Saw, ~ Reaches(Saw, t, s)
    PROVE  \E F \in SUBSET (E \ {new}) : F # {} /\ Endless(F)
<1>1. PICK S \in SUBSET Nodes :
          /\ \A e \in Saw : e.source = t \/ e.source \in S => e.target \in S
          /\ s \notin S
  BY DEF Reaches
<1> DEFINE F == {e \in E : e.source = t \/ e.source \in S}
<1>2. new \notin F
  BY <1>1
<1>3. F # {}
  BY DEF Endless
<1>4. Endless(F)
  <2> SUFFICES ASSUME NEW e \in F PROVE \E f \in F : f.source = e.target
    BY DEF Endless
  <2>1. e \in Saw
    BY <1>2
  <2>2. e.target \in S
    BY <1>1, <2>1
  <2>3. PICK f \in E : f.source = e.target
    BY DEF Endless
  <2> QED BY <2>2, <2>3
<1> QED
  BY <1>2, <1>3, <1>4

LEMMA InsertHolds ==
    ASSUME GraphInv, NEW r \in adds, InsertEdge(r), edges' # edges
    PROVE  CyclesAreRaced'
<1> DEFINE new  == EdgeOf(r)
           done == [r EXCEPT !.step = "added"]
<1>1. /\ r.step = "running" /\ ~ Reaches(r.saw, r.target, r.source)
      /\ adds' = (adds \ {r}) \cup {done} /\ edges' = edges \cup {new}
  BY DEF InsertEdge, Advance
<1>2. r \in Request /\ new \in Edge /\ new.id = r.id /\ new.source = r.source /\ new.target = r.target
  BY DEF GraphInv, GraphTypeOK, Request, Edge, EdgeOf
<1>3. done \in adds' /\ done.id = r.id /\ done.saw = r.saw
  BY <1>1, <1>2 DEF Request
<1>4. AddedStay
  BY <1>1 DEF AddedStay
<1>5. \A q \in adds : new \notin q.saw
  <2> SUFFICES ASSUME NEW q \in adds, new \in q.saw PROVE FALSE
    OBVIOUS
  <2>1. PICK p \in adds : p.step = "added" /\ EdgeOf(p) = new
    BY DEF GraphInv, Committed, WasAdded
  <2>2. p.id = r.id
    BY <2>1, <1>2 DEF EdgeOf
  <2> QED BY <1>1, <2>1, <2>2 DEF GraphInv, GraphTypeOK
<1> SUFFICES ASSUME NEW E \in SUBSET edges', E # {}, Endless(E)
             PROVE  \E e, f \in E : e # f /\ Overlapped(e, f)'
  BY DEF CyclesAreRaced, Endless
<1>6. ASSUME NEW F \in SUBSET (E \ {new}), F # {}, Endless(F)
      PROVE  \E e, f \in E : e # f /\ Overlapped(e, f)'
  <2>1. F \in SUBSET edges
    BY <1>1
  <2>2. PICK e \in F, f \in F : e # f /\ Overlapped(e, f)
    BY <1>6, <2>1 DEF GraphInv, CyclesAreRaced
  <2>3. Overlapped(e, f)'
    BY <1>4, <2>1, <2>2, OverlapStays DEF GraphInv
  <2> QED BY <2>2, <2>3
<1>7. CASE new \notin E
  BY <1>6, <1>7
<1>8. CASE new \in E /\ \E f \in E \ {new} : f \notin r.saw
  <2>1. PICK f \in E \ {new} : f \notin r.saw
    BY <1>8
  <2>2. f \in edges
    BY <1>1
  <2>3. PICK q \in adds : q.step = "added" /\ EdgeOf(q) = f
    BY <2>2 DEF GraphInv, Committed, WasAdded
  <2>4. q \in adds' /\ q.id = f.id /\ new \notin q.saw
    BY <1>4, <1>5, <2>3 DEF AddedStay, EdgeOf
  <2>5. Overlapped(new, f)'
    BY <1>2, <1>3, <2>1, <2>4 DEF Overlapped
  <2> QED BY <1>8, <2>1, <2>5
<1>9. CASE new \in E /\ E \ {new} \subseteq r.saw
  <2>1. r.source \in Nodes /\ r.target \in Nodes /\ r.source # r.target
    BY <1>2 DEF Request, GraphInv, Committed
  <2>2. E \in SUBSET Edge
    BY <1>1, <1>2 DEF GraphInv, GraphTypeOK
  <2>3. PICK F \in SUBSET (E \ {new}) : F # {} /\ Endless(F)
    BY <1>1, <1>2, <1>9, <2>1, <2>2, WalkBreaksCycles
  <2> QED BY <1>6, <2>3
<1> QED
  BY <1>7, <1>8, <1>9

(* One request moves on. *)
LEMMA StepHolds ==
    ASSUME GraphTypeOK, Committed, NEW r \in adds, NEW next \in Request,
           adds' = (adds \ {r}) \cup {next}, edges' = edges, nodes' = nodes,
           r.step # "added", EdgeOf(next) = EdgeOf(r), next.saw \in {r.saw, edges}
    PROVE  GraphTypeOK' /\ Committed' /\ AddedStay
<1>1. next.id = r.id /\ next.source = r.source /\ next.target = r.target
  BY DEF EdgeOf
<1>2. AddedStay
  BY DEF AddedStay
<1>3. \A e : WasAdded(e) => WasAdded(e)'
  BY <1>2 DEF WasAdded, AddedStay
<1>4. GraphTypeOK'
  BY <1>1 DEF GraphTypeOK
<1>5. Committed'
  BY <1>1, <1>3 DEF Committed
<1> QED
  BY <1>2, <1>4, <1>5

LEMMA GraphStep == GraphInv /\ [GraphNext]_graphVars => GraphInv'
<1> SUFFICES ASSUME GraphInv, [GraphNext]_graphVars PROVE GraphInv'
  OBVIOUS
<1>1. CASE UNCHANGED graphVars
  BY <1>1 DEF graphVars, GraphInv, GraphTypeOK, Committed, WasAdded, CyclesAreRaced, Endless, Overlapped
<1>2. ASSUME NEW a \in Adds, NEW s \in Nodes, NEW t \in Nodes, AskEdge(a, s, t)
      PROVE  GraphInv'
  <2> DEFINE r == [id |-> a, source |-> s, target |-> t, step |-> "find", saw |-> {}]
  <2>1. /\ adds' = adds \cup {r} /\ edges' = edges /\ nodes' = nodes /\ s # t
        /\ \A q \in adds : q.id # a
    BY <1>2 DEF AskEdge
  <2>2. r \in Request /\ r.id = a /\ r.saw = {} /\ r.source = s /\ r.target = t
    BY DEF Request, Steps
  <2>3. AddedStay /\ \A e : WasAdded(e) => WasAdded(e)'
    BY <2>1 DEF AddedStay, WasAdded
  <2>4. GraphTypeOK'
    BY <2>1, <2>2 DEF GraphInv, GraphTypeOK
  <2>5. Committed'
    BY <2>1, <2>2, <2>3 DEF GraphInv, Committed
  <2> QED BY <2>1, <2>3, <2>4, <2>5, FewerEdgesHold DEF GraphInv
<1>3. ASSUME NEW r \in adds, FindEnds(r) \/ BeginEdge(r) \/ InsertEdge(r)
      PROVE  GraphInv'
  <2>1. r \in Request
    BY DEF GraphInv, GraphTypeOK
  <2>2. CASE edges' = edges
    <3>1. PICK step \in Steps, snapshot \in {r.saw, edges} :
              adds' = (adds \ {r}) \cup {[r EXCEPT !.step = step, !.saw = snapshot]}
      <4>4. \A step : [r EXCEPT !.step = step] = [r EXCEPT !.step = step, !.saw = r.saw]
        BY <2>1 DEF Request
      <4>1. CASE FindEnds(r)
        <5>1. \E step \in Steps : adds' = (adds \ {r}) \cup {[r EXCEPT !.step = step]}
          BY <4>1 DEF FindEnds, Advance, Steps
        <5> QED BY <4>4, <5>1
      <4>2. CASE BeginEdge(r)
        BY <4>2 DEF BeginEdge, Steps
      <4>3. CASE InsertEdge(r)
        <5>1. \E step \in Steps : adds' = (adds \ {r}) \cup {[r EXCEPT !.step = step]}
          BY <4>3 DEF InsertEdge, Advance, Steps
        <5> QED BY <4>4, <5>1
      <4> QED BY <1>3, <4>1, <4>2, <4>3, Zenon
    <3>2. r.step # "added" /\ nodes' = nodes
      BY <1>3 DEF FindEnds, BeginEdge, InsertEdge
    <3> DEFINE next == [r EXCEPT !.step = step, !.saw = snapshot]
    <3>3. next \in Request /\ EdgeOf(next) = EdgeOf(r) /\ next.saw = snapshot
      BY <2>1 DEF Request, EdgeOf, GraphInv, GraphTypeOK
    <3>4. GraphTypeOK' /\ Committed' /\ AddedStay
      <4> HIDE DEF next
      <4> QED BY <2>2, <3>1, <3>2, <3>3, StepHolds DEF GraphInv, next
    <3> QED BY <2>2, <3>4, FewerEdgesHold DEF GraphInv
  <2>3. CASE edges' # edges
    <3>1. InsertEdge(r)
      BY <1>3, <2>3 DEF FindEnds, BeginEdge
    <3> DEFINE new  == EdgeOf(r)
               done == [r EXCEPT !.step = "added"]
    <3>2. /\ r.step = "running" /\ nodes' = nodes
          /\ adds' = (adds \ {r}) \cup {done} /\ edges' = edges \cup {new}
      BY <2>3, <3>1 DEF InsertEdge, Advance
    <3>3. /\ done \in Request /\ done.id = r.id /\ done.source = r.source /\ done.target = r.target
          /\ done.step = "added" /\ done.saw = r.saw /\ EdgeOf(done) = new /\ new \in Edge
      BY <2>1 DEF Request, Steps, EdgeOf, Edge
    <3>4. \A e : WasAdded(e) => WasAdded(e)'
      BY <3>2 DEF WasAdded
    <3>5. WasAdded(new)'
      BY <3>2, <3>3 DEF WasAdded
    <3>6. GraphTypeOK'
      <4>1. adds \subseteq Request /\ edges \subseteq Edge /\ nodes \subseteq Nodes
        BY DEF GraphInv, GraphTypeOK
      <4>2. \A p \in adds : p.id = r.id => p = r
        BY DEF GraphInv, GraphTypeOK
      <4>3. \A p, q \in adds' : p.id = q.id => p = q
        <5> HIDE DEF done, new
        <5> QED BY <3>2, <3>3, <4>2 DEF GraphInv, GraphTypeOK
      <4>4. adds' \subseteq Request /\ edges' \subseteq Edge /\ nodes' \subseteq Nodes
        <5> HIDE DEF done, new
        <5> QED BY <3>2, <3>3, <4>1
      <4> QED BY <4>3, <4>4 DEF GraphTypeOK
    <3>7. Committed'
      BY <3>2, <3>3, <3>4, <3>5 DEF GraphInv, Committed
    <3> QED BY <2>3, <3>1, <3>6, <3>7, InsertHolds DEF GraphInv
  <2> QED BY <2>2, <2>3
<1>4. CASE (\E e \in edges : RemoveEdge(e)) \/ (\E now \in SUBSET Nodes : ItemsBecome(now))
  <2>1. adds' = adds /\ edges' \subseteq edges /\ nodes' \subseteq Nodes
    BY <1>4 DEF RemoveEdge, ItemsBecome, GraphInv, GraphTypeOK
  <2>2. AddedStay
    BY <2>1 DEF AddedStay
  <2>3. GraphTypeOK' /\ Committed'
    BY <2>1 DEF GraphInv, GraphTypeOK, Committed, WasAdded
  <2> QED BY <2>1, <2>2, <2>3, FewerEdgesHold DEF GraphInv
<1> QED
  BY <1>1, <1>2, <1>3, <1>4 DEF GraphNext, EdgeNext, ServeAdd

(* The dependency route keeps its tables well-formed. *)
THEOREM GraphTypesHold == GraphSpec => []GraphTypeOK
<1>1. GraphInv => GraphTypeOK
  BY DEF GraphInv
<1> QED
  BY <1>1, GraphInit1, GraphStep, PTL DEF GraphSpec

(* A cycle of dependencies has two edges whose INSERTs overlapped: the route *)
(* keeps a DAG as long as its statements run one after another.              *)
THEOREM CyclesAreRacedHolds == GraphSpec => []CyclesAreRaced
<1>1. GraphInv => CyclesAreRaced
  BY DEF GraphInv
<1> QED
  BY <1>1, GraphInit1, GraphStep, PTL DEF GraphSpec
-----------------------------------------------------------------------------
(* The workboard: each of its steps is one of the tree and one of the graph, *)
(* or leaves it alone.                                                       *)
LEMMA ViewStepsGraph ==
    ASSUME ViewNext
    PROVE  [EdgeNext]_graphVars
<1>1. ASSUME NEW c \in Clients, Load(c) PROVE UNCHANGED graphVars
  BY <1>1 DEF Load
<1>2. ASSUME NEW c \in Clients, NEW a \in Adds, NEW s \in Nodes, NEW t \in Nodes, Connect(c, a, s, t)
      PROVE  EdgeNext
  BY <1>2 DEF Connect, EdgeNext
<1>3. ASSUME NEW m \in adding, AddAnswered(m) \/ AddLost(m) PROVE UNCHANGED graphVars
  BY <1>3 DEF AddAnswered, AddLost
<1>4. ASSUME NEW c \in Clients, NEW e \in view[c], Disconnect(c, e) PROVE UNCHANGED graphVars
  BY <1>4 DEF Disconnect
<1>5. ASSUME NEW m \in removals, ServeRemoval(m) PROVE EdgeNext \/ UNCHANGED graphVars
  <2>1. RemoveEdge(m.edge)
    BY <1>5 DEF ServeRemoval
  <2>2. CASE m.edge \in edges
    BY <2>1, <2>2 DEF EdgeNext
  <2>3. CASE m.edge \notin edges
    BY <2>1, <2>3 DEF RemoveEdge, graphVars
  <2> QED BY <2>2, <2>3
<1>6. ASSUME NEW m \in removals, RemovalAnswered(m) \/ RemovalLost(m) PROVE UNCHANGED graphVars
  BY <1>6 DEF RemovalAnswered, RemovalLost
<1> QED
  BY <1>1, <1>2, <1>3, <1>4, <1>5, <1>6 DEF ViewNext

LEMMA BoardStepsGraph ==
    ASSUME BoardNext
    PROVE  [GraphNext]_graphVars
<1>1. CASE Next /\ ItemsBecome(Exists') /\ UNCHANGED viewVars
  <2>1. Exists' \in SUBSET Nodes
    BY WorkboardAssumption DEF Exists
  <2> QED BY <1>1, <2>1 DEF GraphNext
<1>2. CASE EdgeNext
  BY <1>2 DEF GraphNext
<1>3. CASE ViewNext
  BY <1>3, ViewStepsGraph DEF GraphNext
<1> QED
  BY <1>1, <1>2, <1>3 DEF BoardNext

(* On the workboard the items are a tree and the dependencies a graph as     *)
(* specified on their own, whatever clients do: deleting an item is a step   *)
(* of both.                                                                  *)
THEOREM BoardHasTreeAndGraph == BoardSpec => Spec /\ GraphSpec
<1>1. BoardInit => Init /\ GraphInit
  BY DEF BoardInit
<1>2. [BoardNext]_boardVars => [Next]_vars
  BY DEF BoardNext, boardVars
<1>3. [BoardNext]_boardVars => [GraphNext]_graphVars
  BY BoardStepsGraph DEF boardVars
<1> QED
  BY <1>1, <1>2, <1>3, PTL DEF BoardSpec, Spec, GraphSpec

(* So what the parts keep, the workboard keeps: depths are true, and only    *)
(* statements that overlap close a chain of parents or a cycle of edges.     *)
THEOREM BoardIsSound == BoardSpec => [](ParentCyclesAreRaced /\ DepthIsTrue /\ CyclesAreRaced)
  BY BoardHasTreeAndGraph, ParentCyclesAreRacedHolds, DepthIsTrueHolds, CyclesAreRacedHolds, PTL
-----------------------------------------------------------------------------
(* What clients draw.  Everything a client has drawn, or asked to remove,    *)
(* was added; an edge whose removal found it is gone.                        *)
ViewTypes ==
    /\ view \in [Clients -> SUBSET Edge] /\ drawn \in [Clients -> SUBSET Edge]
    /\ adding \subseteq [by : Clients, id : Adds] /\ removals \subseteq Removal

DrawnWereAdded ==
    /\ \A c \in Clients : \A e \in view[c] \cup drawn[c] : WasAdded(e)
    /\ \A m \in removals : WasAdded(m.edge)

FoundAreGone == \A m \in removals : m.state = "deleted" => m.edge \notin edges

ViewInv ==
    ViewTypes /\ DrawnWereAdded /\ FoundAreGone /\ NothingVanishes

(* An id is used once: what was added stays added, and is not inserted again.*)
LEMMA AddedOnce ==
    ASSUME GraphInv, [GraphNext]_graphVars, NEW e, WasAdded(e)
    PROVE  WasAdded(e)' /\ (e \in edges' => e \in edges)
<1>1. PICK q \in adds : q.step = "added" /\ EdgeOf(q) = e
  BY DEF WasAdded
<1>2. ASSUME NEW r \in adds, FindEnds(r) \/ BeginEdge(r) \/ InsertEdge(r)
      PROVE  q \in adds' /\ (e \in edges' => e \in edges)
  <2>1. r.step # "added" /\ r # q
    BY <1>1, <1>2 DEF FindEnds, BeginEdge, InsertEdge
  <2>2. q \in adds'
    BY <1>2, <2>1 DEF FindEnds, BeginEdge, InsertEdge, Advance
  <2>3. EdgeOf(r) # e
    <3>1. r.id # q.id
      BY <2>1 DEF GraphInv, GraphTypeOK
    <3> QED BY <1>1, <3>1 DEF EdgeOf
  <2>4. edges' \subseteq edges \cup {EdgeOf(r)}
    BY <1>2 DEF FindEnds, BeginEdge, InsertEdge
  <2> QED BY <2>2, <2>3, <2>4
<1>3. CASE \E r \in adds : FindEnds(r) \/ BeginEdge(r) \/ InsertEdge(r)
  BY <1>1, <1>2, <1>3 DEF WasAdded
<1>4. CASE ~ \E r \in adds : FindEnds(r) \/ BeginEdge(r) \/ InsertEdge(r)
  <2>1. adds \subseteq adds' /\ edges' \subseteq edges
    BY <1>4 DEF GraphNext, EdgeNext, ServeAdd, AskEdge, RemoveEdge, ItemsBecome, graphVars
  <2> QED BY <1>1, <2>1 DEF WasAdded
<1> QED
  BY <1>3, <1>4

(* What a client's step does to the lists, and to the removals it waits for: *)
(* an edge that leaves a list leaves a removal that is awaited.              *)
LEMMA ViewStepTypes ==
    ASSUME GraphInv, ViewInv, ViewNext,
           drawn' = [c \in Clients |-> drawn[c] \cup view'[c]]
    PROVE  ViewTypes'
<1>1. edges \in SUBSET Edge /\ \A r \in adds : EdgeOf(r) \in Edge
  BY DEF GraphInv, GraphTypeOK, Request, Edge, EdgeOf
<1>2. view' \in [Clients -> SUBSET Edge]
  BY <1>1 DEF ViewInv, ViewTypes, ViewNext, Load, Connect, AddAnswered, AddLost, Disconnect,
              ServeRemoval, RemovalAnswered, RemovalLost, Show, Hide, Removal
<1>3. adding' \subseteq [by : Clients, id : Adds]
  BY DEF ViewInv, ViewTypes, ViewNext, Load, Connect, AddAnswered, AddLost, Disconnect,
         ServeRemoval, RemovalAnswered, RemovalLost
<1>4. removals' \subseteq Removal
  <2>1. ASSUME NEW c \in Clients, NEW e \in view[c], Disconnect(c, e)
        PROVE  removals' \subseteq Removal
    <3>1. e \in Edge
      BY DEF ViewInv, ViewTypes
    <3>2. [by |-> c, edge |-> e, state |-> "sent", awaited |-> TRUE] \in Removal
      BY <3>1 DEF Removal
    <3> QED BY <2>1, <3>2 DEF ViewInv, ViewTypes, Disconnect
  <2>2. ASSUME NEW m \in removals, ServeRemoval(m) \/ RemovalAnswered(m) \/ RemovalLost(m)
        PROVE  removals' \subseteq Removal
    <3>1. m \in Removal
      BY DEF ViewInv, ViewTypes
    <3>2. /\ \A state \in {"sent", "deleted", "missing"} : [m EXCEPT !.state = state] \in Removal
          /\ [m EXCEPT !.awaited = FALSE] \in Removal
      BY <3>1 DEF Removal
    <3> QED
      BY <2>2, <3>2 DEF ViewInv, ViewTypes, ServeRemoval, RemovalAnswered, RemovalLost
  <2>3. CASE removals' = removals
    BY <2>3 DEF ViewInv, ViewTypes
  <2> QED
    BY <2>1, <2>2, <2>3 DEF ViewNext, Load, Connect, AddAnswered, AddLost
<1> QED
  BY <1>2, <1>3, <1>4 DEF ViewInv, ViewTypes

(* Only what was added is shown, and only what was shown is removed.         *)
LEMMA ViewStepAdded ==
    ASSUME GraphInv, ViewInv, ViewNext,
           drawn' = [c \in Clients |-> drawn[c] \cup view'[c]]
    PROVE  DrawnWereAdded'
<1>1. [GraphNext]_graphVars
  BY ViewStepsGraph DEF GraphNext
<1>2. \A e : WasAdded(e) => WasAdded(e)'
  BY <1>1, AddedOnce
<1>3. \A c \in Clients : \A e \in view'[c] : e \in view[c] \/ WasAdded(e)
  <2>1. \A e \in edges : WasAdded(e)
    BY DEF GraphInv, Committed
  <2>2. \A r \in adds : r.step = "added" => WasAdded(EdgeOf(r))
    BY DEF WasAdded
  <2>3. \A m \in removals : WasAdded(m.edge)
    BY DEF ViewInv, DrawnWereAdded
  <2> QED
    BY <2>1, <2>2, <2>3 DEF ViewInv, ViewTypes, ViewNext, Load, Connect, AddAnswered, AddLost,
       Disconnect, ServeRemoval, RemovalAnswered, RemovalLost, Show, Hide
<1>4. \A m \in removals' : (\E n \in removals : n.edge = m.edge)
                            \/ \E c \in Clients : m.edge \in view[c]
  BY DEF ViewInv, ViewTypes, Removal, ViewNext, Load, Connect, AddAnswered, AddLost,
     Disconnect, ServeRemoval, RemovalAnswered, RemovalLost, Show, Hide
<1>5. \A c \in Clients : \A e \in view'[c] \cup drawn'[c] : WasAdded(e)
  BY <1>3 DEF ViewInv, DrawnWereAdded
<1>6. \A m \in removals' : WasAdded(m.edge)
  BY <1>4 DEF ViewInv, DrawnWereAdded
<1> QED
  BY <1>2, <1>5, <1>6 DEF DrawnWereAdded

(* The answer that a removal gets is that of the server's table.             *)
LEMMA ViewStepGone ==
    ASSUME GraphInv, ViewInv, ViewNext
    PROVE  FoundAreGone'
<1>1. edges' \subseteq edges
  BY DEF ViewNext, Load, Connect, AskEdge, AddAnswered, AddLost, Disconnect, ServeRemoval,
         RemoveEdge, RemovalAnswered, RemovalLost, graphVars
<1>2. ASSUME NEW m \in removals, ServeRemoval(m)
      PROVE  FoundAreGone'
  <2>1. m.edge \notin edges'
    BY <1>2 DEF ServeRemoval, RemoveEdge
  <2>2. \A n \in removals' : n \in removals \/ n.edge = m.edge
    BY <1>2 DEF ServeRemoval, ViewInv, ViewTypes, Removal
  <2> QED BY <1>1, <2>1, <2>2 DEF ViewInv, FoundAreGone
<1>3. ASSUME ~ \E m \in removals : ServeRemoval(m)
      PROVE  \A n \in removals' : n.state = "deleted" =>
                 \E m \in removals : m.edge = n.edge /\ m.state = n.state
  BY <1>3 DEF ViewInv, ViewTypes, Removal, ViewNext, Load, Connect, AddAnswered, AddLost,
     Disconnect, RemovalAnswered, RemovalLost
<1> QED
  BY <1>1, <1>2, <1>3 DEF ViewInv, FoundAreGone

(* Whatever step a client takes, what it has drawn and the server still has  *)
(* is in its list, or it waits for the removal.                              *)
LEMMA ViewStepDrawn ==
    ASSUME GraphInv, ViewInv, ViewNext, NEW c \in Clients, NEW e \in edges' \cap drawn[c]
    PROVE  e \in view'[c] \/ \E m \in removals' : m.by = c /\ m.edge = e /\ m.awaited
<1> DEFINE Waits == \E m \in removals' : m.by = c /\ m.edge = e /\ m.awaited
<1>1. edges' \subseteq edges
  BY DEF ViewNext, Load, Connect, AskEdge, AddAnswered, AddLost, Disconnect, ServeRemoval,
         RemoveEdge, RemovalAnswered, RemovalLost, graphVars
<1>2. e \in view[c] \/ \E m \in removals : m.by = c /\ m.edge = e /\ m.awaited
  BY <1>1 DEF ViewInv, NothingVanishes
<1>3. ASSUME view[c] \subseteq view'[c], removals \subseteq removals'
      PROVE  e \in view'[c] \/ Waits
  BY <1>2, <1>3
<1> USE DEF ViewInv, ViewTypes
<1>4. ASSUME NEW k \in Clients, Load(k)
      PROVE  e \in view'[c] \/ Waits
  <2>1. CASE k = c
    BY <1>1, <1>4, <2>1 DEF Load
  <2>2. CASE k # c
    BY <1>3, <1>4, <2>2 DEF Load
  <2> QED BY <2>1, <2>2
<1>5. ASSUME NEW k \in Clients, NEW a \in Adds, NEW s \in Nodes, NEW t \in Nodes, Connect(k, a, s, t)
      PROVE  e \in view'[c] \/ Waits
  BY <1>3, <1>5 DEF Connect
<1>6. ASSUME NEW m \in adding, AddAnswered(m) \/ AddLost(m)
      PROVE  e \in view'[c] \/ Waits
  BY <1>3, <1>6 DEF AddAnswered, AddLost, Show
<1>7. ASSUME NEW k \in Clients, NEW f \in view[k], Disconnect(k, f)
      PROVE  e \in view'[c] \/ Waits
  <2> DEFINE m == [by |-> k, edge |-> f, state |-> "sent", awaited |-> TRUE]
  <2>1. m \in removals' /\ removals \subseteq removals' /\ m.by = k /\ m.edge = f /\ m.awaited
    BY <1>7 DEF Disconnect
  <2>2. view' = [view EXCEPT ![k] = @ \ {f}]
    BY <1>7 DEF Disconnect, Hide
  <2>3. CASE k = c /\ f = e
    BY <2>1, <2>3
  <2>4. CASE k # c \/ f # e
    <3>1. e \in view[c] => e \in view'[c]
      BY <2>2, <2>4
    <3> QED BY <1>2, <2>1, <3>1
  <2> QED BY <2>3, <2>4
<1>8. ASSUME NEW m \in removals, ServeRemoval(m)
      PROVE  e \in view'[c] \/ Waits
  <2>1. m.edge # e /\ view' = view /\ removals \ {m} \subseteq removals'
    BY <1>8 DEF ServeRemoval, RemoveEdge
  <2> QED BY <1>2, <2>1
<1>9. ASSUME NEW m \in removals, RemovalAnswered(m)
      PROVE  e \in view'[c] \/ Waits
  <2>1. view[c] \subseteq view'[c] /\ removals \ {m} \subseteq removals'
    BY <1>9 DEF RemovalAnswered, Show, Removal
  <2>2. CASE m.by = c /\ m.edge = e
    <3>1. m.state = "missing"
      BY <1>1, <1>9, <2>2 DEF RemovalAnswered, FoundAreGone, Removal
    <3> QED BY <1>9, <2>2, <3>1 DEF RemovalAnswered, Show
  <2>3. CASE ~ (m.by = c /\ m.edge = e)
    BY <1>2, <2>1, <2>3
  <2> QED BY <2>2, <2>3
<1>10. ASSUME NEW m \in removals, RemovalLost(m)
       PROVE  e \in view'[c] \/ Waits
  <2>1. view[c] \subseteq view'[c] /\ removals \ {m} \subseteq removals'
    BY <1>10 DEF RemovalLost, Show, Removal
  <2>2. CASE m.by = c /\ m.edge = e
    BY <1>10, <2>2 DEF RemovalLost, Show
  <2>3. CASE ~ (m.by = c /\ m.edge = e)
    BY <1>2, <2>1, <2>3
  <2> QED BY <2>2, <2>3
<1> QED
  BY <1>4, <1>5, <1>6, <1>7, <1>8, <1>9, <1>10 DEF ViewNext

LEMMA HistoryInitInv == HistoryInit => GraphInv /\ ViewInv
<1> SUFFICES ASSUME HistoryInit PROVE GraphInv /\ ViewInv
  OBVIOUS
<1>1. GraphInit /\ ViewInit /\ drawn = [c \in Clients |-> {}]
  BY DEF HistoryInit, BoardInit
<1>2. ViewInv
  BY <1>1 DEF GraphInit, ViewInit, ViewInv, ViewTypes, DrawnWereAdded, FoundAreGone, NothingVanishes
<1> QED
  BY <1>1, <1>2, GraphInit1

LEMMA HistoryStepInv ==
    ASSUME GraphInv, ViewInv, [HistoryNext]_<<boardVars, drawn>>
    PROVE  GraphInv' /\ ViewInv'
<1>1. [GraphNext]_graphVars
  BY BoardStepsGraph DEF HistoryNext, boardVars
<1>2. GraphInv'
  BY <1>1, GraphStep
<1>3. \A e : WasAdded(e) => WasAdded(e)' /\ (e \in edges' => e \in edges)
  BY <1>1, AddedOnce
<1>4. CASE drawn' = [c \in Clients |-> drawn[c] \cup view'[c]] /\ ViewNext
  <2>1. ViewTypes' /\ DrawnWereAdded' /\ FoundAreGone'
    BY <1>4, ViewStepTypes, ViewStepAdded, ViewStepGone
  <2>2. NothingVanishes'
    <3> SUFFICES ASSUME NEW c \in Clients, NEW e \in edges' \cap drawn'[c]
                 PROVE  e \in view'[c] \/ \E m \in removals' : m.by = c /\ m.edge = e /\ m.awaited
      BY DEF NothingVanishes
    <3>1. e \in view'[c] \/ e \in drawn[c]
      BY <1>4
    <3> QED BY <1>4, <3>1, ViewStepDrawn
  <2> QED BY <1>2, <2>1, <2>2 DEF ViewInv
<1>5. CASE /\ UNCHANGED viewVars
           /\ drawn' = drawn \/ drawn' = [c \in Clients |-> drawn[c] \cup view[c]]
  <2>1. /\ view' = view /\ adding' = adding /\ removals' = removals
        /\ \A c \in Clients : drawn'[c] \subseteq drawn[c] \cup view[c]
        /\ drawn' \in [Clients -> SUBSET Edge]
    BY <1>5 DEF viewVars, ViewInv, ViewTypes
  <2>2. ViewTypes'
    BY <2>1 DEF ViewInv, ViewTypes
  <2>3. DrawnWereAdded'
    BY <1>3, <2>1 DEF ViewInv, DrawnWereAdded
  <2>4. FoundAreGone'
    BY <1>3, <2>1 DEF ViewInv, DrawnWereAdded, FoundAreGone
  <2>5. NothingVanishes'
    BY <1>3, <2>1 DEF ViewInv, DrawnWereAdded, NothingVanishes
  <2> QED BY <1>2, <2>2, <2>3, <2>4, <2>5 DEF ViewInv
<1>6. \/ drawn' = [c \in Clients |-> drawn[c] \cup view'[c]] /\ ViewNext
      \/ /\ UNCHANGED viewVars
         /\ drawn' = drawn \/ drawn' = [c \in Clients |-> drawn[c] \cup view[c]]
  BY DEF HistoryNext, BoardNext, boardVars, viewVars
<1> QED
  BY <1>4, <1>5, <1>6

(* However many clients, requests and removals there are, an edge that a     *)
(* client has drawn and the server still has does not disappear from the     *)
(* client's list unless the client waits for its removal: the rollback of a  *)
(* removal that failed (use-work-items.ts:310) is never one too few, and a   *)
(* late answer never takes away what another removal shows again.            *)
THEOREM NothingVanishesHolds == HistorySpec => []NothingVanishes
<1>1. ViewInv => NothingVanishes
  BY DEF ViewInv
<1>2. GraphInv /\ ViewInv /\ [HistoryNext]_<<boardVars, drawn>> => (GraphInv /\ ViewInv)'
  BY HistoryStepInv
<1> QED
  BY <1>1, <1>2, HistoryInitInv, PTL DEF HistorySpec
=============================================================================
