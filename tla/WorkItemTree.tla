---------------------------- MODULE WorkItemTree ----------------------------
(***************************************************************************)
(* The tree of work items: an item is top-level or the sub-item of a       *)
(* top-level item of its own team, and its status is one of its team's.    *)
(*                                                                         *)
(* A request checks these rules by reads, each a statement of its own, and *)
(* then writes the whole row back from the row it read first; only the     *)
(* cycle guard is part of the write.  Other requests run between any two   *)
(* statements, and UPDATEs overlap: the guard of one looks in a snapshot   *)
(* that lacks what others commit before it writes, and it locks no row but *)
(* its own.  A status stands for the team it belongs to; the fields of an  *)
(* item that have no part in the rules are left out.                       *)
(***************************************************************************)
EXTENDS Naturals

CONSTANTS
    Items,     \* the ids a run may use
    Teams,
    Requests,  \* requests under way at a time
    Asks,      \* what requests ask for
    Keep,      \* a field that a patch does not name
    None

Row  == [team : Teams, status : Teams, parent : Items \cup {None}, depth : 0 .. 1]
Ask  == [team : Teams \cup {Keep}, status : Teams \cup {Keep}, parent : Items \cup {None, Keep}]
Idle == [team |-> Keep, status |-> Keep, parent |-> Keep]

ASSUME TreeAssumption ==
    /\ Asks \subseteq Ask
    /\ None \notin Items \cup Row
    /\ Keep \notin Items \cup Teams \cup {None}

VARIABLES
    item,  \* work_items: the row of an id, or None
    used,  \* the ids given to items so far: a uuid is not used again
    pc,    \* the next statement of a request
    on,    \* the item it writes
    ask,   \* the patch, or the fields of a new item
    saw,   \* the row an update read first, or None
    late,  \* history: the sub-items whose rows were written since its UPDATE took its snapshot
    raced  \* history: the pairs of sub-items whose rows were written by UPDATEs that overlapped

history == <<late, raced>>
request == <<pc, on, ask, saw>>
vars    == <<item, used, request, history>>

Init ==
    /\ item = [i \in Items |-> None] /\ used = {}
    /\ pc = [r \in Requests |-> "idle"]
    /\ on = [r \in Requests |-> None]
    /\ ask = [r \in Requests |-> Idle]
    /\ saw = [r \in Requests |-> None]
    /\ late = [r \in Requests |-> {}] /\ raced = {}

-----------------------------------------------------------------------------
Exists      == {i \in Items : item[i] # None}
Children(i) == {k \in Exists : item[k].parent = i}

(* The items a chain of parents leads to from i, without i unless it is on a *)
(* cycle: the least set that has i's parent and the parents of its members.  *)
ParentIn(i, S) == item[i] = None \/ item[i].parent = None \/ item[i].parent \in S
Ancestors(i) ==
    {k \in Items : \A S \in SUBSET Items :
        ParentIn(i, S) /\ (\A j \in S : ParentIn(j, S)) => k \in S}

Goto(r, step) == pc' = [pc EXCEPT ![r] = step] /\ UNCHANGED <<on, ask, saw>>

Answer(r) ==
    /\ pc' = [pc EXCEPT ![r] = "idle"]
    /\ on' = [on EXCEPT ![r] = None] /\ ask' = [ask EXCEPT ![r] = Idle] /\ saw' = [saw EXCEPT ![r] = None]

WriteNothing(r) == item' = item /\ late' = [late EXCEPT ![r] = {}] /\ raced' = raced

(* A statement of r commits the row of i; UPDATEs that run by now do not see *)
(* it, and r's has not seen the rows of overlap.                             *)
Write(r, i, row, overlap) ==
    LET nested(S) == IF row.parent = None THEN S \ {i} ELSE S \cup {i} IN
    /\ item' = [item EXCEPT ![i] = row]
    /\ late' = [q \in Requests |-> IF q # r /\ pc[q] = "running" THEN nested(late[q]) ELSE {}]
    /\ raced' = {s \in raced : i \notin s}
                  \cup IF row.parent = None THEN {} ELSE {{i, k} : k \in overlap \ {i}}

(* The request goes on if its statement finds what it must, else it answers  *)
(* with an error; either way nothing is written.                             *)
Check(r, step, found, then) ==
    /\ pc[r] = step
    /\ IF found THEN Goto(r, then) ELSE Answer(r)
    /\ UNCHANGED <<item, used, history>>

-----------------------------------------------------------------------------
(* Creating an item.                                                        *)

(* The team is named or the only one, the status one of the team. *)
BeginCreate(r, i, a) ==
    /\ pc[r] = "idle" /\ i \notin used /\ used' = used \cup {i}
    /\ a.team # Keep /\ a.status \in {a.team, Keep} /\ a.parent # Keep
    /\ pc' = [pc EXCEPT ![r] = IF a.parent = None THEN "insert" ELSE "parent"]
    /\ on' = [on EXCEPT ![r] = i] /\ ask' = [ask EXCEPT ![r] = a] /\ saw' = [saw EXCEPT ![r] = None]
    /\ UNCHANGED <<item, history>>

Insert(r) ==
    /\ pc[r] = "insert" /\ Answer(r)
    /\ LET a == ask[r] IN
       IF a.parent # None /\ item[a.parent] = None  \* the foreign key
       THEN WriteNothing(r)
       ELSE Write(r, on[r], [team |-> a.team, status |-> a.team, parent |-> a.parent,
                             depth |-> IF a.parent = None THEN 0 ELSE 1], {})
    /\ used' = used

-----------------------------------------------------------------------------
(* Updating an item.                                                        *)

TeamFor(r)   == IF ask[r].team = Keep THEN saw[r].team ELSE ask[r].team
MovesTeam(r) == saw[r] # None /\ TeamFor(r) # saw[r].team

BeginUpdate(r, i, a) ==
    /\ pc[r] = "idle" /\ item[i] # None
    /\ pc' = [pc EXCEPT ![r] = "team"]
    /\ on' = [on EXCEPT ![r] = i] /\ ask' = [ask EXCEPT ![r] = a] /\ saw' = [saw EXCEPT ![r] = item[i]]
    /\ UNCHANGED <<item, used, history>>

(* A status must be one of the team's; an item in a hierarchy keeps its team.*)
CheckTeam(r) ==
    Check(r, "team",
          /\ ask[r].status \in {TeamFor(r), Keep}
          /\ MovesTeam(r) => saw[r].parent = None /\ Children(on[r]) = {},
          "kids")

Nests(r) == ask[r].parent \notin {None, Keep}

(* An item is not nested in itself, nor when it has sub-items. *)
CheckKids(r) ==
    Check(r, "kids", Nests(r) => ask[r].parent # on[r] /\ Children(on[r]) = {},
          IF Nests(r) THEN "parent" ELSE "write")

\* Mutant: the parent may be a sub-item.
CheckParentAnyDepth(r) ==
    LET p == ask[r].parent IN
    Check(r, "parent", item[p] # None /\ item[p].team = TeamFor(r),
          IF saw[r] = None THEN "insert" ELSE "write")

(* The parent is a top-level item of the same team. *)
CheckParent(r) ==
    LET p == ask[r].parent IN
    Check(r, "parent", item[p] # None /\ item[p].team = TeamFor(r) /\ item[p].parent = None,
          IF saw[r] = None THEN "insert" ELSE "write")

\* Mutant: the depth of the row is kept.
NewRowKeepsDepth(r) ==
    [team   |-> TeamFor(r),
     status |-> IF ask[r].status = Keep THEN saw[r].status ELSE ask[r].status,
     parent |-> IF ask[r].parent = Keep THEN saw[r].parent ELSE ask[r].parent,
     depth  |-> saw[r].depth]

(* Every column of the row, from the patch or else from the row read first. *)
NewRow(r) ==
    LET parent == IF ask[r].parent = Keep THEN saw[r].parent ELSE ask[r].parent IN
    [team   |-> TeamFor(r),
     status |-> IF ask[r].status = Keep THEN saw[r].status ELSE ask[r].status,
     parent |-> parent,
     depth  |-> IF ask[r].parent = Keep THEN saw[r].depth ELSE IF parent = None THEN 0 ELSE 1]

\* Mutant: the update has no cycle guard.
MayWriteAny(i, p) == item[i] # None

(* The row is there, and it is no ancestor of its new parent. *)
MayWrite(i, p) == item[i] # None /\ (p # None => i \notin Ancestors(p))

(* The UPDATE takes its snapshot, in which it finds its row and its guard    *)
(* walks from the parent.                                                    *)
Guard(r) == Check(r, "write", MayWrite(on[r], NewRow(r).parent), "running")

(* It writes the row as that is by now, unless that is gone or the parent is *)
(* (the foreign key), and commits.                                           *)
Update(r) ==
    LET i   == on[r]
        row == NewRow(r)
    IN  /\ pc[r] = "running" /\ Answer(r)
        /\ IF item[i] = None \/ (row.parent # None /\ item[row.parent] = None)
           THEN WriteNothing(r)
           ELSE Write(r, i, row, late[r])
        /\ used' = used

-----------------------------------------------------------------------------
(* The compensation of a rejected create, whichever item that made; one that *)
(* has sub-items by now stays (the foreign key restricts).                   *)
Compensate(i) ==
    /\ item[i] # None /\ Children(i) = {}
    /\ item' = [item EXCEPT ![i] = None]
    /\ late' = [r \in Requests |-> late[r] \ {i}] /\ raced' = {s \in raced : i \notin s}
    /\ UNCHANGED <<used, request>>

Dies(r) ==
    /\ pc[r] # "idle" /\ Answer(r) /\ WriteNothing(r)
    /\ used' = used

Next ==
    \/ \E r \in Requests, i \in Items, a \in Asks : BeginCreate(r, i, a) \/ BeginUpdate(r, i, a)
    \/ \E r \in Requests :
          Insert(r) \/ CheckTeam(r) \/ CheckKids(r) \/ CheckParent(r)
          \/ Guard(r) \/ Update(r) \/ Dies(r)
    \/ \E i \in Items : Compensate(i)

Spec == Init /\ [][Next]_vars

-----------------------------------------------------------------------------
(* The rows and the requests are well typed (schema.ts:413-460).             *)
TypeOK ==
    /\ item \in [Items -> Row \cup {None}]
    /\ used \subseteq Items
    /\ pc \in [Requests -> {"idle", "insert", "team", "kids", "parent", "write", "running"}]
    /\ on \in [Requests -> Items \cup {None}]
    /\ ask \in [Requests -> Ask]
    /\ saw \in [Requests -> Row \cup {None}]
    /\ late \in [Requests -> SUBSET Items] /\ raced \subseteq SUBSET Items

(* A chain of parents closes only through two items whose rows were written  *)
(* by UPDATEs that overlapped, neither of which saw the other's row: checks  *)
(* that are stale, deletes and retries close none (work-items.ts:544-567).   *)
ParentCyclesAreRaced ==
    \A S \in SUBSET Exists :
        S # {} /\ (\A i \in S : item[i].parent \in S)
            => \E i, k \in S : i # k /\ {i, k} \in raced

(* A parent outlives its sub-items, and the stored depth is the one of a     *)
(* tree of two levels (schema.ts:431-441, depth never goes stale).           *)
DepthIsTrue ==
    \A i \in Exists :
        IF item[i].parent = None THEN item[i].depth = 0
        ELSE item[i].depth = 1 /\ item[i].parent \in Exists

(* No chain of parents closes: the guard in the UPDATE closes the gap        *)
(* between check and write (work-items.ts:480-481).                          *)
Acyclic ==
    \A S \in SUBSET Exists : S # {} => \E i \in S : item[i].parent \notin S

(* A parent is itself top-level (schema.ts:434-436).                         *)
DepthCapped ==
    \A i \in Exists : item[i].parent # None => item[item[i].parent].parent = None

(* A sub-item and its parent share a team (work-items.ts:401-403).           *)
SameTeam ==
    \A i \in Exists : item[i].parent # None => item[item[i].parent].team = item[i].team

(* An item's status is one of its team's (schema.ts:426, work-items.ts:144). *)
StatusOfTeam == \A i \in Exists : item[i].status = item[i].team
=============================================================================
