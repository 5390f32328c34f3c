--------------------------- MODULE DependencyGraph ---------------------------
(***************************************************************************)
(* The dependency edges between the work items of an organisation.         *)
(*                                                                         *)
(* A request to add an edge checks that both items exist and then runs one *)
(* INSERT, which looks in its own snapshot for a path back.  Statements    *)
(* overlap: one does not see what another has not committed yet, and only  *)
(* the unique index and the foreign keys look at what is there when it     *)
(* writes.  Edges of other organisations are in no query and left out.     *)
(***************************************************************************)
CONSTANTS
    Nodes,  \* work items
    Adds    \* requests to add an edge; an edge has the id of the request that added it

Edge == [id : Adds, source : Nodes, target : Nodes]

Steps == {"find", "insert", "running",                          \* under way
          "added", "cycle", "exists", "missing", "failed"}      \* answered

Request == [id : Adds, source : Nodes, target : Nodes, step : Steps, saw : SUBSET Edge]

VARIABLES
    nodes,  \* the items that exist
    edges,  \* work_item_dependencies
    adds    \* the requests made so far: what they want, how far they are, what they saw

graphVars == <<nodes, edges, adds>>

GraphInit == nodes \in SUBSET Nodes /\ edges = {} /\ adds = {}

-----------------------------------------------------------------------------
EdgeOf(r) == [id |-> r.id, source |-> r.source, target |-> r.target]
Like(r, e) == e.source = r.source /\ e.target = r.target

\* Mutant: the walk is not recursive.
ReachesDirectly(E, from, to) == \E e \in E : e.source = from /\ e.target = to

(* The walk over an edge set: to is in every set that has the targets of     *)
(* from's edges and of the edges that start in it.                           *)
Reaches(E, from, to) ==
    \A S \in SUBSET Nodes :
        (\A e \in E : e.source = from \/ e.source \in S => e.target \in S) => to \in S

Advance(r, step) == adds' = (adds \ {r}) \cup {[r EXCEPT !.step = step]}

(* A request that names two items; one that names an item twice is refused.  *)
AskEdge(a, s, t) ==
    /\ s # t
    /\ \A r \in adds : r.id # a
    /\ adds' = adds \cup {[id |-> a, source |-> s, target |-> t, step |-> "find", saw |-> {}]}
    /\ UNCHANGED <<nodes, edges>>

FindEnds(r) ==
    /\ r.step = "find"
    /\ Advance(r, IF {r.source, r.target} \subseteq nodes THEN "insert" ELSE "missing")
    /\ UNCHANGED <<nodes, edges>>

(* The INSERT takes its snapshot. *)
BeginEdge(r) ==
    /\ r.step = "insert"
    /\ adds' = (adds \ {r}) \cup {[r EXCEPT !.step = "running", !.saw = edges]}
    /\ UNCHANGED <<nodes, edges>>

(* It refuses a path back in that snapshot, then meets the index and the     *)
(* foreign keys, and commits.                                                *)
InsertEdge(r) ==
    LET closes == Reaches(r.saw, r.target, r.source)
        twice  == \E e \in edges : Like(r, e)
        gone   == ~ {r.source, r.target} \subseteq nodes
    IN  /\ r.step = "running"
        /\ \/ closes /\ Advance(r, "cycle") /\ UNCHANGED edges
           \/ ~closes /\ twice /\ Advance(r, "exists") /\ UNCHANGED edges
           \/ ~closes /\ gone /\ Advance(r, "failed") /\ UNCHANGED edges
           \/ /\ ~closes /\ ~twice /\ ~gone
              /\ Advance(r, "added") /\ edges' = edges \cup {EdgeOf(r)}
        /\ UNCHANGED nodes

RemoveEdge(e) ==
    /\ edges' = edges \ {e}
    /\ UNCHANGED <<nodes, adds>>

(* Items are created, and deleted with their edges (on delete cascade). *)
ItemsBecome(now) ==
    /\ nodes' = now
    /\ edges' = {e \in edges : {e.source, e.target} \subseteq now}
    /\ UNCHANGED adds

ServeAdd == \E r \in adds : FindEnds(r) \/ BeginEdge(r) \/ InsertEdge(r)

EdgeNext ==
    \/ \E a \in Adds, s, t \in Nodes : AskEdge(a, s, t)
    \/ ServeAdd
    \/ \E e \in edges : RemoveEdge(e)

GraphNext == EdgeNext \/ \E now \in SUBSET Nodes : ItemsBecome(now)

GraphSpec == GraphInit /\ [][GraphNext]_graphVars

-----------------------------------------------------------------------------
GraphTypeOK ==
    /\ nodes \subseteq Nodes /\ edges \subseteq Edge /\ adds \subseteq Request
    /\ \A r, q \in adds : r.id = q.id => r = q

(* Every edge of E leads to another one of E: E has a cycle, or is empty. *)
Endless(E) == \A e \in E : \E f \in E : f.source = e.target

(* The statements that added e and f did not see each other's edge. *)
Overlapped(e, f) ==
    \E r, q \in adds : r.id = e.id /\ q.id = f.id /\ e \notin q.saw /\ f \notin r.saw

(* The graph "stays a DAG" (dependencies.ts:89) except for what the comment  *)
(* at line 134 concedes: a cycle has two edges whose INSERTs overlapped.     *)
(* No walk, removal, deletion or retry closes one otherwise.                 *)
CyclesAreRaced ==
    \A E \in SUBSET edges :
        E # {} /\ Endless(E) => \E e, f \in E : e # f /\ Overlapped(e, f)
=============================================================================
