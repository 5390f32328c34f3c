------------------------------ MODULE GraphView ------------------------------
(***************************************************************************)
(* The dependency graph as the workboard's clients draw it: a list of      *)
(* edges that is loaded once, to which a confirmed edge is appended and    *)
(* from which a removed one disappears before the server has removed it.   *)
(*                                                                         *)
(* A request is aborted after 15 seconds: the client then takes it for     *)
(* failed, while the server may have served it or still serve it.          *)
(***************************************************************************)
EXTENDS DependencyGraph

CONSTANT Clients

Removal ==
    [by : Clients, edge : Edge, state : {"sent", "deleted", "missing"}, awaited : BOOLEAN]

VARIABLES
    open,      \* the clients whose list has been loaded
    view,      \* the dependencies a client's hook holds
    adding,    \* the adds whose answer a client awaits
    removals   \* the DELETEs that were sent

viewVars == <<open, view, adding, removals>>

ViewInit ==
    /\ open = {} /\ view = [c \in Clients |-> {}]
    /\ adding = {} /\ removals = {}

Show(c, edge) == view' = [view EXCEPT ![c] = @ \cup {edge}]
Hide(c, edge) == view' = [view EXCEPT ![c] = @ \ {edge}]

-----------------------------------------------------------------------------
(* Nothing can be edited before the first load, so its read and its answer   *)
(* are one step.                                                             *)
Load(c) ==
    /\ c \notin open /\ open' = open \cup {c}
    /\ view' = [view EXCEPT ![c] = edges]
    /\ UNCHANGED <<graphVars, adding, removals>>

(* What the canvas lets a person connect: it looks at the edges it holds.    *)
CanCreateDependency(c, s, t) ==
    /\ s # t
    /\ \A e \in view[c] : ~ (e.source = s /\ e.target = t)
    /\ ~ Reaches(view[c], t, s)

Connect(c, a, s, t) ==
    /\ c \in open /\ CanCreateDependency(c, s, t)
    /\ AskEdge(a, s, t)
    /\ adding' = adding \cup {[by |-> c, id |-> a]}
    /\ UNCHANGED <<open, view, removals>>

AddAnswered(m) ==
    \E r \in adds :
        /\ r.id = m.id /\ r.step \notin {"find", "insert", "running"}
        /\ adding' = adding \ {m}
        /\ IF r.step = "added" THEN Show(m.by, EdgeOf(r)) ELSE UNCHANGED view
        /\ UNCHANGED <<graphVars, open, removals>>

AddLost(m) ==
    /\ adding' = adding \ {m}
    /\ UNCHANGED <<graphVars, open, view, removals>>

Disconnect(c, e) ==
    /\ e \in view[c] /\ Hide(c, e)
    /\ removals' = removals \cup {[by |-> c, edge |-> e, state |-> "sent", awaited |-> TRUE]}
    /\ UNCHANGED <<graphVars, open, adding>>

ServeRemoval(m) ==
    /\ m.state = "sent"
    /\ RemoveEdge(m.edge)
    /\ removals' = (removals \ {m}) \cup
                   {[m EXCEPT !.state = IF m.edge \in edges THEN "deleted" ELSE "missing"]}
    /\ UNCHANGED <<open, view, adding>>

(* An edge that was not there to be removed is shown again. *)
RemovalAnswered(m) ==
    /\ m.awaited /\ m.state # "sent"
    /\ removals' = removals \ {m}
    /\ IF m.state = "missing" THEN Show(m.by, m.edge) ELSE UNCHANGED view
    /\ UNCHANGED <<graphVars, open, adding>>

\* Mutant: a removal that fails is not rolled back.
RemovalLostKeepsHidden(m) ==
    /\ m.awaited
    /\ removals' = (removals \ {m}) \cup {[m EXCEPT !.awaited = FALSE]}
    /\ UNCHANGED <<graphVars, open, view, adding>>

(* The client gives up on the answer and shows the edge again. *)
RemovalLost(m) ==
    /\ m.awaited
    /\ removals' = (removals \ {m}) \cup {[m EXCEPT !.awaited = FALSE]}
    /\ Show(m.by, m.edge)
    /\ UNCHANGED <<graphVars, open, adding>>

ViewNext ==
    \/ \E c \in Clients : Load(c)
    \/ \E c \in Clients, a \in Adds, s, t \in Nodes : Connect(c, a, s, t)
    \/ \E m \in adding : AddAnswered(m) \/ AddLost(m)
    \/ \E c \in Clients : \E e \in view[c] : Disconnect(c, e)
    \/ \E m \in removals : ServeRemoval(m) \/ RemovalAnswered(m) \/ RemovalLost(m)

-----------------------------------------------------------------------------
(* What a client draws is a DAG: its canvas refuses an edge that closes a    *)
(* cycle (gestures.ts:24, WorkboardGraph.tsx:79).                            *)
DrawnAsDag ==
    \A c \in Clients : \A E \in SUBSET view[c] : Endless(E) => E = {}
=============================================================================
