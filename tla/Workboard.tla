------------------------------ MODULE Workboard ------------------------------
(***************************************************************************)
(* The workboard: the tree of work items, the dependencies between them    *)
(* and the clients that draw these.  Items come and go by requests on the  *)
(* tree, and an item takes its edges along; dependencies are asked for by  *)
(* the clients and by others, between any two statements of the rest.      *)
(***************************************************************************)
EXTENDS WorkItemTree, GraphView

ASSUME WorkboardAssumption == Nodes = Items

boardVars == <<vars, graphVars, viewVars>>

BoardInit == Init /\ GraphInit /\ nodes = Exists /\ ViewInit

BoardNext ==
    \/ Next /\ ItemsBecome(Exists') /\ UNCHANGED viewVars
    \/ EdgeNext /\ UNCHANGED <<vars, viewVars>>
    \/ ViewNext /\ UNCHANGED vars

BoardSpec == BoardInit /\ [][BoardNext]_boardVars
=============================================================================
