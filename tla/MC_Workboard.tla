---------------------------- MODULE MC_Workboard ----------------------------
(* A small workboard. *)
EXTENDS BoardHistory, FiniteSets, TLC

CONSTANTS t1, t2

(* What requests on items ask for. *)
SomeAsks ==
    {[team |-> t1, status |-> Keep, parent |-> p] : p \in Items \cup {None}}
    \cup {[team |-> t2, status |-> t2, parent |-> Keep], Idle}

Busy == {r \in Requests : pc[r] # "idle"}

(* Bounds.  Items are nested and moved while no dependency is asked for and  *)
(* no client looks on, and only a request that is alone moves them between   *)
(* teams.                                                                    *)
NoMove ==
    Cardinality(Busy) > 1 =>
        /\ \A i \in Exists : item[i].team = t1
        /\ \A r \in Busy : ask[r].team # t2 /\ (saw[r] # None => saw[r].team = t1)

(* Where dependencies are asked for, one request at a time makes the items,  *)
(* and all of them are there when a third edge is asked for.                 *)
Flat ==
    /\ \A i \in Exists : item[i].parent = None /\ item[i].team = t1
    /\ Cardinality(Busy) <= 1 /\ \A r \in Busy : saw[r] = None /\ ask[r].parent = None
    /\ Cardinality(adds) > 2 => Exists = Items /\ Busy = {}

(* Where clients look on, there are two items and two requests for an edge,  *)
(* and two removals, counting those that were given up.                      *)
Watched == Cardinality(used) <= 2 /\ Cardinality(adds) <= 2 /\ Cardinality(removals) <= 2

Bounds ==
    /\ IF adds = {} /\ open = {} THEN NoMove ELSE Flat
    /\ open # {} => Watched

MCNext == HistoryNext /\ Bounds'
MCSpec == HistoryInit /\ [][MCNext]_<<boardVars, drawn>>

BoardSymmetry ==
    Permutations(Items) \cup Permutations(Requests) \cup Permutations(Adds)
=============================================================================
