----------------------------- MODULE BoardHistory -----------------------------
(***************************************************************************)
(* The workboard with a history variable that its steps never look at: the *)
(* edges that each client has drawn at some time.                          *)
(***************************************************************************)
EXTENDS Workboard

VARIABLE drawn

HistoryInit == BoardInit /\ drawn = [c \in Clients |-> {}]

HistoryNext == BoardNext /\ drawn' = [c \in Clients |-> drawn[c] \cup view'[c]]

HistorySpec == HistoryInit /\ [][HistoryNext]_<<boardVars, drawn>>

(* An edge that the server has and that a client has drawn stays drawn, as   *)
(* long as the client is not waiting for its removal (use-work-items.ts:310):*)
(* no refusal, late answer or abort makes it disappear.                      *)
NothingVanishes ==
    \A c \in Clients : \A e \in edges \cap drawn[c] :
        e \in view[c] \/ \E m \in removals : m.by = c /\ m.edge = e /\ m.awaited
=============================================================================
