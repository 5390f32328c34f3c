---------------------------- MODULE MessageBoard ----------------------------
(***************************************************************************)
(* What a conversation promises about its messages: a message is posted,   *)
(* edited while it stands, and deleted once and for good.                  *)
(***************************************************************************)
CONSTANTS Messages, Texts

VARIABLE message

Live(t) == [state |-> "live", text |-> t]

Init == message = [m \in Messages |-> [state |-> "absent"]]

Write(m, t) == message' = [message EXCEPT ![m] = Live(t)]

Post(m, t) == message[m].state = "absent" /\ Write(m, t)
Edit(m, t) == message[m].state = "live" /\ Write(m, t)
Delete(m)  == /\ message[m].state = "live"
              /\ message' = [message EXCEPT ![m] = [state |-> "deleted"]]

Next == \E m \in Messages : Delete(m) \/ \E t \in Texts : Post(m, t) \/ Edit(m, t)

Spec == Init /\ [][Next]_message
=============================================================================
