-------------------------- MODULE ProposalDecision --------------------------
(***************************************************************************)
(* What the proposal path promises about one decision, with no step of any *)
(* handler: a proposal is opened once and decided once; it is applied by   *)
(* one request, only over the row it stands for; and that row goes away    *)
(* again only after the proposal was declined.                             *)
(***************************************************************************)

CONSTANTS
    Proposals,
    Made,         \* those that stand for a new row
    Appliers      \* the requests that can apply a proposal

VARIABLES
    decision,     \* "absent", "pending", "accepted", "applied" or "declined"
    winners,      \* the requests that were told they applied the proposal
    made          \* the proposals whose row exists

vars == <<decision, winners, made>>

Init ==
    /\ decision = [p \in Proposals |-> "absent"]
    /\ winners  = [p \in Proposals |-> {}]
    /\ made     = {}

Decide(p, from, to) ==
    /\ decision[p] \in from
    /\ decision' = [decision EXCEPT ![p] = to]

Open(p)    == Decide(p, {"absent"}, "pending") /\ UNCHANGED <<winners, made>>
Approve(p) == Decide(p, {"pending"}, "accepted") /\ UNCHANGED <<winners, made>>
Decline(p) == Decide(p, {"pending"}, "declined") /\ UNCHANGED <<winners, made>>

Make(p) ==
    /\ p \in Made
    /\ decision[p] # "absent"
    /\ made' = made \cup {p}
    /\ UNCHANGED <<decision, winners>>

(* The row is there already, or is made in the same transaction. *)
Apply(p, q) ==
    /\ Decide(p, {"pending", "accepted"}, "applied")
    /\ winners' = [winners EXCEPT ![p] = {q}]
    /\ made' \in {made, made \cup ({p} \cap Made)}
    /\ p \in Made => p \in made'

Withdraw(p) ==
    /\ decision[p] = "declined"
    /\ made' = made \ {p}
    /\ UNCHANGED <<decision, winners>>

Next ==
    \E p \in Proposals :
        \/ Open(p) \/ Approve(p) \/ Decline(p) \/ Make(p) \/ Withdraw(p)
        \/ \E q \in Appliers : Apply(p, q)

Spec == Init /\ [][Next]_vars

=============================================================================
