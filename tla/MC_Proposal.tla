----------------------------- MODULE MC_Proposal -----------------------------
(* Small instances of ProposalLifecycle for TLC.                             *)
EXTENDS ProposalLifecycle

CONSTANT NewValue    \* the value every proposal carries

MCTarget  == [p \in Updates |-> CHOOSE i \in Items : TRUE]
MCField   == [p \in Updates |-> CHOOSE f \in Fields : TRUE]
MCPayload == [p \in Proposals |-> NewValue]
=============================================================================
