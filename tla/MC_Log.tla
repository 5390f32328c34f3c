------------------------------- MODULE MC_Log -------------------------------
(* A small instance of the conversation log. *)
EXTENDS ConversationLog, TLC

CONSTANTS ann, bob

SomeChanges ==
    {[who |-> bob, role |-> "reader", status |-> "active"],
     [who |-> bob, role |-> "writer", status |-> "removed"],
     [who |-> bob, role |-> "writer", status |-> "active"]}

KeySymmetry == Permutations(Keys)
=============================================================================
