------------------------------ MODULE MC_Memory ------------------------------
(* Small instances of the memory chains. *)
EXTENDS MemoryChain, FiniteSets, TLC

CONSTANTS p1, p2, p3, p4

EachOp ==
    (p1 :> "create") @@ (p2 :> "supersede") @@ (p3 :> "retract") @@ (p4 :> "defer")

(* Bound: any two of the proposals come up in a behaviour. *)
TwoProposals == Cardinality({p \in Proposals : decision[p] # "draft"}) <= 2

MintSymmetry == Permutations(Memories) \cup Permutations(Drives)
=============================================================================
