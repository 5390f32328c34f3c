------------------------------ MODULE MC_Ledger ------------------------------
(* Small instances of the command ledger. *)
EXTENDS CommandLedger, TLC

CONSTANTS k1, k2, x, y

ScopeOf(q) == <<q.cmd, q.key>>

Create(key, body)     == [cmd |-> "create", key |-> key, body |-> body, at |-> 0]
Update(key, body, at) == [cmd |-> "update", key |-> key, body |-> body, at |-> at]
Apply(key)            == [cmd |-> "apply", key |-> key, body |-> x, at |-> 0]

(* Two creates under one key, and updates of one version under two keys; or  *)
(* one proposal applied under two keys, with updates in between.             *)
RetriedAsks == {Create(k1, x), Create(k1, y), Update(k1, x, 1), Update(k2, y, 1), Update(k2, x, 2)}
ApplyAsks   == {Apply(k1), Apply(k2), Update(k1, y, 2)}
AllAsks     == RetriedAsks \cup ApplyAsks

MCInit == Init /\ \E asks \in {RetriedAsks, ApplyAsks} : ask \in [Tries -> asks]
MCSpec == MCInit /\ [][Next]_vars

(* Bound: a fourth version only where a proposal is applied. *)
FourVersionsToApply == item.version = MaxVersion => ask \in [Tries -> ApplyAsks]

TrySymmetry == Permutations(Tries) \cup Permutations(Ids)
=============================================================================
