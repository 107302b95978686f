------------------------------ MODULE MCEdcStore ------------------------------
(* TLC instances of EdcStore: the symmetry of its model values, and a bound on the *)
(* transactions that something went wrong with beyond repair in one batch.         *)
EXTENDS EdcStore, TLC

Symmetry == Permutations(Txn)
AtMostOneLost == Cardinality(exposed \cup dropped \cup refused) <= 1
==============================================================================
