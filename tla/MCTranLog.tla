------------------------------ MODULE MCTranLog ------------------------------
(* TLC instances of TranLogPower: the symmetry of its model values.            *)
EXTENDS TranLogPower, TLC

Symmetry == Permutations(Acq) \cup Permutations(Pack)
==============================================================================
