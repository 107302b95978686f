-------------------------------- MODULE MCEdc --------------------------------
(* TLC instances of Edc: the symmetry of its model values. *)
EXTENDS Edc, TLC

Symmetry == Permutations(Txn)
==============================================================================
