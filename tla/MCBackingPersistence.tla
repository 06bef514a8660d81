------------------------ MODULE MCBackingPersistence ------------------------
(* Symmetry for checking BackingPersistence with TLC.                       *)
EXTENDS BackingPersistence, TLC

Symmetry == Permutations(Key)
=============================================================================
