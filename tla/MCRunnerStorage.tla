--------------------------- MODULE MCRunnerStorage ---------------------------
(* Symmetry for checking RunnerStorage with TLC.                            *)
EXTENDS RunnerStorage, TLC

Symmetry == Permutations(Address) \cup Permutations(Shard)
=============================================================================
