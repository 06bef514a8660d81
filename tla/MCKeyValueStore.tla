-------------------------- MODULE MCKeyValueStore --------------------------
(* Names, paths and prefixes for checking KeyValueStore, and the directory  *)
(* layer below it, with TLC.                                                *)
EXTENDS KeyValueStore, TLC

a == 1
b == 2

MCName == {a, b}
MCPath == {<<a>>, <<b>>, <<a, b>>, <<b, a>>}
MCStorePath == <<a, b>>
MCManualPrefix == {<<2>>, <<2, 1>>}
MCOptions ==
  {[tag |-> "partition", manual |-> None, open |-> FALSE],
   [tag |-> "", manual |-> <<2>>, open |-> FALSE],
   [tag |-> "", manual |-> <<2, 1>>, open |-> FALSE]}

\* The smallest number left.
MCDraws ==
  {[S \in SUBSET (1 .. 2) \ {{}} |-> CHOOSE n \in S : \A m \in S : n <= m]}

\* The steps of Next in which NoneTwice holds: only a commit can break it.
MCNext == \E c \in Client : Operation(c) \/ (Commit(c) /\ NoneTwice) \/ Abort(c)

MCSpec == Init /\ [][MCNext]_vars

Symmetry == Permutations(Client)
=============================================================================
