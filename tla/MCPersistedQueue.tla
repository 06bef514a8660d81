-------------------------- MODULE MCPersistedQueue --------------------------
(* Model values and symmetry for checking PersistedQueue with TLC, and the  *)
(* refinement of AtLeastOnceQueue.                                          *)
EXTENDS PersistedQueue, TLC

Symmetry == Permutations(Take) \cup Permutations(Id)

\* What a reader of the promise sees of one identifier.
ElementView(i) ==
  IF store.ids[i] = None
  THEN [status |-> "unknown", attempts |-> 0, owner |-> None]
  ELSE LET e == store.entries[store.ids[i]]
       IN  [status |-> e.state, attempts |-> e.attempts, owner |-> e.acquiredBy]

Promise == INSTANCE AtLeastOnceQueue
             WITH Element <- Id, Consumer <- Take,
                  queue <- [i \in Id |-> ElementView(i)]

\* The rows of PersistedQueue, with its retries and stale clocks, implement an
\* at-least-once queue with exclusive claims.
ImplementsPromise == Promise!Spec
=============================================================================
