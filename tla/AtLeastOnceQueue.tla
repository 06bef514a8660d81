-------------------------- MODULE AtLeastOnceQueue --------------------------
(***************************************************************************)
(* What a persisted queue promises, element by element, with no indexes,   *)
(* clocks or transactions: an element offered under an identifier is       *)
(* queued, handed to one consumer at a time, at most MaxAttempts times not *)
(* counting those a consumer gave back, and ends completed or failed.  It  *)
(* then stays settled until it is forgotten.                               *)
(***************************************************************************)
EXTENDS Integers

CONSTANTS Element, Consumer, None, MaxAttempts

VARIABLE queue   \* queue[e]: [status, attempts, owner] of element e

Unknown == [status |-> "unknown", attempts |-> 0, owner |-> None]

Init == queue = [e \in Element |-> Unknown]

Queued(n) == [status |-> "pending", attempts |-> n, owner |-> None]
With(c, n) == [status |-> "processing", attempts |-> n, owner |-> c]
Ended(status, n) == [status |-> status, attempts |-> n, owner |-> None]

Enqueued(old, new) == old = Unknown /\ new = Queued(0)

Delivered(old, new) ==
  /\ old.status \in {"pending", "processing"}
  /\ old.attempts < MaxAttempts
  /\ \E c \in Consumer : new = With(c, old.attempts + 1) /\ new.owner # old.owner

\* The owner's lease ended: back in the queue, or given up when no attempt is
\* left.
Lapsed(old, new) ==
  /\ old.status = "processing"
  /\ IF old.attempts < MaxAttempts
     THEN new = Queued(old.attempts) ELSE new = Ended("failed", old.attempts)

Settled(old, new) ==
  /\ old.status = "processing"
  /\ \/ new = Ended("completed", old.attempts)
     \/ new = Ended("failed", old.attempts)
     \/ new = Queued(old.attempts) /\ old.attempts < MaxAttempts
     \/ new = Queued(old.attempts - 1)

Forgotten(old, new) == old.status \in {"completed", "failed"} /\ new = Unknown

\* One transaction may release several elements, but hands out at most one,
\* to a consumer that has no other.
Next ==
  /\ queue' \in [Element -> {queue'[e] : e \in Element}]
  /\ \A e \in Element :
       \/ queue'[e] = queue[e]
       \/ Enqueued(queue[e], queue'[e])
       \/ Delivered(queue[e], queue'[e])
       \/ Lapsed(queue[e], queue'[e])
       \/ Settled(queue[e], queue'[e])
       \/ Forgotten(queue[e], queue'[e])
  /\ \A e, f \in Element :
       /\ queue'[e].owner # None /\ queue'[e].owner = queue'[f].owner => e = f
       /\ queue'[e].owner \notin {None, queue[e].owner} /\
          queue'[f].owner \notin {None, queue[f].owner} => e = f

Spec == Init /\ [][Next]_queue
=============================================================================
