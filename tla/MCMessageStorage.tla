-------------------------- MODULE MCMessageStorage --------------------------
(* A delayed request q1 with a chunk and an exit, two acknowledgements of   *)
(* the chunk and an interrupt on another shard; q2 asks the same of the     *)
(* same entity, under the same primary key.                                 *)
EXTENDS MessageStorage, TLC

CONSTANTS q1, q2, a1, a2, i1, c1, x1, home, away, e, k

MCRequestOf == q1 :> q1 @@ a1 :> q1 @@ a2 :> q1 @@ i1 :> q1 @@ q2 :> q2
MCAddressOf == q1 :> home @@ a1 :> home @@ a2 :> home @@ i1 :> away @@ q2 :> home
MCEntityOf == [a \in {home, away} |-> e]
MCKeyOf == [m \in Message |-> IF m \in Request THEN k ELSE None]
MCDeliverAt == [m \in Message |-> IF m = q1 THEN 1 ELSE None]
MCReplyTo == [r \in Reply |-> q1]
MCSequenceOf == [r \in Chunk |-> 0]
MCAckOf == [a \in Ack |-> c1]

Acks == Permutations(Ack)
=============================================================================
