--------------------------- MODULE MCNativeBridge ---------------------------
(* Three drivers for checking NativeBridge with TLC: the requests of o1 and *)
(* o2 come from different isolates, so that their ids collide, and o3 asks  *)
(* for another API version.                                                 *)
EXTENDS NativeBridge

CONSTANTS o1, o2, o3, r1, r2, r3

MCOwnerOf == [r \in Request |-> IF r = r3 THEN o2 ELSE o1]
MCIdOf == [r \in Request |-> IF r = r2 THEN 2 ELSE 1]
MCApiVersion == [o \in Owner |-> IF o = o3 THEN 730 ELSE 740]
=============================================================================
