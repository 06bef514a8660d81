------------------------ MODULE MCDirectoryAllocator ------------------------
(* Values for checking DirectoryAllocator with TLC: two fibers allocate in  *)
(* one transaction, one in the other.                                       *)
EXTENDS DirectoryAllocator, TLC

CONSTANTS t1, t2, f1, f2, f3

MCTransactionOf == f1 :> t1 @@ f2 :> t1 @@ f3 :> t2

Symmetry == Permutations({f1, f2})
=============================================================================
