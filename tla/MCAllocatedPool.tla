--------------------------- MODULE MCAllocatedPool ---------------------------
(***************************************************************************)
(* Instances of AllocatedPool for TLC: two threads, two blocks for the pool *)
(* and a large one.                                                        *)
(***************************************************************************)
EXTENDS AllocatedPool, TLC

CONSTANTS t1, t2, b1, b2, large

(* The threads are interchangeable, and so are the small blocks. *)
MCSymmetry == Permutations(Threads) \cup Permutations(Blocks \ Large)
=============================================================================
