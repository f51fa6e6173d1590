---------------------- MODULE MCSynchronizedSemaphore ----------------------
(***************************************************************************)
(* Instances of SynchronizedSemaphore for TLC.  The safety instance has two *)
(* I/O threads and one other thread, so that permits are contended between  *)
(* handlers that run concurrently and a thread outside the io_context.      *)
(***************************************************************************)
EXTENDS SynchronizedSemaphore, TLC

CONSTANTS io1, io2, main, w1, w2, s1, s2

(* The wait handlers are interchangeable, and so are the signal handlers. *)
MCSymmetry == Permutations({w1, w2}) \cup Permutations({s1, s2})
=============================================================================
