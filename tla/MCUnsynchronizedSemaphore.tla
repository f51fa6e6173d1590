--------------------- MODULE MCUnsynchronizedSemaphore ---------------------
(***************************************************************************)
(* An instance of UnsynchronizedSemaphore for TLC: enough handlers for      *)
(* operations nested three deep.                                           *)
(***************************************************************************)
EXTENDS UnsynchronizedSemaphore, TLC

CONSTANTS main, w1, w2, w3, s1, s2

(* The wait handlers are interchangeable, and so are the signal handlers. *)
MCSymmetry == Permutations({w1, w2, w3}) \cup Permutations({s1, s2})
=============================================================================
