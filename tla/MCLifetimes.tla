----------------------------- MODULE MCLifetimes -----------------------------
(***************************************************************************)
(* Instances of Lifetimes for TLC: an empty message, a size that is no     *)
(* multiple of the alignment and one that is.                              *)
(***************************************************************************)
EXTENDS Lifetimes, TLC
=============================================================================
