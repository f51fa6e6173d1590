-------------------------- MODULE MCUniqueFunction --------------------------
(***************************************************************************)
(* Instances of UniqueFunction for TLC: two functions and the cache of      *)
(* swap, a callable of each kind.                                          *)
(***************************************************************************)
EXTENDS UniqueFunction, TLC

CONSTANTS f1, f2, cache, b1, b2, b3, small, large, fragileSmall, fragileLarge
=============================================================================
