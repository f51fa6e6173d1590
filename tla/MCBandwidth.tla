----------------------------- MODULE MCBandwidth -----------------------------
(***************************************************************************)
(* Instances of Bandwidth for TLC.                                         *)
(***************************************************************************)
EXTENDS Bandwidth, TLC
=============================================================================
