------------------------- MODULE MCConnectionSetup -------------------------
(***************************************************************************)
(* Instances of ConnectionSetup for TLC: two clients are enough for a       *)
(* request that arrives while the handler of another one listens again,     *)
(* accepts or rejects.                                                     *)
(***************************************************************************)
EXTENDS ConnectionSetup, TLC

CONSTANTS c1, c2

(* The clients are interchangeable. *)
MCSymmetry == Permutations(Clients)
=============================================================================
