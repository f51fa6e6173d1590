------------------------- MODULE MCCompletionQueue -------------------------
(***************************************************************************)
(* Instances of CompletionQueue for TLC.  A fi_context can be used again    *)
(* once its handler was popped, so that a few operations make runs of any   *)
(* length.                                                                 *)
(***************************************************************************)
EXTENDS CompletionQueue, TLC

CONSTANTS o1, o2, o3, o4
=============================================================================
