---------------------------- MODULE MCPipeFrames ----------------------------
(* One pipe under all three thread models, both kinds of application       *)
(* frameDrawFinish, a latency of one frame, two frames and two             *)
(* initialisations, so that the pipe can be initialised after frames ran   *)
(* without it and frames overlap; three windows, so that two of them can   *)
(* share the context of a third that is destroyed.                         *)
EXTENDS PipeFrames

MCThreadModels == {"ASYNC", "DRAW_SYNC", "LOCAL_SYNC"}

CONSTANTS w1, w2, w3
MCWindows == {w1, w2, w3}
=============================================================================
