----------------------------- MODULE MCCedarRun -----------------------------
(* CedarRun with two calls: one encodes for a client until it is stopped,  *)
(* the other one a single frame for ffmpeg.                                *)
EXTENDS CedarRun

UpToOne == [r \in {1, 2} |-> r - 1]
=============================================================================
