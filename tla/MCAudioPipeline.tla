--------------------------- MODULE MCAudioPipeline ---------------------------
(* Small instances of the three asynchronous programs for TLC.             *)
EXTENDS AudioPipeline

Frames == 0 .. MaxFrame
==============================================================================
