--------------------------- MODULE MCPipelineManager ---------------------------
(* PipelineManager for TLC.  Every object lives in the slot Fresh chooses.  *)
EXTENDS PipelineManager
=============================================================================
