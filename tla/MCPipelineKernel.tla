--------------------------- MODULE MCPipelineKernel ---------------------------
(* Instances of PipelineKernel for TLC: the values are in the .cfg files.      *)
EXTENDS PipelineKernel
=============================================================================
