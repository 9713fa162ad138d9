-------------------------- MODULE MCPipelinePages --------------------------
(* A small instance of PipelinePages for TLC.  The tickers are alike, but    *)
(* TLC's symmetry reduction is unsound for the liveness properties it runs.  *)
EXTENDS PipelinePages
=============================================================================
