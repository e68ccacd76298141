--------------------------- MODULE MCPipelineView ---------------------------
(***************************************************************************)
(* A small instance of PipelineView for TLC.                               *)
(***************************************************************************)
EXTENDS PipelineView

MCTimes == 1..2

\* Three environment types stand for the five of the enum.
MCStageTypes == <<"Commit", "Build", "Dev", "QA", "Prod">>
=============================================================================
