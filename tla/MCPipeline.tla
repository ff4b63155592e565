------------------------------ MODULE MCPipeline ------------------------------
(***************************************************************************)
(* An instance of the whole pipeline, from the roster to the commands.      *)
(***************************************************************************)
EXTENDS MatchPipeline, MCMatch

\* A client that comes, talks and leaves while matches are exported.
PipelineHooks == {"ServerActivate", "PlayerGetIntoGame", "PlayerSayText"}
=============================================================================
