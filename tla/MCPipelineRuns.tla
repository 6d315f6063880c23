---------------------------- MODULE MCPipelineRuns ----------------------------
(* PipelineRuns on small instances. *)
EXTENDS PipelineRuns, TLC

CONSTANTS p1, p2, x

TwoStages == {1, 2}
OneInput == {x}

\* The second stage may lack its input or be disabled.
CoreWorlds == {(1 :> x) @@ (2 :> b) : b \in {x, NotAcquired, Disabled}}

\* For the run with liveness: one stage, whose input may not be made yet, or may
\* never have been acquired.
OneStage == {1}
OneStageWorlds == {1 :> x, 1 :> Missing, 1 :> NotAcquired}
================================================================================
