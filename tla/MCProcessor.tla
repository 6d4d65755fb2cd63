---------------------------- MODULE MCProcessor ----------------------------
(* Small instances of Processor: the pipelines are chosen so that every     *)
(* runner, an early end by the environment, a flow after an SVN checkout    *)
(* and an empty pipeline occur.                                             *)
EXTENDS Processor, TLC

CONSTANTS h1, h2

ShortPipelines ==
  {<<>>, <<"Lua", "Shell">>, <<"Svn", "Git">>, <<"DockerBuild", "Unknown">>}

LongPipelines == {<<"Svn", "Git", "Lua">>, <<"DockerBuild", "Svn", "Shell">>}

\* For the runs without liveness.
HandlerSymmetry == Permutations({h1, h2})
=============================================================================
