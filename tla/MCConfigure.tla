----------------------------- MODULE MCConfigure -----------------------------
(* Two settings in the .env file, and a user who is root or another one.   *)
EXTENDS Configure, TLC

CONSTANTS password, project, root, other

MCSetting == {password, project}

\* All but libs, which no step reads, and what a build under way keeps for itself.
View ==
  <<command, lib, step, src, tool, modules, runs, configVars,
    IF command = "build" THEN <<made, refused>> ELSE <<>>>>
=============================================================================
