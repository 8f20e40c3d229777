---------------------------- MODULE MCRunnerHistory ----------------------------
(* Values of RunnerHistory's constants for TLC. *)
EXTENDS MCRunner, RunnerHistory
===============================================================================
