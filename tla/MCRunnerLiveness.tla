--------------------------- MODULE MCRunnerLiveness ---------------------------
(* Values of RunnerLiveness's constants for TLC. *)
EXTENDS MCRunner, RunnerLiveness
===============================================================================
