------------------------------ MODULE MCEvalRuns ------------------------------
(* The instance of EvalRuns for TLC. Its properties are temporal, so tokens     *)
(* and jobs are not taken for interchangeable.                                 *)
EXTENDS EvalRuns, TLC
=============================================================================
