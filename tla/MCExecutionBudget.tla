-------------------------- MODULE MCExecutionBudget --------------------------
(* Two CPUs share a lane and a bucket of four ticks; a request is for at    *)
(* most three.  The clock has five units in a second.                       *)
EXTENDS ExecutionBudget
=============================================================================
