---------------------- MODULE MCExecutionIntents -----------------------
(* Model checking of ExecutionIntents on small instances. *)
EXTENDS ExecutionIntents, TLC

(* Requests and callers are interchangeable. *)
Symmetry == Permutations(Req) \cup Permutations(Opr)
==========================================================================
