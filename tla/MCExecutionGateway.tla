---------------------- MODULE MCExecutionGateway -----------------------
(* Model checking of ExecutionGateway on small instances. *)
EXTENDS ExecutionGateway, TLC

(* Calls are interchangeable. *)
Symmetry == Permutations(Call)
==========================================================================
