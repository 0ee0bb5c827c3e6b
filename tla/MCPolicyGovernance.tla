---------------------- MODULE MCPolicyGovernance -----------------------
(* Model checking of PolicyGovernance on small instances. *)
EXTENDS PolicyGovernance, TLC

(* Humans, versions, changes, and handlers are interchangeable. *)
Symmetry == Permutations(Human) \cup Permutations(Version) \cup Permutations(Change)
            \cup Permutations(Handler)
==========================================================================
