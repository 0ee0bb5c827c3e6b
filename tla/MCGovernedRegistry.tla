------------------------ MODULE MCGovernedRegistry -------------------------
(* Two contents under different policies, one key, one capability.         *)
EXTENDS GovernedRegistry, TLC

MCPolicyOf == [x \in Content |-> x]

(* The two registries share nothing but the envelopes' store: one at a     *)
(* time is worked on.  Hosts matter to one, the list in code to the other. *)
(* Three envelopes approve the changes there are.                          *)
Touched == {change[c].subject : c \in {d \in Change : change[d] # None}}
           \cup {job[h].subject : h \in {g \in Handler : pc[g] \in {"check", "create"}}}
Scope ==
    /\ Touched \subseteq Capability \/ (Touched \subseteq Issuer /\ public = Content)
    /\ public # {} /\ Cardinality(nonces) <= 3
    /\ deploys > 0 => Touched # {} /\ Touched \subseteq Issuer

Symmetry == Permutations(Content) \cup Permutations(Human) \cup Permutations(Change) \cup Permutations(Handler)
=============================================================================
