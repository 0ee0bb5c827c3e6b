----------------------- MODULE AuthorizationLifecycle -----------------------
(***************************************************************************)
(* What the release boundary promises of a signed authorization, without   *)
(* its calls, checks, sessions, credentials, clock or faults.  It is spent *)
(* once, before anything happens; its action is performed at most once,    *)
(* and not after an outcome was told; "completed" is told only of an       *)
(* action that was performed; and the caller hears of success when every   *)
(* writer of the audit trail has told it.                                  *)
(***************************************************************************)
CONSTANTS Auth, Writer

VARIABLES
    issued,     \* authorizations that were signed
    spent,      \* authorizations that may not be presented again
    acts,       \* Auth -> how often its action was performed
    told,       \* Auth -> outcomes in its audit trail
    answered    \* authorizations whose caller was told of success

vars == <<issued, spent, acts, told, answered>>

Completed(w) == [by |-> w, type |-> "execution.completed"]
Rejected(w) == [by |-> w, type |-> "execution.rejected"]

Init ==
    /\ issued = {} /\ spent = {} /\ answered = {}
    /\ acts = [a \in Auth |-> 0]
    /\ told = [a \in Auth |-> {}]

Issue(a) ==
    /\ a \notin issued
    /\ issued' = issued \cup {a}
    /\ UNCHANGED <<spent, acts, told, answered>>

Spend(a) ==
    /\ a \in issued \ spent
    /\ spent' = spent \cup {a}
    /\ UNCHANGED <<issued, acts, told, answered>>

Act(a) ==
    /\ a \in spent /\ acts[a] = 0 /\ told[a] = {}
    /\ acts' = [acts EXCEPT ![a] = 1]
    /\ UNCHANGED <<issued, spent, told, answered>>

(* An outcome is told, and with the last one the caller is answered.  That *)
(* an action was rejected may be told of a performed one: its answer was   *)
(* lost, or a completed event could not be written.                        *)
Tell(a) ==
    /\ a \in spent
    /\ \E w \in Writer :
          \/ acts[a] = 1 /\ told' = [told EXCEPT ![a] = @ \cup {Completed(w)}]
          \/ told' = [told EXCEPT ![a] = @ \cup {Rejected(w)}]
    /\ \/ UNCHANGED answered
       \/ /\ \A w \in Writer : Completed(w) \in told'[a]
          /\ answered' = answered \cup {a}
    /\ UNCHANGED <<issued, spent, acts>>

Next == \E a \in Auth : Issue(a) \/ Spend(a) \/ Act(a) \/ Tell(a)

Spec == Init /\ [][Next]_vars
=============================================================================
