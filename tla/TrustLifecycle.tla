--------------------------- MODULE TrustLifecycle ---------------------------
(***************************************************************************)
(* What the execution path promises of a business transaction, without its *)
(* requests, endpoints, faults or storage: evidence first, then at most    *)
(* one action, then the record of it, a successful verification and a      *)
(* receipt, each only on the one before it.  The Execution Intent is       *)
(* closed by the record, or by a human who states what happened; a record  *)
(* that turns up later still closes it.                                    *)
(***************************************************************************)
CONSTANTS Txn, Writer, None

VARIABLES
    intended,   \* transactions with stored, signed evidence of what will run
    acted,      \* transactions whose action was performed
    recorded,   \* Txn -> who wrote the Execution Trust Record
    verified,   \* transactions whose record passed verification
    receipted,  \* transactions with a receipt
    closed      \* Txn -> how the intent was closed

vars == <<intended, acted, recorded, verified, receipted, closed>>

Init ==
    /\ intended = {} /\ acted = {} /\ verified = {} /\ receipted = {}
    /\ recorded = [t \in Txn |-> None]
    /\ closed = [t \in Txn |-> "open"]

Intend(t) ==
    /\ t \notin intended
    /\ intended' = intended \cup {t}
    /\ UNCHANGED <<acted, recorded, verified, receipted, closed>>

Act(t) ==
    /\ t \in intended \ acted
    /\ acted' = acted \cup {t}
    /\ UNCHANGED <<intended, recorded, verified, receipted, closed>>

Record(t) ==
    /\ t \in acted /\ recorded[t] = None
    /\ \E w \in Writer : recorded' = [recorded EXCEPT ![t] = w]
    /\ UNCHANGED <<intended, acted, verified, receipted, closed>>

Verify(t) ==
    /\ recorded[t] # None
    /\ verified' = verified \cup {t}
    /\ UNCHANGED <<intended, acted, recorded, receipted, closed>>

Issue(t) ==
    /\ t \in verified
    /\ receipted' = receipted \cup {t}
    /\ UNCHANGED <<intended, acted, recorded, verified, closed>>

(* The record names the intent closed; before that, a human may. *)
Close(t) ==
    /\ t \in intended
    /\ \/ closed[t] = "open" /\ closed' = [closed EXCEPT ![t] = "stated"]
       \/ /\ closed[t] \in {"open", "stated"} /\ recorded[t] # None
          /\ closed' = [closed EXCEPT ![t] = "recorded"]
    /\ UNCHANGED <<intended, acted, recorded, verified, receipted>>

Next == \E t \in Txn : \/ Intend(t) \/ Act(t) \/ Record(t) \/ Verify(t)
                       \/ Issue(t) \/ Close(t)

Spec == Init /\ [][Next]_vars
=============================================================================
