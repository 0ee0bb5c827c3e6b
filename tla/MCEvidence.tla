----------------------------- MODULE MCEvidence -----------------------------
(* Two stored rows, one of any kind and one trust record, with contents    *)
(* whose message is at the KMS limit and one byte over it.                 *)
EXTENDS Evidence

CONSTANTS s1, s2, d1, d2

MCSize == d1 :> 2 @@ d2 :> 3
MCKindsOf == s1 :> {"record", "refusal", "intent", "event"} @@ s2 :> {"record"}

(* The second row is there to lend its signature: it is written after the  *)
(* first, with one change at most, and stays as produced.  Two changes,    *)
(* two alterations, or one of each, happen.                                *)
Scope ==
    /\ row[s2] # None => row[s1] # None /\ row[s2] \in issued /\ reconfigs <= 1
    /\ reconfigs + alters <= 2
=============================================================================
