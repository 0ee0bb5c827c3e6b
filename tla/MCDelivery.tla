----------------------------- MODULE MCDelivery -----------------------------
(* Two calls of the SDK: the second may repeat the first's transaction, or *)
(* ask for the same refund again under a new one.                          *)
EXTENDS Delivery

CONSTANTS c1, c2, t1, r1

(* Scope: c1 is the first to call, for t1 and r1.  A call that is a GET,   *)
(* that an adapter refuses before sending, or that is refused before it is *)
(* accepted touches nothing another one sees: c1 makes such a call only    *)
(* when it is alone, c2 never.                                             *)
Inert(c) ==
    \/ input[c].method = "GET" \/ input[c].flaw # "none"
    \/ {resp[c], result[c]} \cap
         {"400", "401", "403", "429", "404", "500", "CAPABILITY_NOT_ALLOWED",
          "SIGNING_UNAVAILABLE", "EXECUTION_INTENT_UNAVAILABLE", "ValidationError",
          "AuthenticationError", "AuthorizationError", "RateLimitError",
          "NotFoundError", "InternalServerError"} # {}
Scope ==
    /\ input[c1] = None => input[c2] = None
    /\ input[c1] # None => input[c1].txn \in {None, t1} /\ input[c1].ref \in {None, r1}
    /\ input[c2] # None => ~Inert(c1) /\ ~Inert(c2)
=============================================================================
