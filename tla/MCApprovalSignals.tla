------------------------- MODULE MCApprovalSignals -------------------------
(* Two signals: an amount to cover, and the resource itself.  Approval A1  *)
(* covers amounts below 2, A2 exactly resource R1, A3 amounts 1 to 2.      *)
EXTENDS ApprovalSignals, TLC

CONSTANTS K1, K2, A1, A2, A3, R1, R2

MCSignals == <<"amountApproved", "recordApproved">>
MCByValue == {"amountApproved"}

MCPayload ==
    A1 :> [key |-> K1, resource |-> R1,
           scope |-> [comparator |-> "lt", value |-> 2]] @@
    A2 :> [key |-> K2, resource |-> R1,
           scope |-> [comparator |-> "eq", value |-> R1]] @@
    A3 :> [key |-> K2, resource |-> R1,
           scope |-> [comparator |-> "between", value |-> [min |-> 1, max |-> 2]]]

Carries(resource, value, channel, amount, record) ==
    [resource |-> resource, value |-> value, channel |-> channel,
     declared |-> {"amountApproved", "recordApproved"},
     artifacts |-> ("amountApproved" :> amount @@ "recordApproved" :> record)]

MCContents ==
    {Carries(R1, 1, TRUE, A1, A2),       \* everything fits
     Carries(R1, 2, TRUE, A3, A2),       \* fits, shares A2
     Carries(R1, 2, TRUE, A1, A2),       \* at the strict bound of A1
     Carries(R1, 1, FALSE, A3, A2),      \* channel not allowed
     [Carries(R1, 1, TRUE, A1, A2) EXCEPT !.declared = {"amountApproved"}],
     Carries(R1, 1, TRUE, A2, A2),       \* one approval for both signals
     Carries(R2, 1, TRUE, A1, A2),       \* another resource
     Carries(R1, Absent, TRUE, A1, A2),  \* no amount in the intent
     Carries(R1, 1, TRUE, A1, Absent)}   \* an approval is missing

MCSymmetry == Permutations(Request)
============================================================================
