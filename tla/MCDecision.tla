---------------------------- MODULE MCDecision ----------------------------
(* Policies of two rules over an approval signal "ok", an amount "amt" of  *)
(* the intent and a free text "tag".                                       *)
EXTENDS Decision

MCDoc == {"N1", "N2", "M1"}
MCNameOf == [N1 |-> "N", N2 |-> "N", M1 |-> "M"]
MCCapability == [pay |-> "canonical", call |-> "external", note |-> "unbound"]
MCLanguage == (<<"a", "any">> :> {<<"a">>, <<"a", "b">>})

Ok == Fact("ok", "is_true", Undef)
Small == Fact("amt", "lte", Num(1))

Leaves ==
    {Ok, Small, Fact("ok", "is_false", Undef), Fact("amt", "gte", Num(1)),
     Fact("amt", "gt", Num(1)), Fact("amt", "eq", Num(2)), Fact("amt", "neq", Num(1))}
TagLeaves ==
    {Fact("tag", "starts_with", Str(<<"a">>)), Fact("tag", "ends_with", Str(<<"b">>)),
     Fact("tag", "matches", Str(<<"a", "any">>)), Fact("tag", "matches", Str(<<"bad">>)),
     Fact("tag", "in", Arr(<<Num(1), Str(<<"a", "b">>)>>)), Fact("tag", "not_in", Arr(<<Num(1)>>)),
     Fact("tag", "between", Arr(<<Num(0), Num(1)>>)), Fact("tag", "contains", Num(1)),
     Fact("tag", "not_contains", Num(1)), Fact("tag", "contains_all", Arr(<<Num(1), Num(2)>>)),
     Fact("tag", "contains_any", Arr(<<Num(1), Num(2)>>)), Fact("tag", "exists", Undef),
     Fact("tag", "not_exists", Undef), Fact("tag", "is_null", Undef),
     Fact("tag", "is_not_null", Undef), Fact("tag", "length_eq", Num(2)),
     Fact("tag", "length_gt", Num(1)), Fact("tag", "length_gte", Num(2)),
     Fact("tag", "length_lt", Num(1)), Fact("tag", "length_lte", Num(0)),
     Fact("tag", "type_is", Str(<<"array">>)), Fact("tag", "lt", Num(1)), Fact("tag", "no_such", Num(1))}
Nested == AnyOf(<<Small, Fact("amt", "gt", Num(1))>>)
Compound ==
    {AllOf(<<Ok, Small>>), AllOf(<<Ok, Nested>>), AnyOf(<<Ok, Small>>), AllOf(<<>>), Nested,
     AllOf(<<Small, Fact("amt", "gte", Num(1))>>)}

MCCondition == Leaves \cup TagLeaves \cup Compound \cup {Always}

Approval(b) == IF b THEN [ok |-> "approvalArtifact"] ELSE <<>>
Amount(b) == IF b THEN [amt |-> "parameters.amount"] ELSE <<>>
Policy(d, c1, a1, c2, a2, b, r, a) ==
    [doc |-> d, bound |-> b, reasons |-> r, approval |-> a,
     rules |-> <<[id |-> "r1", condition |-> c1, action |-> a1],
                 [id |-> "r2", condition |-> c2, action |-> a2]>>]

Plain(d, b) == Policy(d, Ok, "approve", Always, "reject", Amount(b), {}, Approval(TRUE))
TagPolicies ==
    {Policy("N1", c, "reject", Ok, "approve", <<>>, {"tag"}, Approval(TRUE)) : c \in TagLeaves}
LanguagePolicies ==
    {Policy("N1", c1, a1, c2, "approve", Amount(b), {f \in {"amt"} : ~b}, Approval(a)) :
        c1 \in Leaves \cup Compound, c2 \in Leaves \cup Compound \cup {Always},
        a1 \in {"approve", "reject"}, b \in BOOLEAN, a \in BOOLEAN}

MCFirstContents ==
    {[N1 |-> p, N2 |-> NoContent, M1 |-> NoContent] : p \in TagPolicies \cup LanguagePolicies}
    \cup {[N1 |-> Plain("N1", FALSE), N2 |-> q, M1 |-> Plain("M1", FALSE)] :
            q \in {NoContent, Plain("N2", TRUE)}}
MCProposals == {Plain("N1", TRUE), Plain("N2", TRUE)}

MCSignalSets ==
    {[amt |-> Num(1)]} \cup
    {[ok |-> o, amt |-> a] : o \in {Bool(TRUE), Bool(FALSE)}, a \in {Num(1), Num(2)}} \cup
    {[ok |-> Bool(TRUE), amt |-> Num(1), tag |-> t] :
        t \in {NullValue, Num(1), Str(<<"a", "b">>), Arr(<<Num(1)>>)}}
MCIntents == {("parameters.amount" :> Num(1))}

PlainSignals == {[ok |-> Bool(TRUE), amt |-> a] : a \in {Num(1), Num(2)}}

(* Every policy of the language is asked once, with everything around it   *)
(* at rest; governance, faults and the other capabilities and documents    *)
(* are explored around the plain policies.                                 *)
Scope ==
    IF approved["M1"] = NoContent
    THEN /\ changes = 0 /\ faults = 0 /\ external /\ told = NoDoc
         /\ req = NoRequest \/ (req.capability = "pay" /\ req.declared = "N1")
    ELSE req = NoRequest \/ req.signals \in PlainSignals
=============================================================================
