--------------------------- MODULE DeliveryProofs ---------------------------
(***************************************************************************)
(* What Delivery promises, for any number of calls, transactions, refunds, *)
(* retries and faults: the answer the SDK gives is true, a refund is paid  *)
(* once, and an endpoint that takes one request at a time acts once.       *)
(***************************************************************************)
EXTENDS Delivery, TLAPS

(* What execute() asks for. *)
Post == {i \in Input : i.method = "POST"}

(* How far the SDK, the server and the provider are with one call, each    *)
(* seen from the others.                                                   *)
Stage(c) ==
    /\ cpc[c] = "idle" => spc[c] = "none" /\ tries[c] = 0
    /\ cpc[c] # "idle" => input[c] \in Input /\ tries[c] >= 1
    /\ cpc[c] = "backoff" => input[c].method = "GET" /\ tries[c] <= MaxRetries
    /\ cpc[c] = "reading" => spc[c] = "answered"
    /\ spc[c] # "none" => cpc[c] # "idle"
    /\ spc[c] = "answered" => resp[c] \in Response
    /\ resp[c] # None => spc[c] = "answered"
    /\ result[c] # None => cpc[c] = "returned"
    /\ spc[c] \in {"release", "waiting", "record"} => input[c] \in Post
    /\ spc[c] \in {"none", "arriving", "release"} => wire[c] = "none"
    /\ spc[c] \in {"waiting", "record"} => wire[c] # "none"
    /\ spc[c] = "record" => reply[c] # None
    /\ wire[c] # "none" => input[c] \in Post /\ spc[c] # "none"
    /\ spare[c] # "none" => wire[c] # "none"
    /\ reply[c] # None => wire[c] = "done"
    /\ wire[c] = "checked" => conn = "external"

TypeInv == TypeOK /\ \A c \in Call : Stage(c)

LEMMA InputFields ==
    /\ \A i \in Input : /\ i.method \in {"GET", "POST"}
                        /\ i = Get \/ i \in Post
    /\ \A i \in Post : /\ i.method = "POST" /\ i.txn \in Txn
                       /\ conn = "paytm" => i.ref \in Ref
    /\ Get \in Input /\ Get.method = "GET"
BY DEF Input, Post, Get

LEMMA ReadBodyType ==
    ASSUME NEW a \in Response, NEW b \in BOOLEAN
    PROVE  ReadBody(a, b) \in Result
BY ZenonT(60) DEF ReadBody, WithoutBody, BuildHttpError, Response, NothingRan, Result

LEMMA InitType == Init => TypeInv
BY ConstantsAssumption DEF Init, TypeInv, TypeOK, Stage, Input

LEMMA SettleType ==
    ASSUME TypeInv, NEW c \in Call, NEW r \in Result, cpc[c] \in {"waiting", "reading"}, Settle(c, r)
    PROVE  /\ cpc' \in [Call -> {"idle", "waiting", "reading", "backoff", "returned"}]
           /\ result' \in [Call -> Result \cup {None}]
           /\ cpc'[c] \in {"backoff", "returned"}
           /\ cpc'[c] = "backoff" => /\ input[c].method = "GET" /\ tries[c] <= MaxRetries
                                     /\ result' = result
           /\ \A d \in Call \ {c} : cpc'[d] = cpc[d] /\ result'[d] = result[d]
           /\ result'[c] # None => cpc'[c] = "returned"
BY ConstantsAssumption, InputFields DEF Settle, TypeInv, TypeOK, Stage, ResolveRetryPolicy

LEMMA ClientType ==
    ASSUME TypeInv, NEW c \in Call, Client(c)
    PROVE  TypeInv'
<1> USE DEF TypeInv
<1>i. Input' = Input
  BY DEF Client, Input, CallSdk, RetryAttempt, TimesOut, NetworkFails, HeadersArrive, BodyArrives
<1>p. Post' = Post
  BY <1>i DEF Post
<1>1. CASE CallSdk(c)
  <2>1. PICK i \in Input : input' = [input EXCEPT ![c] = i]
    BY <1>1 DEF CallSdk
  <2> QED BY <1>1, <2>1, <1>i, <1>p, ConstantsAssumption DEF CallSdk, Attempt, TypeOK, Stage, providerVars
<1>2. CASE RetryAttempt(c)
  BY <1>2, <1>i, <1>p, ConstantsAssumption, InputFields DEF RetryAttempt, Attempt, TypeOK, Stage, providerVars, Post
<1>3. CASE TimesOut(c)
  <2>1. "TimeoutError" \in Result
    BY DEF Result
  <2> QED BY <1>3, <1>i, <1>p, <2>1, SettleType DEF TimesOut, TypeOK, Stage, providerVars
<1>4. CASE NetworkFails(c)
  <2>1. "NetworkError" \in Result
    BY DEF Result
  <2> QED BY <1>4, <1>i, <1>p, <2>1, SettleType, ConstantsAssumption DEF NetworkFails, TypeOK, Stage, providerVars, Fault
<1>5. CASE HeadersArrive(c)
  BY <1>5, <1>i, <1>p DEF HeadersArrive, TypeOK, Stage, providerVars
<1>6. CASE BodyArrives(c)
  <2>1. PICK b \in BOOLEAN : Settle(c, ReadBody(resp[c], b)) /\ (UNCHANGED faults \/ Fault)
    BY <1>6 DEF BodyArrives
  <2>2. PICK r \in Result : r = ReadBody(resp[c], b)
    BY <1>6, ReadBodyType DEF BodyArrives, Stage
  <2> QED BY <1>6, <1>i, <1>p, <2>1, <2>2, SettleType, ConstantsAssumption DEF BodyArrives, TypeOK, Stage, providerVars, Fault
<1> QED BY <1>1, <1>2, <1>3, <1>4, <1>5, <1>6 DEF Client

(* A step of the server moves one handler on, to an answer or without one. *)
LEMMA ServerEffect ==
    ASSUME TypeInv, NEW c \in Call, NEW s \in {"release", "waiting", "record", "answered", "gone"},
           NEW a \in Response \cup {None}, NEW w \in {"none", "sent", "checked", "done"},
           UNCHANGED <<conn, clientVars, reply, providerVars>>,
           accepted' \subseteq Txn, faults' \in 0..MaxFaults,
           spc' = [spc EXCEPT ![c] = s], resp' = [resp EXCEPT ![c] = a],
           wire' = [wire EXCEPT ![c] = w],
           cpc[c] \notin {"idle", "reading"}, input[c] \in Input,
           s = "answered" => a \in Response, a # None => s = "answered",
           s \in {"release", "waiting", "record"} => input[c] \in Post,
           w = "checked" => wire[c] = "checked",
           s = "release" => w = "none", s \in {"waiting", "record"} => w # "none",
           s = "record" => reply[c] # None,
           w # "none" => input[c] \in Post,
           wire[c] # "none" => w = wire[c]
    PROVE  TypeInv'
<1>i. Input' = Input /\ Post' = Post
  BY DEF Input, Post, clientVars
<1> USE DEF clientVars, providerVars
<1>1. TypeOK'
  BY <1>i DEF TypeInv, TypeOK
<1>2. Stage(c)'
  BY <1>i DEF TypeInv, TypeOK, Stage
<1>3. ASSUME NEW d \in Call \ {c} PROVE Stage(d)'
  BY <1>i DEF TypeInv, TypeOK, Stage
<1> QED BY <1>1, <1>2, <1>3 DEF TypeInv

LEMMA AnswerTypes ==
    /\ "200" \in Response /\ "404" \in Response /\ "429" \in Response /\ "500" \in Response
    /\ "400" \in Response /\ "401" \in Response /\ "403" \in Response /\ "409" \in Response
    /\ "CAPABILITY_NOT_ALLOWED" \in Response /\ "POLICY_DENIED" \in Response
    /\ "SIGNING_UNAVAILABLE" \in Response /\ "EXECUTION_INTENT_UNAVAILABLE" \in Response
    /\ "CONNECTOR_NOT_REGISTERED" \in Response /\ "EXECUTION_OUTCOME_UNKNOWN" \in Response
    /\ "200 success" \in Response /\ "200 failure" \in Response
    /\ "EXECUTION_RECORD_INCOMPLETE" \in Response
BY DEF Response, NothingRan

(* What a step of the server is: an answer, a move without one, or the end *)
(* of a process.                                                           *)
LEMMA ServerActs ==
    ASSUME TypeInv, NEW c \in Call, Server(c) \/ ServerCrashes(c)
    PROVE  /\ UNCHANGED <<conn, clientVars, reply, providerVars>>
           /\ accepted' \subseteq Txn /\ faults' \in 0..MaxFaults
           /\ cpc[c] \notin {"idle", "reading"} /\ input[c] \in Input
           /\ \/ /\ \E a \in Response : Respond(c, a)
                 /\ wire' = wire /\ spc[c] \in {"arriving", "release", "waiting", "record"}
              \/ /\ spc' = [spc EXCEPT ![c] = "release"] /\ resp' = resp /\ wire' = wire
                 /\ spc[c] = "arriving" /\ input[c] \in Post
              \/ /\ spc' = [spc EXCEPT ![c] = "waiting"] /\ resp' = resp
                 /\ wire' = [wire EXCEPT ![c] = "sent"] /\ spc[c] = "release"
              \/ /\ spc' = [spc EXCEPT ![c] = "record"] /\ resp' = resp /\ wire' = wire
                 /\ spc[c] = "waiting" /\ reply[c] # None /\ AdapterAccepts(input[c], reply[c])
              \/ /\ spc' = [spc EXCEPT ![c] = "gone"] /\ resp' = resp /\ wire' = wire
                 /\ spc[c] \in {"arriving", "release", "waiting", "record"}
<1>1. CASE ServeGet(c)
  <2>1. \E a \in Response : Respond(c, a)
    BY <1>1, AnswerTypes DEF ServeGet
  <2> QED BY <1>1, <2>1 DEF ServeGet, TypeInv, TypeOK, Stage
<1>2. CASE AcceptExecute(c)
  <2>1. input[c] \in Post /\ input[c].txn \in Txn
    BY <1>2, InputFields DEF AcceptExecute, TypeInv, Stage, Post
  <2>2. CASE spc' = [spc EXCEPT ![c] = "release"] /\ resp' = resp
    BY <1>2, <2>1, <2>2 DEF AcceptExecute, TypeInv, TypeOK, Stage
  <2>3. CASE ~(spc' = [spc EXCEPT ![c] = "release"] /\ resp' = resp)
    <3>1. \E a \in Response : Respond(c, a)
      BY <1>2, <2>3, AnswerTypes DEF AcceptExecute
    <3> QED BY <1>2, <2>3, <3>1 DEF AcceptExecute, TypeInv, TypeOK, Stage
  <2> QED BY <2>2, <2>3
<1>3. CASE ReleaseAction(c)
  <2>2. CASE wire' = [wire EXCEPT ![c] = "sent"] /\ spc' = [spc EXCEPT ![c] = "waiting"] /\ resp' = resp
    BY <1>3, <2>2 DEF ReleaseAction, TypeInv, TypeOK, Stage
  <2>3. CASE ~(wire' = [wire EXCEPT ![c] = "sent"] /\ spc' = [spc EXCEPT ![c] = "waiting"] /\ resp' = resp)
    <3>1. \E a \in Response : Respond(c, a)
      BY <1>3, <2>3, AnswerTypes DEF ReleaseAction, OutcomeUnknown
    <3> QED BY <1>3, <2>3, <3>1 DEF ReleaseAction, TypeInv, TypeOK, Stage
  <2> QED BY <2>2, <2>3
<1>4. CASE AdapterReturns(c)
  <2>1. \/ /\ spc' = [spc EXCEPT ![c] = "record"] /\ resp' = resp /\ reply[c] # None
           /\ AdapterAccepts(input[c], reply[c])
        \/ \E a \in Response : Respond(c, a)
    BY <1>4, AnswerTypes DEF AdapterReturns, OutcomeUnknown
  <2> QED BY <1>4, <2>1 DEF AdapterReturns, TypeInv, TypeOK, Stage
<1>5. CASE AdapterTimesOut(c)
  <2>1. \E a \in Response : Respond(c, a)
    BY <1>5, AnswerTypes DEF AdapterTimesOut, OutcomeUnknown
  <2> QED BY <1>5, <2>1 DEF AdapterTimesOut, TypeInv, TypeOK, Stage
<1>6. CASE StoreRecord(c)
  <2>1. \E a \in Response : Respond(c, a)
    BY <1>6, AnswerTypes DEF StoreRecord
  <2>0. faults \in 0..MaxFaults /\ MaxFaults \in Nat
    BY ConstantsAssumption DEF TypeInv, TypeOK
  <2>3. faults' = faults \/ Fault
    BY <1>6, Zenon DEF StoreRecord
  <2>2. faults' \in 0..MaxFaults
    BY <2>3, <2>0 DEF Fault
  <2> QED BY <1>6, <2>1, <2>2 DEF StoreRecord, TypeInv, TypeOK, Stage
<1>7. CASE ServerCrashes(c)
  BY <1>7, ConstantsAssumption DEF ServerCrashes, Fault, TypeInv, TypeOK, Stage
<1> QED BY <1>1, <1>2, <1>3, <1>4, <1>5, <1>6, <1>7 DEF Server

LEMMA ServerType ==
    ASSUME TypeInv, NEW c \in Call, Server(c) \/ ServerCrashes(c)
    PROVE  TypeInv'
<1>0. wire \in [Call -> {"none", "sent", "checked", "done"}] /\ resp \in [Call -> Response \cup {None}]
  BY DEF TypeInv, TypeOK
<1>s. /\ spc[c] \in {"release", "waiting", "record"} => input[c] \in Post
      /\ spc[c] \in {"arriving", "release"} => wire[c] = "none"
      /\ spc[c] \in {"waiting", "record"} => wire[c] # "none"
      /\ spc[c] # "answered" => resp[c] = None
      /\ wire[c] # "none" => input[c] \in Post
  BY DEF TypeInv, Stage
<1>w. wire = [wire EXCEPT ![c] = wire[c]] /\ resp = [resp EXCEPT ![c] = resp[c]]
  BY <1>0
<1>1. CASE \E a \in Response : Respond(c, a) /\ wire' = wire
  <2>1. PICK a \in Response : Respond(c, a) /\ wire' = wire
    BY <1>1
  <2>2. PICK w \in {"none", "sent", "checked", "done"} : w = wire[c]
    BY <1>0
  <2> QED BY <1>s, <1>w, <2>1, <2>2, ServerActs, ServerEffect DEF Respond
<1>2. CASE ~\E a \in Response : Respond(c, a) /\ wire' = wire
  <2>2. PICK w \in {"none", "sent", "checked", "done"} : w = wire'[c] /\ wire' = [wire EXCEPT ![c] = w]
    BY <1>0, <1>w, <1>2, ServerActs
  <2>3. PICK s \in {"release", "waiting", "record", "gone"} : spc' = [spc EXCEPT ![c] = s]
    BY <1>2, ServerActs
  <2>4. spc[c] # "answered" /\ resp' = [resp EXCEPT ![c] = None]
    BY <1>2, <1>s, <1>w, ServerActs
  <2>5. TypeInv => spc \in [Call -> {"none", "arriving", "release", "waiting", "record", "answered", "gone"}]
    BY DEF TypeInv, TypeOK
  <2>6. /\ s \in {"release", "waiting", "record"} => input[c] \in Post
        /\ s = "release" => w = "none"
        /\ s \in {"waiting", "record"} => w # "none"
        /\ s = "record" => reply[c] # None
        /\ w # "none" => input[c] \in Post
        /\ wire[c] # "none" => w = wire[c]
        /\ w = "checked" => wire[c] = "checked"
    BY <1>0, <1>s, <1>2, <2>2, <2>3, <2>5, ServerActs, ZenonT(60)
  <2> QED BY <1>s, <2>2, <2>3, <2>4, <2>6, ServerActs, ServerEffect
<1> QED BY <1>1, <1>2

LEMMA RepliesType ==
    ASSUME TypeInv, NEW c \in Call, wire[c] \in {"sent", "checked"}, NEW s \in BOOLEAN, Replies(c, s)
    PROVE  /\ wire' = [wire EXCEPT ![c] = "done"]
           /\ reply' \in [Call -> Reply \cup {None}]
           /\ \A d \in Call \ {c} : reply'[d] = reply[d]
           /\ reply[c] = None
           /\ reply'[c] # None => reply'[c] = [status |-> "ok", success |-> s, echo |-> input[c].txn]
           /\ faults' \in 0..MaxFaults
BY InputFields, ConstantsAssumption DEF Replies, TypeInv, TypeOK, Stage, Reply, Fault

(* A step of the provider touches one request, which was sent. *)
LEMMA ProviderEffect ==
    ASSUME TypeInv, NEW c \in Call, wire[c] # "none",
           UNCHANGED <<conn, clientVars, spc, resp, accepted>>,
           wire' \in [Call -> {"none", "sent", "checked", "done"}], wire'[c] # "none",
           reply' \in [Call -> Reply \cup {None}],
           spare' \in [Call -> {"none", "there", "checked"}],
           \A d \in Call \ {c} : wire'[d] = wire[d] /\ reply'[d] = reply[d] /\ spare'[d] = spare[d],
           wire'[c] = "checked" => conn = "external",
           reply[c] # None => reply'[c] = reply[c],
           reply'[c] # None => wire'[c] = "done",
           keys' \subseteq Ref, paid' \in [Ref -> Nat], acted' \in [Txn -> Nat],
           stored' \subseteq Txn, ran' \subseteq Call, head' = head,
           merged' \in [sha : Sha, by : Call] \cup {None}, faults' \in 0..MaxFaults
    PROVE  TypeInv'
<1>i. Input' = Input /\ Post' = Post
  BY DEF Input, Post
<1> USE DEF clientVars
<1>1. TypeOK'
  BY <1>i DEF TypeInv, TypeOK
<1>2. Stage(c)'
  BY <1>i DEF TypeInv, TypeOK, Stage
<1>3. ASSUME NEW d \in Call \ {c} PROVE Stage(d)'
  BY <1>i DEF TypeInv, TypeOK, Stage
<1> QED BY <1>1, <1>2, <1>3 DEF TypeInv

LEMMA ProviderActs ==
    ASSUME TypeInv, NEW c \in Call, Provider(c)
    PROVE  /\ UNCHANGED <<conn, clientVars, spc, resp, accepted>>
           /\ wire[c] # "none" /\ input[c] \in Post /\ wire'[c] # "none"
           /\ wire' \in [Call -> {"none", "sent", "checked", "done"}]
           /\ reply' \in [Call -> Reply \cup {None}]
           /\ spare' \in [Call -> {"none", "there", "checked"}]
           /\ \A d \in Call \ {c} : wire'[d] = wire[d] /\ reply'[d] = reply[d] /\ spare'[d] = spare[d]
           /\ wire'[c] = "checked" => conn = "external"
           /\ reply[c] # None => reply'[c] = reply[c]
           /\ reply'[c] # None => wire'[c] = "done"
           /\ keys' \subseteq Ref /\ paid' \in [Ref -> Nat] /\ acted' \in [Txn -> Nat]
           /\ stored' \subseteq Txn /\ ran' \subseteq Call /\ head' = head
           /\ merged' \in [sha : Sha, by : Call] \cup {None} /\ faults' \in 0..MaxFaults
<1>0. /\ wire \in [Call -> {"none", "sent", "checked", "done"}]
      /\ reply \in [Call -> Reply \cup {None}]
      /\ spare \in [Call -> {"none", "there", "checked"}]
      /\ keys \subseteq Ref /\ paid \in [Ref -> Nat] /\ acted \in [Txn -> Nat]
      /\ stored \subseteq Txn /\ ran \subseteq Call /\ head \in Sha
      /\ merged \in [sha : Sha, by : Call] \cup {None} /\ faults \in 0..MaxFaults /\ MaxFaults \in Nat
  BY ConstantsAssumption DEF TypeInv, TypeOK
<1>1. wire[c] # "none"
  BY DEF Provider, PaytmPays, Misroute, GitHubMerges, ServicePerforms, ProviderRefuses,
         RequestLost, ReleaseRepeated, EndpointChecks, EndpointChecksRepeat, EndpointActs,
         EndpointActsRepeat, TypeInv, Stage
<1>2. input[c] \in Post /\ input[c].txn \in Txn /\ (conn = "paytm" => input[c].ref \in Ref)
  BY <1>1, InputFields DEF TypeInv, Stage
<1>3. (reply[c] # None => wire[c] = "done") /\ (wire[c] = "checked" => conn = "external")
  BY DEF TypeInv, Stage
<1> USE DEF clientVars, providerVars
<1>a. CASE PaytmPays(c)
  <2>1. keys' \subseteq Ref /\ paid' \in [Ref -> Nat]
    BY <1>a, <1>0, <1>2 DEF PaytmPays, DeriveRefId
  <2>2. Replies(c, TRUE) /\ wire[c] \in {"sent", "checked"}
    BY <1>a DEF PaytmPays
  <2>3. /\ wire' = [wire EXCEPT ![c] = "done"] /\ reply' \in [Call -> Reply \cup {None}]
        /\ \A d \in Call \ {c} : reply'[d] = reply[d]
        /\ faults' \in 0..MaxFaults /\ reply[c] = None
    BY <2>2, RepliesType
  <2> QED BY <1>a, <2>1, <2>3, <1>0, <1>1, <1>2 DEF PaytmPays
<1>b. CASE Misroute(c)
  <2>1. PICK t \in Txn :
          reply' = [reply EXCEPT ![c] = [status |-> "ok", success |-> TRUE, echo |-> t]]
    BY <1>b DEF Misroute
  <2>2. [status |-> "ok", success |-> TRUE, echo |-> t] \in Reply
    BY DEF Reply
  <2>3. faults' \in 0..MaxFaults
    BY <1>b, <1>0 DEF Misroute, Fault
  <2> QED BY <1>b, <2>1, <2>2, <2>3, <1>0, <1>1, <1>2, <1>3 DEF Misroute
<1>c. CASE GitHubMerges(c)
  BY <1>c, <1>0, <1>1, <1>2, <1>3, RepliesType DEF GitHubMerges
<1>d. CASE ServicePerforms(c)
  BY <1>d, <1>0, <1>1, <1>2, <1>3, RepliesType DEF ServicePerforms
<1>e. CASE ProviderRefuses(c)
  <2>1. PICK st \in {"ok", "error"} :
          reply' = [reply EXCEPT ![c] = [status |-> st, success |-> FALSE, echo |-> input[c].txn]]
    BY <1>e DEF ProviderRefuses
  <2> QED BY <1>e, <2>1, <1>0, <1>1, <1>2, <1>3 DEF ProviderRefuses, Reply
<1>f. CASE RequestLost(c)
  BY <1>f, <1>0, <1>1, <1>2, <1>3 DEF RequestLost, Fault
<1>g. CASE ReleaseRepeated(c)
  BY <1>g, <1>0, <1>1, <1>2, <1>3 DEF ReleaseRepeated, Fault
<1>h. CASE EndpointChecks(c)
  <2>1. CASE Replies(c, TRUE)
    BY <1>h, <2>1, <1>0, <1>1, <1>2, <1>3, RepliesType DEF EndpointChecks
  <2>2. CASE wire' = [wire EXCEPT ![c] = "checked"] /\ UNCHANGED <<reply, faults>>
    BY <1>h, <2>2, <1>0, <1>1, <1>2, <1>3 DEF EndpointChecks
  <2> QED BY <1>h, <2>1, <2>2 DEF EndpointChecks
<1>i. CASE EndpointChecksRepeat(c)
  BY <1>i, <1>0, <1>1, <1>2, <1>3 DEF EndpointChecksRepeat
<1>j. CASE EndpointActs(c)
  <2>1. acted' \in [Txn -> Nat] /\ stored' \subseteq Txn
    BY <1>j, <1>0, <1>2 DEF EndpointActs
  <2>2. Replies(c, TRUE) /\ wire[c] \in {"sent", "checked"}
    BY <1>j DEF EndpointActs
  <2>3. /\ wire' = [wire EXCEPT ![c] = "done"] /\ reply' \in [Call -> Reply \cup {None}]
        /\ \A d \in Call \ {c} : reply'[d] = reply[d]
        /\ faults' \in 0..MaxFaults /\ reply[c] = None
    BY <2>2, RepliesType
  <2> QED BY <1>j, <2>1, <2>3, <1>0, <1>1, <1>2 DEF EndpointActs
<1>k. CASE EndpointActsRepeat(c)
  BY <1>k, <1>0, <1>1, <1>2, <1>3 DEF EndpointActsRepeat
<1> QED BY <1>a, <1>b, <1>c, <1>d, <1>e, <1>f, <1>g, <1>h, <1>i, <1>j, <1>k DEF Provider

LEMMA ProviderTypeStep ==
    ASSUME TypeInv, NEW c \in Call, Provider(c)
    PROVE  TypeInv'
BY ProviderActs, ProviderEffect

LEMMA TypeStep == TypeInv /\ [Next]_vars => TypeInv'
<1> SUFFICES ASSUME TypeInv, [Next]_vars PROVE TypeInv'
  OBVIOUS
<1>1. CASE UNCHANGED vars
  BY <1>1 DEF TypeInv, TypeOK, Stage, vars, clientVars, providerVars, Input, Post
<1>2. CASE Push
  BY <1>2, ConstantsAssumption DEF Push, Fault, TypeInv, TypeOK, Stage, clientVars, Input, Post
<1> QED BY <1>1, <1>2, ClientType, ServerType, ProviderTypeStep DEF Next

LEMMA TypeAlways == Spec => []TypeInv
BY InitType, TypeStep, PTL DEF Spec

(***************************************************************************)
(* Every variable keeps its type.                                          *)
(***************************************************************************)
THEOREM DeliveryTypes == Spec => []TypeOK
<1>1. TypeInv => TypeOK
  BY DEF TypeInv
<1> QED BY <1>1, TypeAlways, PTL
---------------------------------------------------------------------------
(* What a step never takes back: what was asked, and what was performed. *)
LEMMA Lasting ==
    ASSUME TypeInv, [Next]_vars
    PROVE  /\ conn' = conn
           /\ \A c \in Call : cpc[c] # "idle" => input'[c] = input[c]
           /\ ran \subseteq ran' /\ stored \subseteq stored'
           /\ \A r \in Ref : paid[r] <= paid'[r]
           /\ \A t \in Txn : acted[t] <= acted'[t]
<1>0. paid \in [Ref -> Nat] /\ acted \in [Txn -> Nat] /\ input \in [Call -> Input \cup {None}]
  BY DEF TypeInv, TypeOK
<1>1. CASE UNCHANGED vars \/ Push
  BY <1>0, <1>1 DEF vars, clientVars, providerVars, Push
<1>2. ASSUME NEW c \in Call, Client(c)
      PROVE  UNCHANGED <<conn, providerVars>> /\ \A d \in Call : cpc[d] # "idle" => input'[d] = input[d]
  BY <1>0, <1>2 DEF Client, CallSdk, RetryAttempt, TimesOut, NetworkFails, HeadersArrive, BodyArrives
<1>3. ASSUME NEW c \in Call, Server(c) \/ ServerCrashes(c)
      PROVE  UNCHANGED <<conn, clientVars, providerVars>>
  BY <1>3, ServerActs
<1>4. ASSUME NEW c \in Call, Provider(c)
      PROVE  /\ UNCHANGED <<conn, clientVars>> /\ ran \subseteq ran' /\ stored \subseteq stored'
             /\ \A r \in Ref : paid[r] <= paid'[r]
             /\ \A t \in Txn : acted[t] <= acted'[t]
  <2>0. input[c] \in Post /\ UNCHANGED <<conn, clientVars>>
    BY <1>4, ProviderActs
  <2>1. input[c].txn \in Txn /\ (conn = "paytm" => input[c].ref \in Ref)
    BY <2>0, InputFields
  <2> USE DEF providerVars
  <2>2. CASE PaytmPays(c)
    BY <1>0, <2>0, <2>1, <2>2 DEF PaytmPays, DeriveRefId
  <2>3. CASE EndpointActs(c)
    BY <1>0, <2>0, <2>1, <2>3 DEF EndpointActs
  <2>4. CASE EndpointActsRepeat(c)
    BY <1>0, <2>0, <2>1, <2>4 DEF EndpointActsRepeat
  <2>5. CASE Misroute(c) \/ ProviderRefuses(c) \/ RequestLost(c) \/ EndpointChecks(c)
    <3>1. UNCHANGED <<ran, stored, paid, acted>>
      BY <2>5 DEF Misroute, ProviderRefuses, RequestLost, EndpointChecks
    <3> QED BY <1>0, <2>0, <3>1
  <2>6. CASE GitHubMerges(c) \/ ServicePerforms(c) \/ ReleaseRepeated(c) \/ EndpointChecksRepeat(c)
    <3>1. UNCHANGED <<stored, paid, acted>> /\ ran \subseteq ran'
      BY <2>6 DEF GitHubMerges, ServicePerforms, ReleaseRepeated, EndpointChecksRepeat
    <3> QED BY <1>0, <2>0, <3>1
  <2> QED BY <1>4, <2>2, <2>3, <2>4, <2>5, <2>6 DEF Provider
<1> QED BY <1>0, <1>1, <1>2, <1>3, <1>4 DEF Next, clientVars, providerVars

---------------------------------------------------------------------------
(* A refund was paid once for each refId the service knows. *)
PaidInv == \A r \in Ref : paid[r] = IF r \in keys THEN 1 ELSE 0

LEMMA PaidStep == TypeInv /\ PaidInv /\ [Next]_vars => PaidInv'
<1> SUFFICES ASSUME TypeInv, PaidInv, [Next]_vars PROVE PaidInv'
  OBVIOUS
<1>0. paid \in [Ref -> Nat]
  BY DEF TypeInv, TypeOK
<1>1. ASSUME NEW c \in Call, PaytmPays(c) PROVE PaidInv'
  <2>0. input[c] \in Post
    BY <1>1 DEF PaytmPays, TypeInv, Stage
  <2>1. input[c].ref \in Ref
    BY <1>1, <2>0, InputFields DEF PaytmPays
  <2> QED BY <1>0, <1>1, <2>1 DEF PaytmPays, DeriveRefId, PaidInv
<1>2. ASSUME NEW c \in Call, Provider(c), ~PaytmPays(c) PROVE UNCHANGED <<keys, paid>>
  BY <1>2 DEF Provider, Misroute, GitHubMerges, ServicePerforms, ProviderRefuses, RequestLost,
              ReleaseRepeated, EndpointChecks, EndpointChecksRepeat, EndpointActs,
              EndpointActsRepeat, providerVars
<1>3. ASSUME NEW c \in Call, Client(c) PROVE UNCHANGED <<keys, paid>>
  BY <1>3 DEF Client, CallSdk, RetryAttempt, TimesOut, NetworkFails, HeadersArrive, BodyArrives,
              providerVars
<1>4. ASSUME NEW c \in Call, Server(c) \/ ServerCrashes(c) PROVE UNCHANGED <<keys, paid>>
  BY <1>4, ServerActs DEF providerVars
<1>5. CASE UNCHANGED vars \/ Push
  BY <1>5 DEF vars, providerVars, Push, PaidInv
<1>6. CASE UNCHANGED <<keys, paid>>
  BY <1>6 DEF PaidInv
<1> QED BY <1>1, <1>2, <1>3, <1>4, <1>5, <1>6 DEF Next

LEMMA PaidAlways == Spec => []PaidInv
<1>1. Init => PaidInv
  BY DEF Init, PaidInv
<1> QED BY <1>1, PaidStep, TypeAlways, PTL DEF Spec

(***************************************************************************)
(* However often an application asks for a refund again under a new        *)
(* transaction, after whatever answer, Paytm pays it once: refId is a      *)
(* function of the refund (deriveDeterministicPaytmRefId).                 *)
(***************************************************************************)
THEOREM RefundIsPaidOnce == Spec => []RefundPaidOnce
<1>1. PaidInv => RefundPaidOnce
  BY DEF PaidInv, RefundPaidOnce
<1> QED BY <1>1, PaidAlways, PTL

---------------------------------------------------------------------------
(* One copy of one release is between the check and the answer, its        *)
(* transaction is not stored, and what is stored was done once.            *)
Checked(c) == wire[c] = "checked" \/ spare[c] = "checked"

ActInv ==
    /\ \A t \in Txn : acted[t] = IF t \in stored THEN 1 ELSE 0
    /\ \A c \in Call : Checked(c) => input[c].txn \notin stored
    /\ \A c, d \in Call : Checked(c) /\ Checked(d) => c = d
    /\ \A c \in Call : ~(wire[c] = "checked" /\ spare[c] = "checked")

LEMMA ActStep ==
    ASSUME Threaded = FALSE
    PROVE  TypeInv /\ ActInv /\ [Next]_vars => ActInv'
<1> SUFFICES ASSUME TypeInv, ActInv, [Next]_vars PROVE ActInv'
  OBVIOUS
<1>0. /\ acted \in [Txn -> Nat]
      /\ wire \in [Call -> {"none", "sent", "checked", "done"}]
      /\ spare \in [Call -> {"none", "there", "checked"}]
  BY DEF TypeInv, TypeOK
<1>k. \A c \in Call : Checked(c) => cpc[c] # "idle"
  BY DEF TypeInv, Stage, Checked
<1>1. ASSUME UNCHANGED <<wire, spare, acted, stored>> PROVE ActInv'
  BY <1>1, <1>k, Lasting DEF ActInv, Checked
<1>2. ASSUME NEW c \in Call, Client(c) PROVE UNCHANGED <<wire, spare, acted, stored>>
  BY <1>2 DEF Client, CallSdk, RetryAttempt, TimesOut, NetworkFails, HeadersArrive, BodyArrives,
              providerVars
<1>3. ASSUME NEW c \in Call, Server(c) \/ ServerCrashes(c) PROVE ActInv'
  <2>1. UNCHANGED <<input, spare, acted, stored>>
    BY <1>3, ServerActs DEF clientVars, providerVars
  <2>2. wire' = wire \/ wire' = [wire EXCEPT ![c] = "sent"]
    BY <1>3, ServerActs
  <2> QED BY <1>0, <2>1, <2>2 DEF ActInv, Checked
<1>4. ASSUME NEW c \in Call, Provider(c) PROVE ActInv'
  <2>0. input' = input /\ input[c] \in Post
    BY <1>4, ProviderActs DEF clientVars
  <2>t. input[c].txn \in Txn
    BY <2>0, InputFields
  <2>1. CASE EndpointActs(c)
    <3>1. wire' = [wire EXCEPT ![c] = "done"] /\ spare' = spare
      BY <2>1 DEF EndpointActs, Replies
    <3>2. \A d \in Call : ~Checked(d)'
      BY <1>0, <2>1, <3>1 DEF EndpointActs, ActInv, Checked
    <3>3. \A t \in Txn : acted'[t] = IF t \in stored' THEN 1 ELSE 0
      BY <1>0, <2>t, <2>1 DEF EndpointActs, ActInv, Checked
    <3> QED BY <3>2, <3>3 DEF ActInv, Checked
  <2>2. CASE EndpointActsRepeat(c)
    <3>2. \A d \in Call : ~Checked(d)'
      BY <1>0, <2>2 DEF EndpointActsRepeat, ActInv, Checked
    <3>3. \A t \in Txn : acted'[t] = IF t \in stored' THEN 1 ELSE 0
      BY <1>0, <2>t, <2>2 DEF EndpointActsRepeat, ActInv, Checked
    <3> QED BY <3>2, <3>3 DEF ActInv, Checked
  <2>3. CASE EndpointChecks(c)
    <3>1. /\ UNCHANGED <<spare, acted, stored>>
          /\ wire' = [wire EXCEPT ![c] = "done"]
             \/ /\ wire' = [wire EXCEPT ![c] = "checked"] /\ input[c].txn \notin stored
                /\ \A d \in Call : ~Checked(d)
      BY <2>3 DEF EndpointChecks, Replies, VerifyParmanaRelease, Free, Checked, providerVars
    <3> QED BY <1>0, <2>0, <3>1 DEF ActInv, Checked
  <2>4. CASE EndpointChecksRepeat(c)
    <3>1. /\ UNCHANGED <<wire, acted, stored>>
          /\ spare' = [spare EXCEPT ![c] = "checked"] /\ input[c].txn \notin stored
          /\ \A d \in Call : ~Checked(d)
      BY <2>4 DEF EndpointChecksRepeat, VerifyParmanaRelease, Free, Checked
    <3> QED BY <1>0, <2>0, <3>1 DEF ActInv, Checked
  <2>5. CASE ReleaseRepeated(c)
    BY <1>0, <2>0, <2>5 DEF ReleaseRepeated, ActInv, Checked
  <2>6. CASE Misroute(c) \/ ProviderRefuses(c) \/ RequestLost(c) \/ GitHubMerges(c)
             \/ ServicePerforms(c) \/ PaytmPays(c)
    <3>1. UNCHANGED <<spare, acted, stored>> /\ wire' = [wire EXCEPT ![c] = "done"]
      BY <2>6 DEF Misroute, ProviderRefuses, RequestLost, GitHubMerges, ServicePerforms, PaytmPays,
                  Replies, providerVars
    <3> QED BY <1>0, <2>0, <3>1 DEF ActInv, Checked
  <2> QED BY <1>4, <2>1, <2>2, <2>3, <2>4, <2>5, <2>6 DEF Provider
<1>5. CASE UNCHANGED vars \/ Push
  BY <1>1, <1>5 DEF vars, providerVars, Push
<1> QED BY <1>1, <1>2, <1>3, <1>4, <1>5 DEF Next

(***************************************************************************)
(* A release that reaches an endpoint twice is acted on once, when the     *)
(* endpoint takes one request at a time: between its question whether the  *)
(* release is already executed and the stored answer no other copy is      *)
(* looked at.                                                              *)
(***************************************************************************)
THEOREM EndpointActsAtMostOnce ==
    ASSUME Threaded = FALSE
    PROVE  Spec => []EndpointActsOnce
<1>1. Init => ActInv
  BY DEF Init, ActInv, Checked
<1>2. ActInv => EndpointActsOnce
  BY DEF ActInv, EndpointActsOnce
<1> QED BY <1>1, <1>2, ActStep, TypeAlways, PTL DEF Spec

---------------------------------------------------------------------------
(* What the provider's answer, the server's and the SDK's each imply. *)
Believed(c) == AdapterAccepts(input[c], reply[c])

Heard(c) ==
    /\ reply[c] # None /\ reply[c].success =>
          Done(c) \/ (conn \in {"paytm", "external"} /\ reply[c].echo # input[c].txn)
    /\ spc[c] = "record" => Believed(c)
    /\ resp[c] = "200 success" => wire[c] # "none" /\ Done(c)
    /\ resp[c] \in NothingRan => wire[c] = "none"
    /\ resp[c] = "EXECUTION_RECORD_INCOMPLETE" => wire[c] # "none"
    /\ result[c] = "record success" => wire[c] # "none" /\ Done(c)
    /\ result[c] \in SaysNothingRan => wire[c] = "none" /\ spc[c] = "gone"
    /\ result[c] = "EXECUTION_RECORD_INCOMPLETE" => wire[c] # "none"

AnswerInv ==
    /\ \A t \in stored : acted[t] > 0
    /\ \A c \in Call : Heard(c)

LEMMA ReadBodySays ==
    ASSUME NEW a \in Response, NEW b \in BOOLEAN
    PROVE  /\ ReadBody(a, b) = "record success" => a = "200 success"
           /\ ReadBody(a, b) \in SaysNothingRan => a \in NothingRan
           /\ ReadBody(a, b) = "EXECUTION_RECORD_INCOMPLETE" => a = "EXECUTION_RECORD_INCOMPLETE"
BY ZenonT(60) DEF ReadBody, WithoutBody, BuildHttpError, Response, NothingRan, SaysNothingRan

LEMMA NoneSaysNothing ==
    /\ None # "200 success" /\ None \notin NothingRan /\ None # "EXECUTION_RECORD_INCOMPLETE"
    /\ None # "record success" /\ None \notin SaysNothingRan
BY NoneAssumption DEF Response, NothingRan, Result, SaysNothingRan

(* What was performed for a call stays performed. *)
LEMMA DoneLasts ==
    ASSUME TypeInv, [Next]_vars, NEW c \in Call, cpc[c] # "idle", Done(c),
           input[c] \in Post
    PROVE  Done(c)'
<1>1. input[c].txn \in Txn /\ (conn = "paytm" => input[c].ref \in Ref)
  BY InputFields
<1>2. conn' = conn /\ input'[c] = input[c]
  BY Lasting
<1>3. paid \in [Ref -> Nat] /\ acted \in [Txn -> Nat]
  BY DEF TypeInv, TypeOK
<1>4. paid' \in [Ref -> Nat] /\ acted' \in [Txn -> Nat]
  BY TypeStep DEF TypeInv, TypeOK
<1>5. CASE conn = "paytm"
  BY <1>1, <1>2, <1>3, <1>4, <1>5, Lasting DEF Done
<1>6. CASE conn = "external"
  BY <1>1, <1>2, <1>3, <1>4, <1>6, Lasting DEF Done
<1>7. CASE conn \notin {"paytm", "external"}
  BY <1>2, <1>7, Lasting DEF Done
<1> QED BY <1>5, <1>6, <1>7

(* A call whose own state no step touches says what it said. *)
LEMMA HeardKept ==
    ASSUME TypeInv, [Next]_vars, NEW d \in Call, Heard(d),
           wire'[d] = wire[d], reply'[d] = reply[d], spc'[d] = spc[d], resp'[d] = resp[d],
           result'[d] = result[d]
    PROVE  Heard(d)'
<1>1. conn' = conn /\ (cpc[d] # "idle" => input'[d] = input[d])
  BY Lasting
<1>2. /\ wire[d] # "none" => input[d] \in Post /\ cpc[d] # "idle"
      /\ reply[d] # None => wire[d] # "none"
      /\ spc[d] = "record" => cpc[d] # "idle"
  BY DEF TypeInv, Stage
<1>3. wire[d] # "none" /\ Done(d) => Done(d)'
  BY <1>2, DoneLasts
<1>4. spc[d] = "record" => (Believed(d) <=> Believed(d)')
  BY <1>1, <1>2 DEF Believed, AdapterAccepts, PaytmAccepts, ExternalAccepts, SlackAccepts, StatusAccepts
<1> QED BY <1>1, <1>2, <1>3, <1>4 DEF Heard

LEMMA ClientHeard ==
    ASSUME TypeInv, [Next]_vars, NEW c \in Call, Heard(c), Client(c)
    PROVE  Heard(c)'
<1>0. /\ resp \in [Call -> Response \cup {None}] /\ result \in [Call -> Result \cup {None}]
      /\ spc \in [Call -> {"none", "arriving", "release", "waiting", "record", "answered", "gone"}]
  BY DEF TypeInv, TypeOK
<1>1. UNCHANGED <<wire, reply>>
  BY DEF Client, CallSdk, RetryAttempt, TimesOut, NetworkFails, HeadersArrive, BodyArrives
<1>2. /\ wire[c] # "none" => input[c] \in Post /\ cpc[c] # "idle"
      /\ reply[c] # None => wire[c] # "none"
      /\ spc[c] = "record" => cpc[c] # "idle"
      /\ result[c] # None => cpc[c] = "returned"
      /\ cpc[c] = "reading" => spc[c] = "answered" /\ resp[c] \in Response
  BY DEF TypeInv, Stage
<1>3. wire[c] # "none" /\ Done(c) => Done(c)'
  BY <1>2, DoneLasts
<1>4. conn' = conn /\ (cpc[c] # "idle" => input'[c] = input[c])
  BY Lasting
<1>5. spc[c] = "record" => (Believed(c) <=> Believed(c)')
  BY <1>1, <1>2, <1>4 DEF Believed, AdapterAccepts, PaytmAccepts, ExternalAccepts, SlackAccepts, StatusAccepts
<1>6. CASE CallSdk(c) \/ RetryAttempt(c)
  <2>1. resp'[c] = None /\ spc'[c] = "arriving" /\ result'[c] = None
    BY <1>0, <1>2, <1>6 DEF CallSdk, RetryAttempt, Attempt
  <2> QED BY <1>1, <1>2, <1>3, <1>4, <2>1, NoneSaysNothing DEF Heard
<1>7. CASE TimesOut(c) \/ NetworkFails(c)
  <2>1. result'[c] \in {None, "TimeoutError", "NetworkError"} /\ resp'[c] = resp[c]
    BY <1>0, <1>2, <1>7 DEF TimesOut, NetworkFails, Settle
  <2>2. spc'[c] \in {spc[c], "gone"}
    BY <1>0, <1>7 DEF TimesOut, NetworkFails
  <2>3. result'[c] # "record success" /\ result'[c] \notin SaysNothingRan
        /\ result'[c] # "EXECUTION_RECORD_INCOMPLETE"
    BY <2>1, NoneSaysNothing DEF SaysNothingRan
  <2> QED BY <1>1, <1>2, <1>3, <1>4, <1>5, <2>1, <2>2, <2>3 DEF Heard
<1>8. CASE HeadersArrive(c)
  BY <1>8, HeardKept DEF HeadersArrive
<1>9. CASE BodyArrives(c)
  <2>1. PICK b \in BOOLEAN : Settle(c, ReadBody(resp[c], b))
    BY <1>9 DEF BodyArrives
  <2>2. resp[c] \in Response /\ result[c] = None
    BY <1>2, <1>9 DEF BodyArrives
  <2>3. spc'[c] = "gone" /\ resp'[c] = None
    BY <1>0, <1>9 DEF BodyArrives
  <2>4. result'[c] \in {None, ReadBody(resp[c], b)}
    BY <1>0, <2>1, <2>2 DEF Settle
  <2>5. /\ result'[c] = "record success" => resp[c] = "200 success"
        /\ result'[c] \in SaysNothingRan => resp[c] \in NothingRan
        /\ result'[c] = "EXECUTION_RECORD_INCOMPLETE" => resp[c] = "EXECUTION_RECORD_INCOMPLETE"
    BY <2>2, <2>4, ReadBodySays, NoneSaysNothing
  <2> QED BY <1>1, <1>2, <1>3, <1>4, <2>3, <2>5, NoneSaysNothing DEF Heard
<1> QED BY <1>6, <1>7, <1>8, <1>9 DEF Client

LEMMA ServerHeard ==
    ASSUME TypeInv, [Next]_vars, NEW c \in Call, Heard(c), Server(c) \/ ServerCrashes(c)
    PROVE  Heard(c)'
<1>0. /\ resp \in [Call -> Response \cup {None}] /\ reply \in [Call -> Reply \cup {None}]
      /\ spc \in [Call -> {"none", "arriving", "release", "waiting", "record", "answered", "gone"}]
      /\ wire \in [Call -> {"none", "sent", "checked", "done"}] /\ conn \in Conn
  BY DEF TypeInv, TypeOK
<1>1. UNCHANGED <<conn, clientVars, reply, providerVars>> /\ cpc[c] # "idle"
  BY ServerActs
<1>2. /\ wire[c] # "none" => input[c] \in Post
      /\ reply[c] # None => wire[c] = "done"
      /\ spc[c] \in {"arriving", "release"} => wire[c] = "none"
      /\ spc[c] \in {"waiting", "record"} => wire[c] # "none"
      /\ spc[c] = "record" => reply[c] # None
      /\ resp[c] # None => spc[c] = "answered"
  BY DEF TypeInv, Stage
<1>3. Done(c)' <=> Done(c)
  BY <1>1 DEF Done, clientVars, providerVars
<1>4. Believed(c)' <=> Believed(c)
  BY <1>1 DEF Believed, AdapterAccepts, PaytmAccepts, ExternalAccepts, SlackAccepts, StatusAccepts, clientVars
<1>5. result[c] \notin SaysNothingRan /\ resp[c] = None
  BY <1>2, ServerActs, NoneSaysNothing DEF Heard
<1> USE DEF clientVars, providerVars
<1>a. ASSUME NEW a \in Response, Respond(c, a), wire' = wire,
             a = "200 success" => wire[c] # "none" /\ Done(c),
             a \in NothingRan => wire[c] = "none",
             a = "EXECUTION_RECORD_INCOMPLETE" => wire[c] # "none"
      PROVE  Heard(c)'
  <2>1. resp'[c] = a /\ spc'[c] = "answered"
    BY <1>0, <1>a DEF Respond
  <2> QED BY <1>1, <1>3, <1>5, <1>a, <2>1 DEF Heard
<1>b. ASSUME resp' = resp, wire'[c] = wire[c], spc'[c] \in {"release", "gone"} PROVE Heard(c)'
  BY <1>1, <1>3, <1>5, <1>b, NoneSaysNothing DEF Heard
<1>6. CASE ServeGet(c)
  <2>1. PICK a \in {"200", "404", "429", "500"} : Respond(c, a)
    BY <1>6 DEF ServeGet
  <2>2. a \in Response /\ a # "200 success" /\ a # "EXECUTION_RECORD_INCOMPLETE"
    BY AnswerTypes
  <2>3. wire[c] = "none" /\ wire' = wire
    BY <1>2, <1>6 DEF ServeGet
  <2> QED BY <1>a, <2>1, <2>2, <2>3
<1>7. CASE AcceptExecute(c)
  <2>1. wire[c] = "none" /\ wire' = wire
    BY <1>2, <1>7 DEF AcceptExecute
  <2>2. CASE spc' = [spc EXCEPT ![c] = "release"] /\ resp' = resp
    BY <1>0, <1>b, <2>1, <2>2
  <2>3. CASE ~(spc' = [spc EXCEPT ![c] = "release"] /\ resp' = resp)
    <3>1. PICK a \in {"400", "401", "403", "429", "CAPABILITY_NOT_ALLOWED", "409"} : Respond(c, a)
      BY <1>7, <2>3 DEF AcceptExecute
    <3>2. a \in Response /\ a # "200 success" /\ a # "EXECUTION_RECORD_INCOMPLETE"
      BY AnswerTypes
    <3> QED BY <1>a, <2>1, <3>1, <3>2
  <2> QED BY <2>2, <2>3
<1>8. CASE ReleaseAction(c)
  <2>1. wire[c] = "none"
    BY <1>2, <1>8 DEF ReleaseAction
  <2>2. CASE wire' = [wire EXCEPT ![c] = "sent"] /\ spc' = [spc EXCEPT ![c] = "waiting"] /\ resp' = resp
    <3>1. wire'[c] = "sent" /\ spc'[c] = "waiting"
      BY <1>0, <2>2
    <3> QED BY <1>1, <1>3, <1>5, <2>2, <3>1, NoneSaysNothing DEF Heard
  <2>3. CASE ~(wire' = [wire EXCEPT ![c] = "sent"] /\ spc' = [spc EXCEPT ![c] = "waiting"] /\ resp' = resp)
    <3>1. /\ wire' = wire
          /\ \E a \in {"404", "POLICY_DENIED", "SIGNING_UNAVAILABLE", "500",
                       "EXECUTION_INTENT_UNAVAILABLE", "CONNECTOR_NOT_REGISTERED",
                       "EXECUTION_OUTCOME_UNKNOWN"} : Respond(c, a)
      BY <1>8, <2>3 DEF ReleaseAction, OutcomeUnknown
    <3>2. PICK a \in {"404", "POLICY_DENIED", "SIGNING_UNAVAILABLE", "500",
                      "EXECUTION_INTENT_UNAVAILABLE", "CONNECTOR_NOT_REGISTERED",
                      "EXECUTION_OUTCOME_UNKNOWN"} : Respond(c, a)
      BY <3>1
    <3>3. a \in Response /\ a # "200 success" /\ a # "EXECUTION_RECORD_INCOMPLETE"
      BY AnswerTypes
    <3> QED BY <1>a, <2>1, <3>1, <3>2, <3>3
  <2> QED BY <2>2, <2>3
<1>u. "EXECUTION_OUTCOME_UNKNOWN" \in Response \ NothingRan
      /\ "EXECUTION_RECORD_INCOMPLETE" \in Response \ NothingRan
      /\ "200 success" \in Response \ NothingRan /\ "200 failure" \in Response \ NothingRan
  BY DEF Response, NothingRan
<1>9. CASE AdapterReturns(c)
  <2>1. wire' = wire
    BY <1>9 DEF AdapterReturns
  <2>2. CASE OutcomeUnknown(c)
    BY <1>a, <1>u, <2>1, <2>2 DEF OutcomeUnknown
  <2>3. CASE ~OutcomeUnknown(c)
    <3>1. spc'[c] = "record" /\ resp' = resp /\ Believed(c)
      BY <1>0, <1>9, <2>3 DEF AdapterReturns, Believed
    <3> QED BY <1>1, <1>3, <1>4, <1>5, <2>1, <3>1, NoneSaysNothing DEF Heard
  <2> QED BY <2>2, <2>3
<1>10. CASE AdapterTimesOut(c)
  BY <1>a, <1>u, <1>10 DEF AdapterTimesOut, OutcomeUnknown
<1>11. CASE StoreRecord(c)
  <2>1. wire' = wire /\ wire[c] # "none" /\ reply[c] # None /\ Believed(c)
    BY <1>2, <1>11 DEF StoreRecord, Heard
  <2>2. reply[c].success => Done(c)
    BY <2>1 DEF Heard, Believed, AdapterAccepts, PaytmAccepts, ExternalAccepts, SlackAccepts, StatusAccepts
  <2>3. PICK a \in {"200 success", "200 failure", "EXECUTION_RECORD_INCOMPLETE"} :
          Respond(c, a) /\ (a = "200 success" => reply[c].success)
    <3>1. CASE Respond(c, "EXECUTION_RECORD_INCOMPLETE")
      BY <3>1
    <3>2. CASE Respond(c, IF reply[c].success THEN "200 success" ELSE "200 failure")
      <4>1. CASE reply[c].success
        BY <3>2, <4>1
      <4>2. CASE ~reply[c].success
        BY <3>2, <4>2
      <4> QED BY <4>1, <4>2
    <3> QED BY <1>11, <3>1, <3>2, Zenon DEF StoreRecord
  <2> QED BY <1>a, <1>u, <2>1, <2>2, <2>3
<1>12. CASE ServerCrashes(c)
  BY <1>0, <1>b, <1>12 DEF ServerCrashes
<1> QED BY <1>6, <1>7, <1>8, <1>9, <1>10, <1>11, <1>12 DEF Server

LEMMA ProviderHeard ==
    ASSUME TypeInv, [Next]_vars, NEW c \in Call, Heard(c), Provider(c), PaidInv,
           \A t \in stored : acted[t] > 0
    PROVE  Heard(c)'
<1>0. /\ reply \in [Call -> Reply \cup {None}] /\ paid \in [Ref -> Nat] /\ acted \in [Txn -> Nat]
      /\ conn \in Conn
  BY DEF TypeInv, TypeOK
<1>1. /\ UNCHANGED <<conn, clientVars, spc, resp>> /\ input[c] \in Post
      /\ wire[c] # "none" /\ wire'[c] # "none"
      /\ reply[c] # None => reply'[c] = reply[c]
  BY ProviderActs
<1>2. /\ spc[c] = "record" => reply[c] # None
      /\ reply[c] # None => wire[c] = "done"
      /\ cpc[c] # "idle"
  BY <1>1 DEF TypeInv, Stage
<1>3. Done(c) => Done(c)'
  BY <1>1, <1>2, DoneLasts
<1>4. spc[c] = "record" => Believed(c)'
  BY <1>1, <1>2 DEF Heard, Believed, AdapterAccepts, PaytmAccepts, ExternalAccepts, SlackAccepts,
                    StatusAccepts, clientVars
<1>5. reply'[c] # None /\ reply'[c].success =>
        Done(c)' \/ (conn \in {"paytm", "external"} /\ reply'[c].echo # input[c].txn)
  <2>1. CASE reply'[c] = reply[c]
    BY <1>1, <1>3, <2>1 DEF Heard
  <2>2. CASE reply'[c] # reply[c]
    <3>0. input[c].txn \in Txn /\ (conn = "paytm" => input[c].ref \in Ref) /\ input' = input
      BY <1>1, InputFields DEF clientVars
    <3>1. CASE PaytmPays(c)
      BY <1>0, <1>1, <3>0, <3>1 DEF PaytmPays, DeriveRefId, PaidInv, Done
    <3>2. CASE Misroute(c)
      BY <1>0, <3>0, <3>2 DEF Misroute
    <3>3. CASE GitHubMerges(c) \/ ServicePerforms(c)
      BY <1>1, <3>3 DEF GitHubMerges, ServicePerforms, Done
    <3>4. CASE ProviderRefuses(c)
      BY <1>0, <3>4 DEF ProviderRefuses
    <3>5. CASE EndpointChecks(c)
      <4>1. conn = "external" /\ input[c].txn \in stored /\ acted' = acted
        BY <2>2, <3>5 DEF EndpointChecks, VerifyParmanaRelease, providerVars
      <4> QED BY <1>1, <3>0, <4>1 DEF Done
    <3>6. CASE EndpointActs(c)
      <4>1. acted'[input[c].txn] > 0
        BY <1>0, <3>0, <3>6 DEF EndpointActs
      <4>2. conn = "external"
        BY <3>6 DEF EndpointActs, TypeInv, Stage
      <4> QED BY <1>1, <3>0, <4>1, <4>2 DEF Done
    <3>7. CASE RequestLost(c) \/ ReleaseRepeated(c) \/ EndpointChecksRepeat(c) \/ EndpointActsRepeat(c)
      BY <2>2, <3>7 DEF RequestLost, ReleaseRepeated, EndpointChecksRepeat, EndpointActsRepeat
    <3> QED BY <3>1, <3>2, <3>3, <3>4, <3>5, <3>6, <3>7 DEF Provider
  <2> QED BY <2>1, <2>2
<1> QED BY <1>1, <1>3, <1>4, <1>5 DEF Heard, clientVars

LEMMA AnswerStep == TypeInv /\ PaidInv /\ AnswerInv /\ [Next]_vars => AnswerInv'
<1> SUFFICES ASSUME TypeInv, PaidInv, AnswerInv, [Next]_vars PROVE AnswerInv'
  OBVIOUS
<1>0. acted \in [Txn -> Nat] /\ stored \subseteq Txn
  BY DEF TypeInv, TypeOK
<1>1. \A t \in stored' : acted'[t] > 0
  <2>0. acted' \in [Txn -> Nat] /\ stored' \subseteq Txn
    BY TypeStep DEF TypeInv, TypeOK
  <2>1. ASSUME NEW c \in Call, EndpointActs(c) \/ EndpointActsRepeat(c)
        PROVE  \A t \in stored' : acted'[t] > 0
    <3>1. input[c] \in Post
      BY <2>1, ProviderActs DEF Provider
    <3>2. input[c].txn \in Txn
      BY <3>1, InputFields
    <3>3. /\ acted' = [acted EXCEPT ![input[c].txn] = @ + 1]
          /\ stored' = stored \cup {input[c].txn}
      BY <2>1 DEF EndpointActs, EndpointActsRepeat
    <3> QED BY <1>0, <3>2, <3>3 DEF AnswerInv
  <2>2. CASE \A c \in Call : ~EndpointActs(c) /\ ~EndpointActsRepeat(c)
    <3>0. ASSUME NEW c \in Call, Provider(c) PROVE stored' = stored
      BY <2>2, <3>0 DEF Provider, PaytmPays, Misroute, GitHubMerges, ServicePerforms,
            ProviderRefuses, RequestLost, ReleaseRepeated, EndpointChecks, EndpointChecksRepeat,
            providerVars
    <3>1. ASSUME NEW c \in Call, Client(c) PROVE stored' = stored
      BY <3>1 DEF Client, CallSdk, RetryAttempt, TimesOut, NetworkFails, HeadersArrive,
                  BodyArrives, providerVars
    <3>2. ASSUME NEW c \in Call, Server(c) \/ ServerCrashes(c) PROVE stored' = stored
      BY <3>2, ServerActs DEF providerVars
    <3>3. ASSUME UNCHANGED vars \/ Push PROVE stored' = stored
      BY <3>3 DEF vars, providerVars, Push
    <3>4. CASE stored' = stored
      BY <1>0, <2>0, <3>4, Lasting DEF AnswerInv
    <3> QED BY <3>0, <3>1, <3>2, <3>3, <3>4 DEF Next
  <2> QED BY <2>1, <2>2
<1>2. ASSUME NEW d \in Call PROVE Heard(d)'
  <2>0. Heard(d)
    BY DEF AnswerInv
  <2>1. CASE UNCHANGED vars \/ Push
    BY <2>0, <2>1, HeardKept DEF vars, clientVars, Push
  <2>2. ASSUME NEW c \in Call, c # d, Client(c) PROVE Heard(d)'
    <3>1. /\ wire' = wire /\ reply' = reply /\ spc'[d] = spc[d] /\ resp'[d] = resp[d]
          /\ result'[d] = result[d]
      BY <2>2, ZenonT(60) DEF Client, CallSdk, RetryAttempt, TimesOut, NetworkFails, HeadersArrive, BodyArrives,
                  Attempt, Settle, TypeInv, TypeOK
    <3> QED BY <2>0, <3>1, HeardKept
  <2>3. ASSUME NEW c \in Call, c # d, Server(c) \/ ServerCrashes(c) PROVE Heard(d)'
    <3>0. /\ wire \in [Call -> {"none", "sent", "checked", "done"}]
          /\ resp \in [Call -> Response \cup {None}]
          /\ spc \in [Call -> {"none", "arriving", "release", "waiting", "record", "answered", "gone"}]
      BY DEF TypeInv, TypeOK
    <3>1. /\ wire'[d] = wire[d] /\ spc'[d] = spc[d] /\ resp'[d] = resp[d]
      BY <2>3, <3>0, ServerActs DEF Respond
    <3>2. reply' = reply /\ result' = result
      BY <2>3, ServerActs DEF clientVars
    <3> QED BY <2>0, <3>1, <3>2, HeardKept
  <2>4. ASSUME NEW c \in Call, c # d, Provider(c) PROVE Heard(d)'
    BY <2>0, <2>4, ProviderActs, HeardKept DEF clientVars
  <2>5. CASE Client(d)
    BY <2>0, <2>5, ClientHeard
  <2>6. CASE Server(d) \/ ServerCrashes(d)
    BY <2>0, <2>6, ServerHeard
  <2>7. CASE Provider(d)
    BY <2>0, <2>7, ProviderHeard DEF AnswerInv
  <2> QED BY <2>1, <2>2, <2>3, <2>4, <2>5, <2>6, <2>7 DEF Next
<1> QED BY <1>1, <1>2 DEF AnswerInv

(***************************************************************************)
(* What the SDK tells an application is true, whatever was lost, late,     *)
(* misrouted or cut off on the way: a record that says success means the   *)
(* action was performed, a refusal that nothing was ever sent, and         *)
(* EXECUTION_RECORD_INCOMPLETE that something was (HttpTransport,          *)
(* buildHttpError, POST /execute and the adapters).                        *)
(***************************************************************************)
THEOREM AnswersAreTrue == Spec => []AnswerIsTrue
<1>1. Init => AnswerInv
  BY NoneSaysNothing, ZenonT(60) DEF Init, AnswerInv, Heard
<1>2. AnswerInv => AnswerIsTrue
  BY DEF AnswerInv, Heard, AnswerIsTrue
<1> QED BY <1>1, <1>2, AnswerStep, PaidAlways, TypeAlways, PTL DEF Spec
=============================================================================
