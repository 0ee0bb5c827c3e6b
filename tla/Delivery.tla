------------------------------ MODULE Delivery ------------------------------
(***************************************************************************)
(* One action from the application that asks for it to the system that     *)
(* performs it: the SDK's HTTP transport, POST /execute, the connector     *)
(* adapter in the gateway, and the provider or the operator's own endpoint *)
(* behind it.  Four parties, three networks: a request may be answered     *)
(* late or never, cut off in the middle, and (towards an endpoint) arrive  *)
(* twice.  The question is what an application may conclude from the       *)
(* answer the SDK gives it.                                                *)
(*                                                                         *)
(* The decision and the evidence have modules of their own (Decision,      *)
(* ExecutionIntents); here they are the ways POST /execute may end.        *)
(***************************************************************************)
EXTENDS Integers, FiniteSets

CONSTANTS
    Call,       \* calls of an SDK method
    Txn,        \* businessTransactionIds
    Ref,        \* refund references (Paytm), the application's own
    Sha,        \* heads of a pull request (GitHub)
    Conn,       \* the connectors to consider
    Threaded,   \* the endpoint handles requests that overlap
    MaxRetries, \* retryPolicy.maxAttempts
    MaxFaults,  \* lost, cut off, misrouted or repeated messages
    None

ASSUME ConstantsAssumption ==
    /\ Conn \subseteq {"paytm", "external", "github", "hubspot", "slack", "http"}
    /\ Threaded \in BOOLEAN
    /\ MaxRetries \in Nat /\ MaxFaults \in Nat
    /\ None \notin Call \cup Txn \cup Ref \cup Sha

VARIABLES
    conn,       \* the connector that serves the capability asked for
    input,      \* Call -> what the application asked for
    cpc,        \* Call -> where the SDK's send is
    tries,      \* Call -> attempts made
    result,     \* Call -> what the SDK returned or threw
    spc,        \* Call -> where the server's handler is
    resp,       \* Call -> the server's answer
    accepted,   \* transactions the server has a row for
    wire,       \* Call -> the adapter's request, as the provider sees it
    reply,      \* Call -> the provider's answer, as the adapter sees it
    spare,      \* Call -> a second copy of the release: none, there, checked
    keys,       \* the refIds Paytm has paid for
    paid,       \* Ref -> how often that refund was paid
    acted,      \* Txn -> how often the endpoint acted
    stored,     \* transactions whose answer the endpoint has stored
    ran,        \* calls whose action the provider performed
    head,       \* the pull request's head
    merged,     \* the head that was merged, and the call that merged it
    faults

clientVars   == <<input, cpc, tries, result>>
providerVars == <<spare, keys, paid, acted, stored, ran, head, merged>>
vars == <<conn, clientVars, spc, resp, accepted, wire, reply, providerVars, faults>>

(* A GET, or execute() with what the connector at hand looks at; flaw is a *)
(* mistake of the caller's that an adapter may look for before it sends.   *)
Get == [method |-> "GET", txn |-> None, ref |-> None, sha |-> None, flaw |-> "none"]
Input == {Get} \cup
    [method : {"POST"}, txn : Txn, ref : IF conn = "paytm" THEN Ref ELSE {None},
     sha : IF conn = "github" THEN Sha \cup {None} ELSE {None},
     flaw : {"none", "extraKey", "missing"}
            \cup IF conn = "slack" THEN {"otherChannel"} ELSE {}
            \cup IF conn = "github" THEN {"badMethod"} ELSE {}]

(* The answers: status, and code or evidence.success where there is one. *)
NothingRan == {"400", "401", "403", "404", "409", "429", "POLICY_DENIED",
               "CAPABILITY_NOT_ALLOWED", "SIGNING_UNAVAILABLE",
               "EXECUTION_INTENT_UNAVAILABLE", "CONNECTOR_NOT_REGISTERED"}
Response == NothingRan \cup {"200 success", "200 failure", "200", "500",
             "EXECUTION_OUTCOME_UNKNOWN", "EXECUTION_RECORD_INCOMPLETE"}

(* What a client sees: a return value, an error class, or the error class  *)
(* InternalServerError with the server's code.                             *)
Result == {"record success", "record failure", "no body", "TimeoutError",
           "NetworkError", "ValidationError", "AuthenticationError",
           "AuthorizationError", "NotFoundError", "ConflictError",
           "RateLimitError", "ExecutionRejectedError", "InternalServerError",
           "SIGNING_UNAVAILABLE", "EXECUTION_INTENT_UNAVAILABLE",
           "CONNECTOR_NOT_REGISTERED", "EXECUTION_OUTCOME_UNKNOWN",
           "EXECUTION_RECORD_INCOMPLETE"}

ASSUME NoneAssumption == None \notin Response \cup Result

Reply == [status : {"ok", "error"}, success : BOOLEAN, echo : Txn]

TypeOK ==
    /\ conn \in Conn
    /\ input \in [Call -> Input \cup {None}]
    /\ cpc \in [Call -> {"idle", "waiting", "reading", "backoff", "returned"}]
    /\ tries \in [Call -> 0..(MaxRetries + 1)]
    /\ result \in [Call -> Result \cup {None}]
    /\ spc \in [Call -> {"none", "arriving", "release", "waiting", "record",
                         "answered", "gone"}]
    /\ resp \in [Call -> Response \cup {None}]
    /\ accepted \subseteq Txn
    /\ wire \in [Call -> {"none", "sent", "checked", "done"}]
    /\ reply \in [Call -> Reply \cup {None}]
    /\ spare \in [Call -> {"none", "there", "checked"}]
    /\ keys \subseteq Ref
    /\ paid \in [Ref -> Nat]
    /\ acted \in [Txn -> Nat]
    /\ stored \subseteq Txn
    /\ ran \subseteq Call
    /\ head \in Sha
    /\ merged \in [sha : Sha, by : Call] \cup {None}
    /\ faults \in 0..MaxFaults

Init ==
    /\ conn \in Conn
    /\ input = [c \in Call |-> None]
    /\ cpc = [c \in Call |-> "idle"]
    /\ tries = [c \in Call |-> 0]
    /\ result = [c \in Call |-> None]
    /\ spc = [c \in Call |-> "none"]
    /\ resp = [c \in Call |-> None]
    /\ accepted = {}
    /\ wire = [c \in Call |-> "none"]
    /\ reply = [c \in Call |-> None]
    /\ spare = [c \in Call |-> "none"]
    /\ keys = {}
    /\ paid = [r \in Ref |-> 0]
    /\ acted = [t \in Txn |-> 0]
    /\ stored = {}
    /\ ran = {}
    /\ head \in Sha
    /\ merged = None
    /\ faults = 0

Fault == faults < MaxFaults /\ faults' = faults + 1

---------------------------------------------------------------------------
(* The SDK: HttpTransport of the TypeScript SDK.  The Python transport     *)
(* repeats only a GET, too, but not after a 500.                           *)

(* buildHttpError: an answer of 400 or more becomes an error. *)
BuildHttpError(answer) ==
    CASE answer = "POLICY_DENIED" -> "ExecutionRejectedError"
      [] answer = "CAPABILITY_NOT_ALLOWED" -> "AuthorizationError"
      [] answer = "400" -> "ValidationError"
      [] answer = "401" -> "AuthenticationError"
      [] answer = "403" -> "AuthorizationError"
      [] answer = "404" -> "NotFoundError"
      [] answer = "409" -> "ConflictError"
      [] answer = "429" -> "RateLimitError"
      [] answer = "500" -> "InternalServerError"
      [] OTHER -> answer

(* The status alone, when the body could not be read: its code is gone. *)
WithoutBody(answer) ==
    CASE answer \in {"POLICY_DENIED", "CAPABILITY_NOT_ALLOWED"} -> "403"
      [] answer \in {"400", "401", "403", "404", "409", "429", "500"} -> answer
      [] answer \in {"200 success", "200 failure", "200"} -> "200"
      [] OTHER -> "500"

(* attempt: the value send returns, or the error it throws. *)
ReadBody(answer, readable) ==
    LET a == IF readable THEN answer ELSE WithoutBody(answer) IN
    CASE a = "200 success" -> "record success"
      [] a = "200 failure" -> "record failure"
      [] a = "200" -> "no body"
      [] OTHER -> BuildHttpError(a)

IsRetryableFailure(r) ==
    r \notin {"record success", "record failure", "no body", "ValidationError",
              "AuthenticationError", "AuthorizationError", "NotFoundError",
              "ConflictError", "ExecutionRejectedError"}

(* Faulty variant: every method is retried. *)
ResolveRetryPolicy_AnyMethod(method) == MaxRetries

(* resolveRetryPolicy: how many times an attempt may be repeated. *)
ResolveRetryPolicy(method) == IF method = "GET" THEN MaxRetries ELSE 0

(* The catch of send: repeat the attempt after a delay, or give up. *)
Settle(c, r) ==
    IF IsRetryableFailure(r) /\ tries[c] <= ResolveRetryPolicy(input[c].method)
    THEN cpc' = [cpc EXCEPT ![c] = "backoff"] /\ UNCHANGED result
    ELSE /\ cpc' = [cpc EXCEPT ![c] = "returned"]
         /\ result' = [result EXCEPT ![c] = r]

Attempt(c) ==
    /\ cpc' = [cpc EXCEPT ![c] = "waiting"]
    /\ tries' = [tries EXCEPT ![c] = @ + 1]
    /\ spc' = [spc EXCEPT ![c] = "arriving"]
    /\ resp' = [resp EXCEPT ![c] = None]

(* An application calls the SDK: a GET, or execute() for a transaction of  *)
(* its own or one it already sent.                                         *)
CallSdk(c) ==
    /\ cpc[c] = "idle"
    /\ \E i \in Input : input' = [input EXCEPT ![c] = i]
    /\ Attempt(c)
    /\ UNCHANGED <<conn, result, accepted, wire, reply, providerVars, faults>>

(* After the delay.  An earlier attempt the server is still working on     *)
(* would go on beside this one; GET handlers change nothing, so only the   *)
(* last one is kept.                                                       *)
RetryAttempt(c) ==
    /\ cpc[c] = "backoff"
    /\ Attempt(c)
    /\ UNCHANGED <<conn, input, result, accepted, wire, reply, providerVars, faults>>

(* The abort signal fires before any headers arrived. *)
TimesOut(c) ==
    /\ cpc[c] = "waiting"
    /\ Settle(c, "TimeoutError")
    /\ UNCHANGED <<conn, input, tries, spc, resp, accepted, wire, reply,
                   providerVars, faults>>

(* Refused, reset or unresolved: the request may or may not have arrived,  *)
(* and the server goes on with it if it did.                               *)
NetworkFails(c) ==
    /\ cpc[c] = "waiting" /\ Fault
    /\ Settle(c, "NetworkError")
    /\ \/ UNCHANGED spc
       \/ spc[c] = "arriving" /\ spc' = [spc EXCEPT ![c] = "gone"]
    /\ UNCHANGED <<conn, input, tries, resp, accepted, wire, reply, providerVars>>

(* fetch resolves with the headers; the timer is cleared here. *)
HeadersArrive(c) ==
    /\ cpc[c] = "waiting" /\ spc[c] = "answered"
    /\ cpc' = [cpc EXCEPT ![c] = "reading"]
    /\ UNCHANGED <<conn, input, tries, result, spc, resp, accepted, wire, reply,
                   providerVars, faults>>

BodyArrives(c) ==
    /\ cpc[c] = "reading"
    /\ \/ Settle(c, ReadBody(resp[c], TRUE)) /\ UNCHANGED faults
       \/ Settle(c, ReadBody(resp[c], FALSE)) /\ Fault
    /\ spc' = [spc EXCEPT ![c] = "gone"]
    /\ resp' = [resp EXCEPT ![c] = None]
    /\ UNCHANGED <<conn, input, tries, accepted, wire, reply, providerVars>>

---------------------------------------------------------------------------
(* The server: POST /execute and the error handler.                        *)

Respond(c, answer) ==
    /\ spc' = [spc EXCEPT ![c] = "answered"]
    /\ resp' = [resp EXCEPT ![c] = answer]

ServeGet(c) ==
    /\ spc[c] = "arriving" /\ input[c].method = "GET"
    /\ \E a \in {"200", "404", "429", "500"} : Respond(c, a)
    /\ UNCHANGED <<conn, clientVars, accepted, wire, reply, providerVars, faults>>

(* Caller authentication, rate limit, body and principal checks refuse; a  *)
(* transaction that has a row is a duplicate; else it is accepted.         *)
AcceptExecute(c) ==
    /\ spc[c] = "arriving" /\ input[c].method = "POST"
    /\ \/ /\ \E a \in {"400", "401", "403", "429", "CAPABILITY_NOT_ALLOWED"} :
                 Respond(c, a)
          /\ UNCHANGED accepted
       \/ input[c].txn \in accepted /\ Respond(c, "409") /\ UNCHANGED accepted
       \/ /\ input[c].txn \notin accepted
          /\ accepted' = accepted \cup {input[c].txn}
          /\ spc' = [spc EXCEPT ![c] = "release"]
          /\ UNCHANGED resp
    /\ UNCHANGED <<conn, clientVars, wire, reply, providerVars, faults>>

(* What each adapter refuses before it sends anything. *)
PaytmRefuses(i)    == i.flaw \in {"extraKey", "missing"}
HubSpotRefuses(i)  == i.flaw \in {"extraKey", "missing"}
GitHubRefuses(i)   == i.flaw \in {"badMethod", "missing"}
SlackRefuses(i)    == i.flaw \in {"extraKey", "missing", "otherChannel"}
ExternalRefuses(i) == i.flaw = "extraKey"
AdapterRefuses(i) ==
    \/ conn = "paytm" /\ PaytmRefuses(i)
    \/ conn = "hubspot" /\ HubSpotRefuses(i)
    \/ conn = "github" /\ GitHubRefuses(i)
    \/ conn = "slack" /\ SlackRefuses(i)
    \/ conn = "external" /\ ExternalRefuses(i)

(* outcomeUnknown: an error from the release with no type of its own. *)
OutcomeUnknown(c) == Respond(c, "EXECUTION_OUTCOME_UNKNOWN")

(* Decide, sign and store the intent, look the connector up, and send.     *)
(* Typed errors up to here keep their own answer; an adapter that refuses  *)
(* the request throws a plain Error, which is an unknown outcome.          *)
ReleaseAction(c) ==
    /\ spc[c] = "release"
    /\ \/ /\ \E a \in {"404", "POLICY_DENIED", "SIGNING_UNAVAILABLE", "500",
                       "EXECUTION_INTENT_UNAVAILABLE",
                       "CONNECTOR_NOT_REGISTERED"} : Respond(c, a)
          /\ UNCHANGED wire
       \/ AdapterRefuses(input[c]) /\ OutcomeUnknown(c) /\ UNCHANGED wire
       \/ /\ ~AdapterRefuses(input[c])
          /\ wire' = [wire EXCEPT ![c] = "sent"]
          /\ spc' = [spc EXCEPT ![c] = "waiting"]
          /\ UNCHANGED resp
    /\ UNCHANGED <<conn, clientVars, accepted, reply, providerVars, faults>>

(* What each adapter takes for the answer to its request.  Slack answers   *)
(* 200 to a refused post; HubSpot, GitHub and HTTP are believed on the     *)
(* status alone; the Paytm service and an endpoint must echo the request.  *)
PaytmAccepts(i, r)    == r.status = "ok" /\ r.echo = i.txn
ExternalAccepts(i, r) == r.status = "ok" /\ r.echo = i.txn
SlackAccepts(i, r)    == r.status = "ok" /\ r.success
StatusAccepts(i, r)   == r.status = "ok"
AdapterAccepts(i, r) ==
    \/ conn = "paytm" /\ PaytmAccepts(i, r)
    \/ conn = "external" /\ ExternalAccepts(i, r)
    \/ conn = "slack" /\ SlackAccepts(i, r)
    \/ conn \in {"github", "hubspot", "http"} /\ StatusAccepts(i, r)

(* The adapter's answer arrives, or its timer fires first: the timer runs  *)
(* until the body is read.                                                 *)
AdapterReturns(c) ==
    /\ spc[c] = "waiting"
    /\ \/ /\ reply[c] # None /\ AdapterAccepts(input[c], reply[c])
          /\ spc' = [spc EXCEPT ![c] = "record"]
          /\ UNCHANGED resp
       \/ /\ reply[c] # None /\ ~AdapterAccepts(input[c], reply[c])
          /\ OutcomeUnknown(c)
    /\ UNCHANGED <<conn, clientVars, accepted, wire, reply, providerVars, faults>>

(* Faulty variant: the timer is cleared once the request is sent. *)
AdapterTimesOut_Cleared(c) == FALSE /\ UNCHANGED vars

AdapterTimesOut(c) ==
    /\ spc[c] = "waiting"
    /\ OutcomeUnknown(c)
    /\ UNCHANGED <<conn, clientVars, accepted, wire, reply, providerVars, faults>>

(* Build and store the record; the evidence carries the adapter's success. *)
StoreRecord(c) ==
    /\ spc[c] = "record"
    /\ \/ /\ Respond(c, IF reply[c].success THEN "200 success" ELSE "200 failure")
          /\ UNCHANGED faults
       \/ Respond(c, "EXECUTION_RECORD_INCOMPLETE") /\ Fault
    /\ UNCHANGED <<conn, clientVars, accepted, wire, reply, providerVars>>

ServerCrashes(c) ==
    /\ spc[c] \in {"arriving", "release", "waiting", "record"} /\ Fault
    /\ spc' = [spc EXCEPT ![c] = "gone"]
    /\ UNCHANGED <<conn, clientVars, resp, accepted, wire, reply, providerVars>>

---------------------------------------------------------------------------
(* The providers.  They act on a request whenever it arrives, which may be *)
(* after the adapter stopped waiting.                                      *)

(* Faulty variant: a refId per Parmana transaction. *)
DeriveRefId_PerTransaction(i) == i.txn

(* deriveDeterministicPaytmRefId: one order and payment here, so the id is *)
(* the reference's.                                                        *)
DeriveRefId(i) == i.ref

Replies(c, success) ==
    /\ wire' = [wire EXCEPT ![c] = "done"]
    /\ \/ /\ reply' = [reply EXCEPT ![c] = [status |-> "ok", success |-> success,
                                            echo |-> input[c].txn]]
          /\ UNCHANGED faults
       \/ UNCHANGED reply /\ Fault                         \* the answer is lost

(* The Paytm service pays once per refId and repeats its answer (external). *)
PaytmPays(c) ==
    /\ conn = "paytm" /\ wire[c] = "sent"
    /\ keys' = keys \cup {DeriveRefId(input[c])}
    /\ paid' = IF DeriveRefId(input[c]) \in keys THEN paid
               ELSE [paid EXCEPT ![input[c].ref] = @ + 1]
    /\ Replies(c, TRUE)
    /\ UNCHANGED <<conn, clientVars, spc, resp, accepted, spare, acted, stored,
                   ran, head, merged>>

(* A service that answers one request with another's answer. *)
Misroute(c) ==
    /\ conn \in {"paytm", "external"} /\ wire[c] = "sent" /\ Fault
    /\ \E t \in Txn \ {input[c].txn} :
           reply' = [reply EXCEPT ![c] = [status |-> "ok", success |-> TRUE, echo |-> t]]
    /\ wire' = [wire EXCEPT ![c] = "done"]
    /\ UNCHANGED <<conn, clientVars, spc, resp, accepted, providerVars>>

(* mergePullRequest: expectedHeadSha is sent only when the caller set it;  *)
(* GitHub refuses to merge another head.                                   *)
ExpectedSha(i) == i.sha

GitHubMerges(c) ==
    /\ conn = "github" /\ wire[c] = "sent" /\ merged = None
    /\ ExpectedSha(input[c]) \in {None, head}
    /\ merged' = [sha |-> head, by |-> c]
    /\ ran' = ran \cup {c}
    /\ Replies(c, TRUE)
    /\ UNCHANGED <<conn, clientVars, spc, resp, accepted, spare, keys, paid, acted,
                   stored, head>>

(* The author pushes to the pull request. *)
Push ==
    /\ conn = "github" /\ merged = None /\ Fault
    /\ \E s \in Sha \ {head} : head' = s
    /\ UNCHANGED <<conn, clientVars, spc, resp, accepted, wire, reply, spare, keys,
                   paid, acted, stored, ran, merged>>

(* HubSpot, Slack and an HTTP service perform what they are asked. *)
ServicePerforms(c) ==
    /\ conn \in {"hubspot", "slack", "http"} /\ wire[c] = "sent"
    /\ ran' = ran \cup {c}
    /\ Replies(c, TRUE)
    /\ UNCHANGED <<conn, clientVars, spc, resp, accepted, spare, keys, paid, acted,
                   stored, head, merged>>

(* A provider refuses: an error status, or (Slack, the Paytm service and   *)
(* an endpoint) a 200 that says it did not succeed.                        *)
ProviderRefuses(c) ==
    /\ wire[c] = "sent"
    /\ \E st \in {"error"} \cup IF conn \in {"slack", "paytm", "external"}
                                THEN {"ok"} ELSE {} :
           reply' = [reply EXCEPT ![c] = [status |-> st, success |-> FALSE,
                                          echo |-> input[c].txn]]
    /\ wire' = [wire EXCEPT ![c] = "done"]
    /\ UNCHANGED <<conn, clientVars, spc, resp, accepted, providerVars, faults>>

RequestLost(c) ==
    /\ wire[c] = "sent" /\ Fault
    /\ wire' = [wire EXCEPT ![c] = "done"]
    /\ UNCHANGED <<conn, clientVars, spc, resp, accepted, reply, providerVars>>

(* The same release arrives at the endpoint once more. *)
ReleaseRepeated(c) ==
    /\ conn = "external" /\ wire[c] # "none" /\ spare[c] = "none" /\ Fault
    /\ spare' = [spare EXCEPT ![c] = "there"]
    /\ UNCHANGED <<conn, clientVars, spc, resp, accepted, wire, reply, keys, paid,
                   acted, stored, ran, head, merged>>

(* Faulty variant: isAlreadyExecuted is not asked. *)
VerifyParmanaRelease_NoMemory(c) == FALSE

(* verifyParmanaRelease, for a genuine release made for this endpoint: is  *)
(* it already executed?  A release that is too old is ProviderRefuses.     *)
VerifyParmanaRelease(c) == input[c].txn \in stored

(* An endpoint that takes one request at a time starts none while it acts. *)
Free == Threaded \/ \A d \in Call : wire[d] # "checked" /\ spare[d] # "checked"

(* The endpoint's handler up to its await of act, for the first copy and   *)
(* for the second: a release already executed gets its first answer.       *)
EndpointChecks(c) ==
    /\ conn = "external" /\ wire[c] = "sent" /\ Free
    /\ \/ VerifyParmanaRelease(c) /\ Replies(c, TRUE)
       \/ /\ ~VerifyParmanaRelease(c)
          /\ wire' = [wire EXCEPT ![c] = "checked"]
          /\ UNCHANGED <<reply, faults>>
    /\ UNCHANGED <<conn, clientVars, spc, resp, accepted, providerVars>>

EndpointChecksRepeat(c) ==
    /\ spare[c] = "there" /\ Free
    /\ ~VerifyParmanaRelease(c)
    /\ spare' = [spare EXCEPT ![c] = "checked"]
    /\ UNCHANGED <<conn, clientVars, spc, resp, accepted, wire, reply, keys, paid,
                   acted, stored, ran, head, merged, faults>>

(* act, and the answer stored after it. *)
EndpointActs(c) ==
    /\ wire[c] = "checked"
    /\ acted' = [acted EXCEPT ![input[c].txn] = @ + 1]
    /\ stored' = stored \cup {input[c].txn}
    /\ Replies(c, TRUE)
    /\ UNCHANGED <<conn, clientVars, spc, resp, accepted, spare, keys, paid, ran,
                   head, merged>>

EndpointActsRepeat(c) ==
    /\ spare[c] = "checked"
    /\ acted' = [acted EXCEPT ![input[c].txn] = @ + 1]
    /\ stored' = stored \cup {input[c].txn}
    /\ spare' = [spare EXCEPT ![c] = "none"]
    /\ UNCHANGED <<conn, clientVars, spc, resp, accepted, wire, reply, keys, paid,
                   ran, head, merged, faults>>

---------------------------------------------------------------------------
Client(c) == CallSdk(c) \/ RetryAttempt(c) \/ TimesOut(c) \/ NetworkFails(c)
             \/ HeadersArrive(c) \/ BodyArrives(c)
Server(c) == ServeGet(c) \/ AcceptExecute(c) \/ ReleaseAction(c)
             \/ AdapterReturns(c) \/ AdapterTimesOut(c) \/ StoreRecord(c)
Provider(c) == PaytmPays(c) \/ Misroute(c) \/ GitHubMerges(c) \/ ServicePerforms(c)
               \/ ProviderRefuses(c) \/ RequestLost(c) \/ ReleaseRepeated(c)
               \/ EndpointChecks(c) \/ EndpointChecksRepeat(c) \/ EndpointActs(c)
               \/ EndpointActsRepeat(c)

Next == Push \/ \E c \in Call : Client(c) \/ Server(c) \/ Provider(c) \/ ServerCrashes(c)

(* The event loop runs the server's handlers and fires its timers, and the *)
(* SDK's.  Nothing is assumed of a provider, nor of the rest of a body     *)
(* whose headers arrived.                                                  *)
Fairness == \A c \in Call :
    /\ WF_vars(Server(c))
    /\ WF_vars(TimesOut(c) \/ HeadersArrive(c) \/ RetryAttempt(c))

Spec == Init /\ [][Next]_vars /\ Fairness

---------------------------------------------------------------------------
(* Whether the action the call asked for was performed. *)
Done(c) ==
    CASE conn = "paytm" -> paid[input[c].ref] > 0
      [] conn = "external" -> acted[input[c].txn] > 0
      [] OTHER -> c \in ran

(* What an application may conclude (the response reference of the agent   *)
(* guide, through buildHttpError): a record whose evidence says success    *)
(* means the action was performed; an error that is a refusal, a conflict, *)
(* a rate limit or a 503 means this call released nothing and never will;  *)
(* EXECUTION_RECORD_INCOMPLETE means it was released.                      *)
SaysNothingRan == {"ValidationError", "AuthenticationError", "AuthorizationError",
                   "NotFoundError", "ConflictError", "RateLimitError",
                   "ExecutionRejectedError", "SIGNING_UNAVAILABLE",
                   "EXECUTION_INTENT_UNAVAILABLE", "CONNECTOR_NOT_REGISTERED"}
AnswerIsTrue ==
    \A c \in Call : input[c] # None =>
        /\ result[c] = "record success" => Done(c)
        /\ result[c] \in SaysNothingRan => wire[c] = "none"
        /\ result[c] = "EXECUTION_RECORD_INCOMPLETE" => wire[c] # "none"

(* An application that got no clear answer and asks for the same refund    *)
(* again, under a new transaction, pays it once (refId is a function of    *)
(* the refund, not of the transaction).                                    *)
RefundPaidOnce == \A r \in Ref : paid[r] <= 1

(* A release that reaches an endpoint twice is acted on once: the second   *)
(* copy is answered from the first one's answer (the endpoint handler of   *)
(* the examples, around verifyParmanaRelease).                             *)
EndpointActsOnce == \A t \in Txn : acted[t] <= 1

(* A request the server has taken is answered, even when the provider      *)
(* never is heard of: the adapter's timer runs until the body is read.     *)
HandlerEnds ==
    \A c \in Call : spc[c] = "waiting" ~> spc[c] \in {"answered", "gone"}

=============================================================================
