------------------------------ MODULE FrontDoor ------------------------------
(***************************************************************************)
(* What a request meets on its way to the runtime, on a fleet of API       *)
(* machines over one Postgres: body parsing, caller authentication, the    *)
(* signed and chained caller audit trail, the per caller rate limit, the   *)
(* caller's principal and capability, the signing readiness probe, and the *)
(* shutdown of the machine it runs on.  The decision and the release that  *)
(* follow are in Decision, ExecutionGateway and Delivery; here a request   *)
(* that passes readiness is executed in one step.                          *)
(*                                                                         *)
(* Between two awaits nothing else runs on that machine, so an action is   *)
(* the code between two awaits.  A database call fails, a key goes away    *)
(* and an audit row is lost within the budget MaxFaults.                   *)
(***************************************************************************)
EXTENDS Naturals, Sequences, FiniteSets, SequencesExt

CONSTANTS
    Req,        \* requests
    Caller,     \* callers that hold an API key
    Machine,    \* API processes
    None,       \* no caller, no link, no holder
    Limit,      \* RATE_LIMIT_EXECUTE_PER_MINUTE
    Window,     \* the limiter's window, in ticks
    TTL,        \* how long a successful readiness probe is trusted, in ticks
    MaxTime,    \* bound on the clock
    MaxFaults   \* bound on failed calls, key outages and lost rows

ASSUME FrontDoorAssumption ==
    /\ Limit \in Nat \ {0} /\ Window \in Nat \ {0} /\ TTL \in Nat \ {0}
    /\ MaxTime \in Nat /\ MaxFaults \in Nat
    /\ IsFiniteSet(Req)
    /\ None \notin Req \cup Caller \cup Machine \cup Nat

VARIABLES
    pc,         \* where each request is
    req,        \* what each request is: machine, caller, route, kind
    due,        \* the audit event each request is recording
    snap,       \* the last link each request read
    answer,     \* the HTTP status each request was answered with
    lock,       \* per caller advisory lock: the request that holds it
    audit,      \* caller_audit_events, in id order
    count,      \* rate_limit_counters: hits and reset time per store and caller
    now, key,   \* the clock; whether the signing key answers
    healthyUntil, probe,   \* CachedSigningReadiness, per machine
    mach,       \* up, draining, or exited
    faults,
    \* History: events committed, admissions, what let a request through, and
    \* the hashes of the rows that were lost.
    wrote, admitted, proof, lost

vars == <<pc, req, due, snap, answer, lock, audit, count, now, key,
          healthyUntil, probe, mach, faults, wrote, admitted, proof, lost>>
-----------------------------------------------------------------------------
Routes == {"execute", "transactions"}

(* What the body asks for.  Only an "ok" request is executed. *)
Kinds == {"ok", "badId", "badPrincipal", "badCapability", "duplicate"}

(* The event a refusal is recorded as and the status it is answered with. *)
Refusal(kind) ==
    CASE kind = "badId"         -> [ev |-> "structural_rejected", status |-> 400]
      [] kind = "badPrincipal"  -> [ev |-> "principal_denied",    status |-> 403]
      [] kind = "badCapability" -> [ev |-> "capability_denied",   status |-> 403]
      [] kind = "duplicate"     -> [ev |-> "structural_rejected", status |-> 409]

DB == "db"

Store == {DB} \cup Machine

(* createRateLimitStore: with DATABASE_URL the counters are in Postgres. *)
StoreOf_Memory(m) == m

StoreOf(m) == DB

NoProbe == [state |-> "none", good |-> None]

InFlight(r) == pc[r] \notin {"idle", "done", "cut"}

Legacy(c) == [caller |-> c, prev |-> None, pos |-> None, hash |-> None]

(* The caller's rows, by id, and the one before position n: before the     *)
(* first there is no link.                                                 *)
RowsOf(c) == {i \in DOMAIN audit : audit[i].caller = c}

Before(c, n) == {i \in RowsOf(c) : i < n}

LinkBefore(c, n) == IF Before(c, n) = {} THEN Legacy(c) ELSE audit[Max(Before(c, n))]

Events == {"rejected", "authenticated", "structural_rejected", "principal_denied",
           "capability_denied", "capability_granted"}

(* A hash stands for the signed content it is made from: an event of one   *)
(* request.                                                                *)
Hash == Req \X Events

ASSUME HashAssumption == None \notin Hash

(* An event being recorded, and what follows once it is stored. *)
Due == [ev : Events, then : {"done", "limit", "route", "ready"},
        status : {None, 400, 401, 403, 409}]

Row == [caller : Caller \cup {None}, prev : Hash \cup {None},
        pos : Nat \cup {None}, hash : Hash \cup {None}]

TypeOK ==
    /\ pc \in [Req -> {"idle", "record", "read", "insert", "single", "limit", "route",
                       "ready", "await", "release", "done", "cut"}]
    /\ req \in [Req -> [m : Machine \cup {None}, c : Caller \cup {None},
                        route : Routes, kind : Kinds]]
    /\ due \in [Req -> Due \cup {None}]
    /\ snap \in [Req -> Row \cup {None}]
    /\ audit \in Seq(Row)
    /\ answer \in [Req -> {None, 200, 400, 401, 403, 409, 429, 500, 503}]
    /\ lock \in [Caller -> Req \cup {None}]
    /\ count \in [Store \X Caller -> [hits : Nat, reset : Nat]]
    /\ now \in 0..MaxTime /\ key \in BOOLEAN /\ faults \in 0..MaxFaults
    /\ healthyUntil \in [Machine -> Nat]
    /\ probe \in [Machine -> [state : {"none", "sent", "signed", "failed"},
                            good : Nat \cup {None}]]
    /\ mach \in [Machine -> {"up", "draining", "exited"}]
    /\ wrote \subseteq Hash
    /\ admitted \in [Req -> Nat \cup {None}]
    /\ proof \in [Req -> [at : Nat, good : Nat \cup {None}] \cup {None}]
    /\ lost \subseteq Hash

Init ==
    /\ pc = [r \in Req |-> "idle"]
    /\ req = [r \in Req |-> [m |-> None, c |-> None, route |-> "execute", kind |-> "ok"]]
    /\ due = [r \in Req |-> None]
    /\ snap = [r \in Req |-> None]
    /\ answer = [r \in Req |-> None]
    /\ lock = [c \in Caller |-> None]
    \* A caller may have rows from before rows were chained.
    /\ audit \in {<<>>} \cup {<<Legacy(c)>> : c \in Caller}
    /\ count = [k \in Store \X Caller |-> [hits |-> 0, reset |-> 0]]
    /\ now = 0 /\ key = TRUE /\ faults = 0
    /\ healthyUntil = [m \in Machine |-> 0]
    /\ probe = [m \in Machine |-> NoProbe]
    /\ mach = [m \in Machine |-> "up"]
    /\ wrote = {} /\ admitted = [r \in Req |-> None]
    /\ proof = [r \in Req |-> None]
    /\ lost = {}
-----------------------------------------------------------------------------
Fault == faults < MaxFaults /\ faults' = faults + 1

Goto(r, label) == pc' = [pc EXCEPT ![r] = label]

Reply(r, status) == Goto(r, "done") /\ answer' = [answer EXCEPT ![r] = status]

(* Start recording an event: without a caller it is one insert, not chained. *)
Recording(r, c, ev, then, status) ==
    /\ due' = [due EXCEPT ![r] = [ev |-> ev, then |-> then, status |-> status]]
    /\ Goto(r, IF c = None THEN "single" ELSE "record")

requestState == <<snap, lock, audit, wrote>>
limiterState == <<count, admitted>>
signingState == <<key, healthyUntil, probe, proof>>
serverState  == <<now, mach, lost>>

(***************************************************************************)
(* A request reaches a machine that still accepts connections, its body    *)
(* parses, and the caller-auth middleware looks up its key and starts to   *)
(* record the outcome.                                                     *)
(***************************************************************************)
Authenticate(r) ==
    /\ pc[r] = "idle"
    /\ \E m \in Machine, c \in Caller \cup {None}, rt \in Routes, k \in Kinds :
          /\ mach[m] = "up"
          /\ req' = [req EXCEPT ![r] = [m |-> m, c |-> c, route |-> rt, kind |-> k]]
          /\ IF c = None
             THEN Recording(r, c, "rejected", "done", 401)
             ELSE Recording(r, c, "authenticated",
                            IF rt = "execute" THEN "limit" ELSE "route", None)
    /\ UNCHANGED <<answer, faults, requestState, limiterState, signingState, serverState>>

(* express.json() fails: answered at once, recorded on a best effort basis. *)
RejectBody(r) ==
    /\ pc[r] = "idle"
    /\ \E m \in Machine :
          /\ mach[m] = "up"
          /\ req' = [req EXCEPT ![r].m = m]
    /\ Reply(r, 400)
    /\ \/ /\ audit' = Append(audit, Legacy(None))
          /\ wrote' = wrote \cup {<<r, "structural_rejected">>}
          /\ UNCHANGED faults
       \/ Fault /\ UNCHANGED <<audit, wrote>>
    /\ UNCHANGED <<due, snap, lock, limiterState, signingState, serverState>>
-----------------------------------------------------------------------------
(***************************************************************************)
(* SupabaseCallerAuditSink.record.  BEGIN and the caller's advisory lock;  *)
(* the caller's last row; sign, insert and COMMIT, which frees the lock.   *)
(***************************************************************************)
RecordBegin_Unlocked(r) ==
    /\ pc[r] = "record"
    /\ Goto(r, "read")
    /\ UNCHANGED <<req, due, answer, faults, requestState, limiterState, signingState, serverState>>

RecordBegin(r) ==
    /\ pc[r] = "record"
    /\ lock[req[r].c] = None
    /\ lock' = [lock EXCEPT ![req[r].c] = r]
    /\ Goto(r, "read")
    /\ UNCHANGED <<req, due, answer, faults, snap, audit, wrote, limiterState, signingState, serverState>>

RecordRead(r) ==
    /\ pc[r] = "read"
    /\ snap' = [snap EXCEPT ![r] = LinkBefore(req[r].c, Len(audit) + 1)]
    /\ Goto(r, "insert")
    /\ UNCHANGED <<req, due, answer, faults, lock, audit, wrote, limiterState, signingState, serverState>>

NextPosition(link) == IF link.pos = None THEN 1 ELSE link.pos + 1

Release(r) == lock' = [c \in Caller |-> IF lock[c] = r THEN None ELSE lock[c]]

(* What the middleware or the route does once its event is stored. *)
Recorded(r) ==
    /\ Goto(r, due[r].then)
    /\ answer' = [answer EXCEPT ![r] = due[r].status]
    /\ wrote' = wrote \cup {<<r, due[r].ev>>}
    /\ due' = [due EXCEPT ![r] = None]
    /\ snap' = [snap EXCEPT ![r] = None]

RecordInsert(r) ==
    /\ pc[r] = "insert"
    /\ audit' = Append(audit, [caller |-> req[r].c, prev |-> snap[r].hash,
                               pos |-> NextPosition(snap[r]), hash |-> <<r, due[r].ev>>])
    /\ Release(r)
    /\ Recorded(r)
    /\ UNCHANGED <<req, faults, limiterState, signingState, serverState>>

RecordSingle(r) ==
    /\ pc[r] = "single"
    /\ audit' = Append(audit, Legacy(None))
    /\ Recorded(r)
    /\ UNCHANGED <<req, lock, faults, limiterState, signingState, serverState>>

(* A statement fails: ROLLBACK frees the lock, and recordCallerAuditEvent   *)
(* answers 503 AUDIT_UNAVAILABLE instead of going on.                      *)
RecordFails_Swallowed(r) ==
    /\ pc[r] \in {"record", "read", "insert", "single"}
    /\ Fault
    /\ Release(r)
    /\ Goto(r, due[r].then) /\ answer' = [answer EXCEPT ![r] = due[r].status]
    /\ UNCHANGED <<req, due, snap, audit, wrote, limiterState, signingState, serverState>>

RecordFails_NoRollback(r) ==
    /\ pc[r] \in {"record", "read", "insert", "single"}
    /\ Fault
    /\ Reply(r, 503)
    /\ UNCHANGED <<req, due, snap, lock, audit, wrote, limiterState, signingState, serverState>>

RecordFails(r) ==
    /\ pc[r] \in {"record", "read", "insert", "single"}
    /\ Fault
    /\ Release(r)
    /\ Reply(r, 503)
    /\ UNCHANGED <<req, due, snap, audit, wrote, limiterState, signingState, serverState>>
-----------------------------------------------------------------------------
(* The upsert of PostgresRateLimitStore: it counts, or opens a new window. *)
Increment(k) ==
    IF count[k].reset <= now THEN [hits |-> 1, reset |-> now + Window]
    ELSE [count[k] EXCEPT !.hits = @ + 1]

(* The limiter of POST /execute.  POST /transactions has none. *)
LimitRate(r) ==
    /\ pc[r] = "limit"
    /\ LET k == <<StoreOf(req[r].m), req[r].c>>
           row == Increment(k)
       IN  /\ count' = [count EXCEPT ![k] = row]
           /\ IF row.hits > Limit
              THEN Reply(r, 429) /\ UNCHANGED admitted
              ELSE /\ Goto(r, "route")
                   /\ admitted' = [admitted EXCEPT ![r] = row.reset]
                   /\ UNCHANGED answer
    /\ UNCHANGED <<req, due, faults, requestState, signingState, serverState>>

LimitFails(r) ==
    /\ pc[r] = "limit"
    /\ Fault
    /\ Reply(r, 500)
    /\ UNCHANGED <<req, due, requestState, limiterState, signingState, serverState>>
-----------------------------------------------------------------------------
(* The route: refuse and record, or record the capability that is granted. *)
Admit(r) ==
    /\ pc[r] = "route"
    /\ LET k == req[r].kind IN
       IF k \in {"badId", "badPrincipal", "badCapability"}
       THEN Recording(r, req[r].c, Refusal(k).ev, "done", Refusal(k).status)
       ELSE Recording(r, req[r].c, "capability_granted", "ready", None)
    /\ UNCHANGED <<req, answer, faults, requestState, limiterState, signingState, serverState>>

(* application.execute refuses a transaction id it has already accepted, and *)
(* the route's catch block records that before it answers.                  *)
RefuseDuplicate(r) ==
    /\ pc[r] = "ready" /\ req[r].kind = "duplicate"
    /\ Recording(r, req[r].c, Refusal("duplicate").ev, "done", Refusal("duplicate").status)
    /\ UNCHANGED <<req, answer, faults, requestState, limiterState, signingState, serverState>>

(***************************************************************************)
(* CachedSigningReadiness.assertReady: trust a recent success, otherwise   *)
(* share the probe in flight or start one.                                 *)
(***************************************************************************)
AssertReady(r) ==
    /\ pc[r] = "ready" /\ req[r].kind = "ok"
    /\ LET m == req[r].m IN
       IF now < healthyUntil[m]
       THEN /\ Goto(r, "release")
            /\ proof' = [proof EXCEPT ![r] = [at |-> now, good |-> probe[m].good]]
            /\ UNCHANGED probe
       ELSE /\ Goto(r, "await")
            /\ probe' = IF probe[m].state = "none"
                        THEN [probe EXCEPT ![m].state = "sent"] ELSE probe
            /\ UNCHANGED proof
    /\ UNCHANGED <<req, due, answer, faults, key, healthyUntil, requestState, limiterState, serverState>>

(* probeSigning: the key signs the probe and it verifies, or it fails. *)
ProbeSigns(m) ==
    /\ probe[m].state = "sent"
    /\ probe' = [probe EXCEPT ![m].state = IF key THEN "signed" ELSE "failed"]
    /\ UNCHANGED <<pc, req, due, answer, faults, key, healthyUntil, proof, requestState, limiterState, serverState>>

(* then and finally of the shared promise, and every request that awaits it. *)
(* good is history: when a probe last ended well.                           *)
Settle(m, ok) ==
    LET signed == probe[m].state = "signed"
        good == IF signed THEN now ELSE probe[m].good
        waiting == {r \in Req : pc[r] = "await" /\ req[r].m = m}
    IN  /\ probe[m].state \in {"signed", "failed"}
        /\ healthyUntil' = [healthyUntil EXCEPT ![m] = IF signed THEN now + TTL ELSE @]
        /\ probe' = [probe EXCEPT ![m] = [state |-> "none", good |-> good]]
        /\ pc' = [r \in Req |-> IF r \in waiting THEN IF ok THEN "release" ELSE "done" ELSE pc[r]]
        /\ answer' = [r \in Req |-> IF r \in waiting /\ ~ok THEN 503 ELSE answer[r]]
        /\ proof' = [r \in Req |-> IF r \in waiting /\ ok
                                   THEN [at |-> now, good |-> good] ELSE proof[r]]
        /\ UNCHANGED <<req, due, faults, key, requestState, limiterState, serverState>>

ProbeSettles_Swallowed(m) == Settle(m, TRUE)

ProbeSettles(m) == Settle(m, probe[m].state = "signed")

Execute(r) ==
    /\ pc[r] = "release"
    /\ Reply(r, 200)
    /\ UNCHANGED <<req, due, faults, requestState, limiterState, signingState, serverState>>
-----------------------------------------------------------------------------
(* SIGTERM: no new connections.  A second signal does nothing. *)
Shutdown(m) ==
    /\ mach[m] = "up"
    /\ mach' = [mach EXCEPT ![m] = "draining"]
    /\ UNCHANGED <<pc, req, due, answer, faults, now, lost, requestState, limiterState, signingState>>

(* The server has closed: no request is in flight. *)
ExitDrained(m) ==
    /\ mach[m] = "draining"
    /\ \A r \in Req : req[r].m = m => ~InFlight(r)
    /\ mach' = [mach EXCEPT ![m] = "exited"]
    /\ UNCHANGED <<pc, req, due, answer, faults, now, lost, requestState, limiterState, signingState>>

(* The timer runs out: the process exits with requests in flight.  Postgres *)
(* rolls back what its connections had open.                               *)
ExitForced(m) ==
    LET cut == {r \in Req : req[r].m = m /\ InFlight(r)} IN
    /\ mach[m] = "draining"
    /\ cut # {}
    /\ mach' = [mach EXCEPT ![m] = "exited"]
    /\ pc' = [r \in Req |-> IF r \in cut THEN "cut" ELSE pc[r]]
    /\ lock' = [c \in Caller |-> IF lock[c] \in cut THEN None ELSE lock[c]]
    /\ probe' = [probe EXCEPT ![m] = NoProbe]
    /\ UNCHANGED <<req, due, snap, answer, faults, audit, wrote, now, lost, limiterState,
                   key, healthyUntil, proof>>
-----------------------------------------------------------------------------
(* The environment. *)
Tick ==
    /\ now < MaxTime
    /\ now' = now + 1
    /\ UNCHANGED <<pc, req, due, answer, faults, mach, lost, requestState, limiterState, signingState>>

(* The key is disabled or KMS is out of reach, and comes back. *)
KeyChanges ==
    /\ IF key THEN Fault ELSE UNCHANGED faults
    /\ key' = ~key
    /\ UNCHANGED <<pc, req, due, answer, healthyUntil, probe, proof, requestState, limiterState, serverState>>

(* One stored row of a caller goes missing. *)
RowLost ==
    /\ Fault
    /\ \E i \in DOMAIN audit :
          /\ audit[i].hash # None
          /\ audit' = RemoveAt(audit, i)
          /\ lost' = lost \cup {audit[i].hash}
    /\ UNCHANGED <<pc, req, due, snap, answer, lock, wrote, now, mach, limiterState, signingState>>
-----------------------------------------------------------------------------
Step(r) ==
    \/ RecordBegin(r) \/ RecordRead(r) \/ RecordInsert(r) \/ RecordSingle(r)
    \/ LimitRate(r) \/ Admit(r) \/ RefuseDuplicate(r) \/ AssertReady(r) \/ Execute(r)

Process(m) == ProbeSigns(m) \/ ProbeSettles(m) \/ ExitDrained(m) \/ ExitForced(m)

Next ==
    \/ \E r \in Req : Authenticate(r) \/ RejectBody(r) \/ Step(r) \/ RecordFails(r) \/ LimitFails(r)
    \/ \E m \in Machine : Process(m) \/ Shutdown(m)
    \/ Tick \/ KeyChanges \/ RowLost

Spec == Init /\ [][Next]_vars

(* The event loop runs what is ready, the database and the key service answer *)
(* or fail, and the shutdown timer fires.                                     *)
FairSpec ==
    /\ Spec
    /\ \A r \in Req : WF_vars(Step(r))
    /\ \A m \in Machine : WF_vars(Process(m))
-----------------------------------------------------------------------------
(* CallerAuditChainVerifier.verifyChain over one caller's rows. *)
VerifyChain(c) ==
    \A i \in RowsOf(c) :
        audit[i].hash # None => audit[i].prev = LinkBefore(c, i).hash

(***************************************************************************)
(* A caller's audit trail tells the truth about itself.  However requests  *)
(* of one caller interleave on several machines, fail half way or are cut  *)
(* off by a shutdown, the rows they leave verify as one chain (two writers *)
(* never link to the same row); and the chain fails to verify exactly as   *)
(* long as a row remains that links to one that is gone, however many were *)
(* lost and when.  SupabaseCallerAuditSink.record and                      *)
(* CallerAuditChainVerifier.verifyChain.                                   *)
(***************************************************************************)
ChainTellsLoss ==
    \A c \in Caller :
        VerifyChain(c) <=> \A i \in RowsOf(c) : audit[i].hash # None => audit[i].prev \notin lost

(***************************************************************************)
(* No answer without its record: a denial, a refusal or an execution is    *)
(* answered only when the events that record it are stored, whichever      *)
(* database call fails on the way.  recordCallerAuditEvent and its call    *)
(* sites in caller-auth.ts, execute.ts and transactions.ts.                *)
(***************************************************************************)
AnsweredIsAudited ==
    \A r \in Req :
        /\ answer[r] = 401 => <<r, "rejected">> \in wrote
        /\ answer[r] \in {200, 403, 409, 429} => <<r, "authenticated">> \in wrote
        /\ answer[r] = 200 => <<r, "capability_granted">> \in wrote
        /\ answer[r] \in {403, 409} => <<r, Refusal(req[r].kind).ev>> \in wrote

(***************************************************************************)
(* With DATABASE_URL set, the whole fleet lets at most Limit requests of a *)
(* caller through POST /execute in one window, also when the window rolls  *)
(* over between two machines' counts.  PostgresRateLimitStore.increment    *)
(* and createRateLimitStore.                                               *)
(***************************************************************************)
AdmittedWithinLimit ==
    \A c \in Caller, w \in 1..(MaxTime + Window) :
        Cardinality({r \in Req : req[r].c = c /\ admitted[r] = w}) <= Limit

(***************************************************************************)
(* A request is released only on a signature the key really made: a probe  *)
(* of its machine was signed, verified, and ended well less than TTL       *)
(* before the request passed.  A failed probe vouches for nobody, neither  *)
(* for the requests that share it nor for those that come after it.        *)
(* CachedSigningReadiness.assertReady.                                     *)
(***************************************************************************)
ReleasedOnProof ==
    \A r \in Req :
        proof[r] # None => proof[r].good # None /\ proof[r].at < proof[r].good + TTL

(***************************************************************************)
(* Every accepted request is answered, or cut off by the shutdown of its   *)
(* machine; none waits for ever on another's audit lock or on a shared     *)
(* probe, and a machine told to stop stops.  SupabaseCallerAuditSink,      *)
(* CachedSigningReadiness, createGracefulShutdown.                         *)
(***************************************************************************)
RequestsSettle ==
    /\ \A r \in Req : InFlight(r) ~> pc[r] \in {"done", "cut"}
    /\ \A m \in Machine : mach[m] = "draining" ~> mach[m] = "exited"
=============================================================================
