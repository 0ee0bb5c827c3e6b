--------------------------- MODULE FrontDoorProofs ---------------------------
(***************************************************************************)
(* What FrontDoor promises, for any number of requests, callers, machines, *)
(* ticks and faults: the audit chain, the answers and their records, the   *)
(* fleet's rate limit and the proof behind a release.                      *)
(***************************************************************************)
EXTENDS FrontDoor, TLAPS, FiniteSetTheorems, SequenceTheorems, WellFoundedInduction

Recorders == {"record", "read", "insert", "single"}

(* Where a request is, and what it has with it there. *)
Stage(r) ==
    /\ pc[r] = "idle" => answer[r] = None /\ admitted[r] = None
    /\ InFlight(r) => req[r].m \in Machine /\ mach[req[r].m] # "exited"
    /\ pc[r] \in {"record", "read", "insert", "limit", "route", "ready", "await", "release"} =>
          req[r].c \in Caller
    /\ pc[r] \in Recorders => due[r] \in Due
    /\ pc[r] = "single" => due[r].then = "done"
    /\ pc[r] = "insert" => snap[r] \in Row

(* A request that reads or writes a chain holds its caller's lock. *)
Holds(r) == pc[r] \in {"read", "insert"} => lock[req[r].c] = r

TypeInv == TypeOK /\ \A r \in Req : Stage(r) /\ Holds(r)

-----------------------------------------------------------------------------
LEMMA LeastNat ==
    ASSUME NEW T \in SUBSET Nat, T # {}
    PROVE  \E x \in T : \A y \in T : x <= y
<1>. DEFINE R == OpToRel(<, Nat)
<1>1. PICK x \in T : \A y \in T : ~ (<<y, x>> \in R)
  <2>1. T \subseteq Nat
    OBVIOUS
  <2>2. IsWellFoundedOn(R, Nat)
    BY NatLessThanWellFounded
  <2>. HIDE DEF R
  <2>. QED
    BY <2>1, <2>2, WFMin
<1>2. ASSUME NEW y \in T PROVE x <= y
  <2>1. x \in Nat /\ y \in Nat
    OBVIOUS
  <2>2. ~ (y < x)
    BY <1>1, <2>1 DEF OpToRel
  <2>. QED
    BY <2>1, <2>2
<1>. QED
  BY <1>2

(* A bounded set of naturals that is not empty has a greatest member. *)
LEMMA GreatestNat ==
    ASSUME NEW S \in SUBSET Nat, S # {}, NEW n \in Nat, \A x \in S : x <= n
    PROVE  Max(S) \in S /\ \A y \in S : y <= Max(S)
<1>0. \A x \in S : x \in Nat /\ n - x \in Nat
  OBVIOUS
<1> DEFINE T == {k \in Nat : \E x \in S : k = n - x}
<1>1. PICK d \in T : \A e \in T : d <= e
  <2>1. T \in SUBSET Nat /\ T # {}
    BY <1>0
  <2> QED BY <2>1, LeastNat
<1>2. PICK x \in S : d = n - x
  BY <1>1
<1>3. ASSUME NEW y \in S PROVE x >= y
  <2>1. n - y \in T
    BY <1>0
  <2> QED BY <1>0, <1>1, <1>2, <2>1
<1>4. Max(S) \in S /\ \A y \in S : Max(S) >= y
  BY <1>3 DEF Max
<1> QED BY <1>0, <1>4

LEMMA MaxIs ==
    ASSUME NEW S \in SUBSET Nat, NEW x \in S, \A y \in S : y <= x
    PROVE  Max(S) = x
<1>0. \A y \in S : y \in Nat
  OBVIOUS
<1>1. \A y \in S : x >= y
  BY <1>0
<1>2. Max(S) \in S /\ \A y \in S : Max(S) >= y
  BY <1>1 DEF Max
<1>3. PICK m \in S : m = Max(S) /\ \A y \in S : m >= y
  BY <1>2
<1>4. m >= x /\ x >= m /\ m \in Nat /\ x \in Nat
  BY <1>0, <1>1, <1>3
<1> QED BY <1>3, <1>4

(* The row a caller's next link refers to is one of the caller's own. *)
LEMMA LinkIsRow ==
    ASSUME TypeOK, NEW c, NEW n \in Nat
    PROVE  /\ Before(c, n) = {} => LinkBefore(c, n) = Legacy(c)
           /\ Before(c, n) # {} => /\ LinkBefore(c, n) = audit[Max(Before(c, n))]
                                   /\ Max(Before(c, n)) \in Before(c, n)
                                   /\ \A j \in Before(c, n) : j <= Max(Before(c, n))
<1>1. Before(c, n) \in SUBSET Nat
  BY DEF Before, RowsOf, TypeOK
<1>2. \A x \in Before(c, n) : x <= n
  BY <1>1 DEF Before
<1> QED BY <1>1, <1>2, GreatestNat DEF LinkBefore

LEMMA LinkType ==
    ASSUME TypeOK, NEW c \in Caller, NEW n \in Nat
    PROVE  LinkBefore(c, n) \in Row
<1>1. Legacy(c) \in Row
  BY DEF Legacy, Row
<1>2. ASSUME Before(c, n) # {} PROVE LinkBefore(c, n) \in Row
  <2>1. Max(Before(c, n)) \in DOMAIN audit /\ LinkBefore(c, n) = audit[Max(Before(c, n))]
    BY <1>2, LinkIsRow, ZenonT(60) DEF Before, RowsOf
  <2>2. audit \in Seq(Row)
    BY DEF TypeOK
  <2> QED BY <2>1, <2>2
<1> QED BY <1>1, <1>2, LinkIsRow

LEMMA AppendRow ==
    ASSUME TypeOK, NEW row \in Row
    PROVE  Append(audit, row) \in Seq(Row)
BY DEF TypeOK

LEMMA RemoveRow ==
    ASSUME NEW s \in Seq(Row), NEW i \in DOMAIN s
    PROVE  /\ RemoveAt(s, i) \in Seq(Row)
           /\ Len(RemoveAt(s, i)) = Len(s) - 1
           /\ \A n \in 1..(Len(s) - 1) : RemoveAt(s, i)[n] = IF n < i THEN s[n] ELSE s[n + 1]
<1> DEFINE a == SubSeq(s, 1, i - 1)
           b == SubSeq(s, i + 1, Len(s))
<1>0. i \in 1..Len(s) /\ Len(s) \in Nat
  OBVIOUS
<1>1. a \in Seq(Row) /\ Len(a) = i - 1 /\ \A n \in 1..(i - 1) : a[n] = s[n]
  BY <1>0, SubSeqProperties
<1>2. b \in Seq(Row) /\ Len(b) = Len(s) - i /\ \A n \in 1..(Len(s) - i) : b[n] = s[i + n]
  BY <1>0, SubSeqProperties
<1>3. RemoveAt(s, i) = a \o b
  BY DEF RemoveAt
<1> HIDE DEF a, b
<1>4. /\ a \o b \in Seq(Row) /\ Len(a \o b) = Len(a) + Len(b)
      /\ \A n \in 1..(Len(a) + Len(b)) : (a \o b)[n] = IF n <= Len(a) THEN a[n] ELSE b[n - Len(a)]
  BY <1>1, <1>2, ConcatProperties
<1>5. ASSUME NEW n \in 1..(Len(s) - 1)
      PROVE  (a \o b)[n] = IF n < i THEN s[n] ELSE s[n + 1]
  <2>1. n \in 1..(Len(a) + Len(b)) /\ n \in Nat
    BY <1>0, <1>1, <1>2
  <2>2. CASE n < i
    BY <1>0, <1>1, <1>4, <2>1, <2>2
  <2>3. CASE ~(n < i)
    <3>1. n - Len(a) \in 1..(Len(s) - i) /\ i + (n - Len(a)) = n + 1 /\ ~(n <= Len(a))
      BY <1>0, <1>1, <2>1, <2>3, SMTT(30)
    <3> QED BY <1>2, <1>4, <2>1, <2>3, <3>1
  <2> QED BY <2>2, <2>3
<1> QED BY <1>0, <1>1, <1>2, <1>3, <1>4, <1>5, SMTT(30)

-----------------------------------------------------------------------------
LEMMA InitType == Init => TypeInv
<1> SUFFICES ASSUME Init PROVE TypeInv
  OBVIOUS
<1>1. audit \in Seq(Row)
  <2>1. <<>> \in Seq(Row)
    OBVIOUS
  <2>2. \A c \in Caller : Legacy(c) \in Row
    BY DEF Legacy, Row
  <2>3. \A c \in Caller : <<Legacy(c)>> \in Seq(Row)
    BY <2>2
  <2> QED BY <2>1, <2>3 DEF Init
<1>2. TypeOK
  BY <1>1, FrontDoorAssumption DEF Init, TypeOK, NoProbe, Routes, Kinds
<1> QED BY <1>2 DEF Init, TypeInv, Stage, Holds, InFlight, Recorders

(* Every action but four moves requests only by Goto, and touches nothing  *)
(* that the stage of another request is about.                             *)
LEMMA RefusalType ==
    ASSUME NEW k \in {"badId", "badPrincipal", "badCapability", "duplicate"}
    PROVE  Refusal(k).ev \in Events /\ Refusal(k).status \in {400, 403, 409}
BY DEF Refusal, Events

(* One request is somewhere else, with what it needs there, and every      *)
(* other request has what it had.                                          *)
Moved(r, l) ==
    /\ l \in {"record", "single", "limit", "route", "ready", "await", "release", "done"}
    /\ pc' = [pc EXCEPT ![r] = l]
    /\ UNCHANGED <<lock, mach, snap>>
    /\ \A q \in Req \ {r} : /\ req'[q] = req[q] /\ due'[q] = due[q]
                            /\ answer'[q] = answer[q] /\ admitted'[q] = admitted[q]
    /\ l # "done" => req'[r].m \in Machine /\ mach[req'[r].m] # "exited"
    /\ l \notin {"single", "done"} => req'[r].c \in Caller
    /\ l \in {"record", "single"} => due'[r] \in Due
    /\ l = "single" => due'[r].then = "done"

LEMMA MoveType ==
    ASSUME TypeInv, TypeOK', NEW r \in Req, NEW l, Moved(r, l)
    PROVE  TypeInv'
<1>1. ASSUME NEW q \in Req PROVE Stage(q)'
  <2>1. CASE q = r
    BY <2>1 DEF Moved, TypeInv, TypeOK, Stage, InFlight, Recorders
  <2>2. CASE q # r
    BY <2>2 DEF Moved, TypeInv, TypeOK, Stage, InFlight, Recorders
  <2> QED BY <2>1, <2>2
<1>2. ASSUME NEW q \in Req PROVE Holds(q)'
  BY DEF Moved, TypeInv, TypeOK, Holds
<1> QED BY <1>1, <1>2 DEF TypeInv

LEMMA FaultType ==
    ASSUME TypeOK, Fault \/ UNCHANGED faults
    PROVE  faults' \in 0..MaxFaults
<1>1. faults \in 0..MaxFaults /\ MaxFaults \in Nat
  BY FrontDoorAssumption DEF TypeOK
<1> QED BY <1>1 DEF Fault

LEMMA ArriveType ==
    ASSUME TypeInv, NEW r \in Req, Authenticate(r) \/ RejectBody(r)
    PROVE  TypeInv'
<1> USE DEF requestState, limiterState, signingState, serverState
<1>1. CASE Authenticate(r)
  <2>1. PICK m \in Machine, c \in Caller \cup {None}, rt \in Routes, k \in Kinds :
          /\ mach[m] = "up"
          /\ req' = [req EXCEPT ![r] = [m |-> m, c |-> c, route |-> rt, kind |-> k]]
          /\ IF c = None
             THEN Recording(r, c, "rejected", "done", 401)
             ELSE Recording(r, c, "authenticated",
                            IF rt = "execute" THEN "limit" ELSE "route", None)
    BY <1>1 DEF Authenticate
  <2>2. PICK e \in Events, t \in {"done", "limit", "route", "ready"}, st \in {None, 400, 401, 403, 409} :
          Recording(r, c, e, t, st) /\ (c = None => t = "done")
    BY <2>1 DEF Events
  <2>3. /\ pc' = [pc EXCEPT ![r] = IF c = None THEN "single" ELSE "record"]
        /\ due' \in [Req -> Due \cup {None}]
        /\ due'[r] = [ev |-> e, then |-> t, status |-> st] /\ due'[r] \in Due
        /\ \A q \in Req \ {r} : due'[q] = due[q]
    <3>1. [ev |-> e, then |-> t, status |-> st] \in Due
      BY DEF Due
    <3>2. /\ due' = [due EXCEPT ![r] = [ev |-> e, then |-> t, status |-> st]]
          /\ pc' = [pc EXCEPT ![r] = IF c = None THEN "single" ELSE "record"]
      BY <2>2 DEF Recording, Goto
    <3>3. due \in [Req -> Due \cup {None}]
      BY DEF TypeInv, TypeOK
    <3> QED BY <3>1, <3>2, <3>3
  <2>4. req' \in [Req -> [m : Machine \cup {None}, c : Caller \cup {None}, route : Routes, kind : Kinds]]
        /\ req'[r] = [m |-> m, c |-> c, route |-> rt, kind |-> k]
        /\ \A q \in Req \ {r} : req'[q] = req[q]
    BY <2>1 DEF TypeInv, TypeOK
  <2>5. TypeOK'
    BY <1>1, <2>3, <2>4 DEF Authenticate, TypeInv, TypeOK, RowsOf
  <2>6. PICK l \in {"record", "single"} : l = IF c = None THEN "single" ELSE "record"
    OBVIOUS
  <2>7. UNCHANGED <<lock, mach, snap>> /\ UNCHANGED <<answer, admitted>>
    BY <1>1 DEF Authenticate
  <2>8. /\ req'[r].m \in Machine /\ mach[req'[r].m] # "exited"
        /\ l # "single" => req'[r].c \in Caller
        /\ l = "single" => due'[r].then = "done"
        /\ pc' = [pc EXCEPT ![r] = l]
    BY <2>1, <2>2, <2>3, <2>4, <2>6
  <2>9. Moved(r, l)
    BY <2>3, <2>4, <2>7, <2>8, ZenonT(60) DEF Moved
  <2> QED BY <2>5, <2>9, MoveType
<1>2. CASE RejectBody(r)
  <2>1. PICK m \in Machine : mach[m] = "up" /\ req' = [req EXCEPT ![r].m = m]
    BY <1>2 DEF RejectBody
  <2>2. req' \in [Req -> [m : Machine \cup {None}, c : Caller \cup {None}, route : Routes, kind : Kinds]]
        /\ \A q \in Req \ {r} : req'[q] = req[q]
    <3>1. req \in [Req -> [m : Machine \cup {None}, c : Caller \cup {None}, route : Routes, kind : Kinds]]
      BY DEF TypeInv, TypeOK
    <3>2. [req[r] EXCEPT !.m = m] \in
            [m : Machine \cup {None}, c : Caller \cup {None}, route : Routes, kind : Kinds]
      BY <3>1
    <3>3. req' = [req EXCEPT ![r] = [req[r] EXCEPT !.m = m]]
      BY <2>1
    <3> QED BY <3>1, <3>2, <3>3
  <2>3. Legacy(None) \in Row /\ <<r, "structural_rejected">> \in Hash
    BY DEF Legacy, Row, Hash, Events
  <2>4. audit' \in Seq(Row) /\ wrote' \subseteq Hash
    <3>1. Append(audit, Legacy(None)) \in Seq(Row)
      BY <2>3, AppendRow DEF TypeInv
    <3>2. audit \in Seq(Row) /\ wrote \subseteq Hash
      BY DEF TypeInv, TypeOK
    <3>3. \/ audit' = audit /\ wrote' = wrote
          \/ audit' = Append(audit, Legacy(None)) /\ wrote' = wrote \cup {<<r, "structural_rejected">>}
      BY <1>2 DEF RejectBody
    <3> QED BY <2>3, <3>1, <3>2, <3>3
  <2>5. faults' \in 0..MaxFaults
    BY <1>2, FaultType DEF RejectBody, TypeInv
  <2>6. TypeOK'
    BY <1>2, <2>2, <2>4, <2>5 DEF RejectBody, Reply, Goto, TypeInv, TypeOK
  <2>7. pc' = [pc EXCEPT ![r] = "done"] /\ \A q \in Req \ {r} : answer'[q] = answer[q]
    BY <1>2 DEF RejectBody, Reply, Goto, TypeInv, TypeOK
  <2>8. Moved(r, "done")
    BY <1>2, <2>2, <2>7 DEF Moved, RejectBody
  <2> QED BY <2>6, <2>8, MoveType
<1> QED BY <1>1, <1>2

(* The lock is passed on, never shared. *)
LEMMA ReleaseType ==
    ASSUME TypeInv, NEW r \in Req, Release(r)
    PROVE  /\ lock' \in [Caller -> Req \cup {None}]
           /\ \A c \in Caller : lock[c] # r => lock'[c] = lock[c]
BY DEF Release, TypeInv, TypeOK

LEMMA RecordedType ==
    ASSUME TypeInv, NEW r \in Req, pc[r] \in {"insert", "single"}, Recorded(r)
    PROVE  /\ pc' = [pc EXCEPT ![r] = due[r].then]
           /\ due[r] \in Due
           /\ pc[r] = "single" => due[r].then = "done"
           /\ answer' = [answer EXCEPT ![r] = due[r].status]
           /\ wrote' = wrote \cup {<<r, due[r].ev>>} /\ wrote' \subseteq Hash
           /\ due' = [due EXCEPT ![r] = None] /\ snap' = [snap EXCEPT ![r] = None]
           /\ pc' \in [Req -> {"idle", "record", "read", "insert", "single", "limit", "route",
                               "ready", "await", "release", "done", "cut"}]
           /\ answer' \in [Req -> {None, 200, 400, 401, 403, 409, 429, 500, 503}]
           /\ due' \in [Req -> Due \cup {None}] /\ snap' \in [Req -> Row \cup {None}]
<1>1. due[r] \in Due /\ (pc[r] = "single" => due[r].then = "done")
  BY DEF TypeInv, Stage, Recorders
<1>2. /\ due[r].ev \in Events /\ due[r].then \in {"done", "limit", "route", "ready"}
      /\ due[r].status \in {None, 400, 401, 403, 409}
  BY <1>1 DEF Due
<1>3. <<r, due[r].ev>> \in Hash
  BY <1>2 DEF Hash
<1>4. /\ pc' = [pc EXCEPT ![r] = due[r].then]
      /\ answer' = [answer EXCEPT ![r] = due[r].status]
      /\ wrote' = wrote \cup {<<r, due[r].ev>>}
      /\ due' = [due EXCEPT ![r] = None] /\ snap' = [snap EXCEPT ![r] = None]
  BY DEF Recorded, Goto
<1>5. /\ pc' \in [Req -> {"idle", "record", "read", "insert", "single", "limit", "route",
                          "ready", "await", "release", "done", "cut"}]
      /\ answer' \in [Req -> {None, 200, 400, 401, 403, 409, 429, 500, 503}]
  BY <1>2, <1>4 DEF TypeInv, TypeOK
<1>6. due' \in [Req -> Due \cup {None}] /\ snap' \in [Req -> Row \cup {None}] /\ wrote' \subseteq Hash
  BY <1>3, <1>4, ZenonT(60) DEF TypeInv, TypeOK
<1> QED BY <1>1, <1>4, <1>5, <1>6

LEMMA RecordType ==
    ASSUME TypeInv, NEW r \in Req,
           RecordBegin(r) \/ RecordRead(r) \/ RecordInsert(r) \/ RecordSingle(r) \/ RecordFails(r)
    PROVE  TypeInv'
<1> USE DEF requestState, limiterState, signingState, serverState
<1>0. /\ pc \in [Req -> {"idle", "record", "read", "insert", "single", "limit", "route",
                         "ready", "await", "release", "done", "cut"}]
      /\ lock \in [Caller -> Req \cup {None}] /\ None \notin Req
      /\ snap \in [Req -> Row \cup {None}] /\ due \in [Req -> Due \cup {None}]
  BY FrontDoorAssumption DEF TypeInv, TypeOK
<1>1. CASE RecordBegin(r)
  <2>0. req[r].c \in Caller
    BY <1>1 DEF RecordBegin, TypeInv, Stage
  <2>1. TypeOK'
    BY <1>1, <2>0 DEF RecordBegin, Goto, TypeInv, TypeOK
  <2>2. ASSUME NEW q \in Req PROVE Stage(q)'
    BY <1>0, <1>1 DEF RecordBegin, Goto, TypeInv, Stage, InFlight, Recorders
  <2>3. ASSUME NEW q \in Req PROVE Holds(q)'
    BY <1>0, <1>1, <2>0 DEF RecordBegin, Goto, TypeInv, Stage, Holds
  <2> QED BY <2>1, <2>2, <2>3 DEF TypeInv
<1>2. CASE RecordRead(r)
  <2>0. req[r].c \in Caller /\ Len(audit) + 1 \in Nat
    BY <1>2 DEF RecordRead, TypeInv, TypeOK, Stage
  <2>1. PICK row \in Row : row = LinkBefore(req[r].c, Len(audit) + 1)
    BY <2>0, LinkType DEF TypeInv
  <2>2. snap' = [snap EXCEPT ![r] = row] /\ pc' = [pc EXCEPT ![r] = "insert"]
    BY <1>2, <2>1 DEF RecordRead, Goto
  <2>3. TypeOK'
    BY <1>2, <2>2 DEF RecordRead, TypeInv, TypeOK
  <2>4. ASSUME NEW q \in Req PROVE Stage(q)'
    BY <1>0, <1>2, <2>2 DEF RecordRead, TypeInv, Stage, InFlight, Recorders
  <2>5. ASSUME NEW q \in Req PROVE Holds(q)'
    BY <1>0, <1>2, <2>2 DEF RecordRead, TypeInv, Holds
  <2> QED BY <2>3, <2>4, <2>5 DEF TypeInv
<1>3. CASE RecordInsert(r)
  <2>0. req[r].c \in Caller /\ snap[r] \in Row /\ due[r] \in Due /\ Holds(r)
    BY <1>3 DEF RecordInsert, TypeInv, Stage, Recorders
  <2>1. NextPosition(snap[r]) \in Nat
    BY <2>0 DEF NextPosition, Row
  <2>2. [caller |-> req[r].c, prev |-> snap[r].hash, pos |-> NextPosition(snap[r]),
         hash |-> <<r, due[r].ev>>] \in Row
    BY <2>0, <2>1 DEF Row, Due, Hash
  <2>3. audit' \in Seq(Row)
    BY <1>3, <2>2, AppendRow DEF RecordInsert, TypeInv
  <2>4. Release(r) /\ Recorded(r) /\ pc[r] = "insert"
    BY <1>3 DEF RecordInsert
  <2>5. TypeOK'
    <3>1. /\ pc' \in [Req -> {"idle", "record", "read", "insert", "single", "limit", "route",
                              "ready", "await", "release", "done", "cut"}]
          /\ answer' \in [Req -> {None, 200, 400, 401, 403, 409, 429, 500, 503}]
          /\ due' \in [Req -> Due \cup {None}] /\ snap' \in [Req -> Row \cup {None}]
          /\ wrote' \subseteq Hash
      BY <2>4, RecordedType
    <3>2. lock' \in [Caller -> Req \cup {None}]
      BY <2>4, ReleaseType
    <3> QED BY <1>3, <2>3, <3>1, <3>2 DEF RecordInsert, TypeInv, TypeOK
  <2>6. ASSUME NEW q \in Req PROVE Stage(q)'
    <3>1. CASE q = r
      <4>1. pc'[q] = due[q].then /\ due[q].then \in {"done", "limit", "route", "ready"}
        BY <1>0, <2>0, <2>4, <3>1, RecordedType DEF Due
      <4> QED BY <1>0, <1>3, <2>0, <2>4, <3>1, <4>1 DEF RecordInsert, TypeInv, Stage, InFlight, Recorders
    <3>2. CASE q # r
      <4>1. /\ pc'[q] = pc[q] /\ due'[q] = due[q] /\ snap'[q] = snap[q] /\ answer'[q] = answer[q]
        BY <1>0, <2>4, <3>2, RecordedType DEF TypeInv, TypeOK
      <4> QED BY <1>3, <3>2, <4>1 DEF RecordInsert, TypeInv, Stage, InFlight, Recorders
    <3> QED BY <3>1, <3>2
  <2>7. ASSUME NEW q \in Req PROVE Holds(q)'
    <3>1. CASE q = r
      <4>1. pc'[q] = due[q].then /\ due[q].then \in {"done", "limit", "route", "ready"}
        BY <1>0, <2>0, <2>4, <3>1, RecordedType DEF Due
      <4> QED BY <4>1 DEF Holds
    <3>2. CASE q # r
      <4>1. pc'[q] = pc[q]
        BY <1>0, <2>4, <3>2, RecordedType
      <4>2. pc[q] \in {"read", "insert"} => req[q].c \in Caller /\ lock[req[q].c] = q
        BY DEF TypeInv, Stage, Holds
      <4> QED BY <1>3, <2>4, <3>2, <4>1, <4>2, ReleaseType DEF RecordInsert, Holds
    <3> QED BY <3>1, <3>2
  <2> QED BY <2>5, <2>6, <2>7 DEF TypeInv
<1>4. CASE RecordSingle(r)
  <2>1. Recorded(r) /\ pc[r] = "single"
    BY <1>4 DEF RecordSingle
  <2>2. Legacy(None) \in Row
    BY DEF Legacy, Row
  <2>3. audit' \in Seq(Row)
    BY <1>4, <2>2, AppendRow DEF RecordSingle, TypeInv
  <2>4. TypeOK'
    BY <1>4, <2>1, <2>3, RecordedType, SMTT(30) DEF RecordSingle, TypeInv, TypeOK
  <2>5. pc' = [pc EXCEPT ![r] = "done"]
    BY <2>1, RecordedType
  <2>6. ASSUME NEW q \in Req PROVE Stage(q)'
    <3>1. CASE q = r
      BY <1>0, <2>5, <3>1 DEF Stage, InFlight, Recorders
    <3>2. CASE q # r
      <4>1. /\ pc'[q] = pc[q] /\ due'[q] = due[q] /\ snap'[q] = snap[q] /\ answer'[q] = answer[q]
        BY <1>0, <2>1, <3>2, RecordedType DEF TypeInv, TypeOK
      <4> QED BY <1>4, <3>2, <4>1 DEF RecordSingle, TypeInv, Stage, InFlight, Recorders
    <3> QED BY <3>1, <3>2
  <2>7. ASSUME NEW q \in Req PROVE Holds(q)'
    BY <1>0, <1>4, <2>5 DEF RecordSingle, TypeInv, Holds
  <2> QED BY <2>4, <2>6, <2>7 DEF TypeInv
<1>5. CASE RecordFails(r)
  <2>0. Release(r)
    BY <1>5 DEF RecordFails
  <2>1. faults' \in 0..MaxFaults
    BY <1>5, FaultType DEF RecordFails, TypeInv
  <2>2. TypeOK'
    BY <1>5, <2>0, <2>1, ReleaseType, SMTT(30) DEF RecordFails, Reply, Goto, TypeInv, TypeOK
  <2>3. pc' = [pc EXCEPT ![r] = "done"] /\ \A q \in Req \ {r} : answer'[q] = answer[q]
    BY <1>5 DEF RecordFails, Reply, Goto, TypeInv, TypeOK
  <2>4. ASSUME NEW q \in Req PROVE Stage(q)'
    BY <1>0, <1>5, <2>3 DEF RecordFails, TypeInv, Stage, InFlight, Recorders
  <2>5. ASSUME NEW q \in Req PROVE Holds(q)'
    <3>2. pc[q] \in {"read", "insert"} => req[q].c \in Caller /\ lock[req[q].c] = q
      BY DEF TypeInv, Stage, Holds
    <3> QED BY <1>0, <1>5, <2>0, <2>3, <3>2, ReleaseType DEF RecordFails, Holds
  <2> QED BY <2>2, <2>4, <2>5 DEF TypeInv
<1> QED BY <1>1, <1>2, <1>3, <1>4, <1>5

LEMMA CountType ==
    ASSUME TypeInv, NEW c \in Caller
    PROVE  /\ <<DB, c>> \in Store \X Caller
           /\ Increment(<<DB, c>>) \in [hits : Nat, reset : Nat]
<1>1. <<DB, c>> \in Store \X Caller
  BY DEF Store
<1>2. count[<<DB, c>>] \in [hits : Nat, reset : Nat]
  BY <1>1 DEF TypeInv, TypeOK
<1>3. now \in Nat /\ Window \in Nat
  BY FrontDoorAssumption DEF TypeInv, TypeOK
<1> QED BY <1>1, <1>2, <1>3 DEF Increment

LEMMA RouteType ==
    ASSUME TypeInv, NEW r \in Req,
           LimitRate(r) \/ LimitFails(r) \/ Admit(r) \/ RefuseDuplicate(r) \/ AssertReady(r) \/ Execute(r)
    PROVE  TypeInv'
<1> USE DEF requestState, limiterState, signingState, serverState
<1>0. /\ pc \in [Req -> {"idle", "record", "read", "insert", "single", "limit", "route",
                         "ready", "await", "release", "done", "cut"}]
      /\ answer \in [Req -> {None, 200, 400, 401, 403, 409, 429, 500, 503}]
      /\ admitted \in [Req -> Nat \cup {None}] /\ None \notin Caller
      /\ req \in [Req -> [m : Machine \cup {None}, c : Caller \cup {None}, route : Routes, kind : Kinds]]
      /\ due \in [Req -> Due \cup {None}]
  BY FrontDoorAssumption DEF TypeInv, TypeOK
<1>s. /\ req[r].c \in Caller /\ req[r].m \in Machine /\ mach[req[r].m] # "exited"
  BY DEF LimitRate, LimitFails, Admit, RefuseDuplicate, AssertReady, Execute, TypeInv, Stage, InFlight
<1>m. UNCHANGED <<lock, mach, snap, req>>
  BY DEF LimitRate, LimitFails, Admit, RefuseDuplicate, AssertReady, Execute
<1>1. CASE LimitRate(r)
  <2>1. PICK row \in [hits : Nat, reset : Nat] : row = Increment(<<DB, req[r].c>>)
    BY <1>s, CountType
  <2>2. /\ count' = [count EXCEPT ![<<DB, req[r].c>>] = row]
        /\ \/ Reply(r, 429) /\ admitted' = admitted
           \/ /\ Goto(r, "route") /\ admitted' = [admitted EXCEPT ![r] = row.reset]
              /\ answer' = answer
    BY <1>1, <2>1 DEF LimitRate, StoreOf
  <2>3. count' \in [Store \X Caller -> [hits : Nat, reset : Nat]]
    BY <2>1, <2>2, ZenonT(60) DEF TypeInv, TypeOK
  <2>4. /\ admitted' \in [Req -> Nat \cup {None}]
        /\ answer' \in [Req -> {None, 200, 400, 401, 403, 409, 429, 500, 503}]
        /\ \A q \in Req \ {r} : answer'[q] = answer[q] /\ admitted'[q] = admitted[q]
    BY <1>0, <2>1, <2>2 DEF Reply
  <2>5. PICK l \in {"done", "route"} : pc' = [pc EXCEPT ![r] = l]
    BY <2>2 DEF Reply, Goto
  <2>6. TypeOK'
    BY <1>1, <1>0, <2>3, <2>4, <2>5, SMTT(30) DEF LimitRate, TypeInv, TypeOK
  <2>7. Moved(r, l)
    BY <1>1, <1>s, <1>m, <2>4, <2>5 DEF LimitRate, Moved
  <2> QED BY <2>6, <2>7, MoveType
<1>2. CASE LimitFails(r)
  <2>1. pc' = [pc EXCEPT ![r] = "done"] /\ answer' = [answer EXCEPT ![r] = 500]
    BY <1>2 DEF LimitFails, Reply, Goto
  <2>2. faults' \in 0..MaxFaults
    BY <1>2, FaultType DEF LimitFails, TypeInv
  <2>3. TypeOK'
    BY <1>2, <2>1, <2>2 DEF LimitFails, TypeInv, TypeOK
  <2>4. Moved(r, "done")
    BY <1>0, <1>2, <1>m, <2>1 DEF LimitFails, Moved
  <2> QED BY <2>3, <2>4, MoveType
<1>r. ASSUME NEW e \in Events, NEW t \in {"done", "limit", "route", "ready"},
             NEW st \in {None, 400, 401, 403, 409},
             Recording(r, req[r].c, e, t, st),
             UNCHANGED <<req, answer, faults, requestState, limiterState, signingState, serverState>>
      PROVE  TypeInv'
  <2>0. PICK c \in Caller : c = req[r].c
    BY <1>s
  <2>1. /\ pc' = [pc EXCEPT ![r] = "record"]
        /\ due' \in [Req -> Due \cup {None}] /\ due'[r] \in Due
        /\ \A q \in Req \ {r} : due'[q] = due[q]
    <3>1. [ev |-> e, then |-> t, status |-> st] \in Due
      BY DEF Due
    <3>2. /\ due' = [due EXCEPT ![r] = [ev |-> e, then |-> t, status |-> st]]
          /\ pc' = [pc EXCEPT ![r] = "record"]
      BY <1>0, <1>r, <2>0, ZenonT(60) DEF Recording, Goto
    <3> QED BY <1>0, <3>1, <3>2
  <2>2. TypeOK'
    BY <1>r, <2>1 DEF TypeInv, TypeOK
  <2>3. /\ UNCHANGED <<lock, mach, snap, req, answer, admitted>>
    BY <1>r
  <2>4. Moved(r, "record")
    BY <1>s, <2>1, <2>3 DEF Moved
  <2> QED BY <2>2, <2>4, MoveType
<1>3. CASE Admit(r)
  <2>1. CASE req[r].kind \in {"badId", "badPrincipal", "badCapability"}
    <3>1. Recording(r, req[r].c, Refusal(req[r].kind).ev, "done", Refusal(req[r].kind).status)
      BY <1>3, <2>1 DEF Admit
    <3>2. PICK e \in Events, st \in {400, 403, 409} :
            e = Refusal(req[r].kind).ev /\ st = Refusal(req[r].kind).status
      BY <2>1, RefusalType
    <3> QED BY <1>3, <1>r, <3>1, <3>2 DEF Admit
  <2>2. CASE ~(req[r].kind \in {"badId", "badPrincipal", "badCapability"})
    <3>1. Recording(r, req[r].c, "capability_granted", "ready", None)
      BY <1>3, <2>2 DEF Admit
    <3>2. "capability_granted" \in Events
      BY DEF Events
    <3> QED BY <1>3, <1>r, <3>1, <3>2 DEF Admit
  <2> QED BY <2>1, <2>2
<1>4. CASE RefuseDuplicate(r)
  <2>2. PICK e \in Events, st \in {400, 403, 409} :
          e = Refusal("duplicate").ev /\ st = Refusal("duplicate").status
    BY RefusalType
  <2> QED BY <1>4, <1>r, <2>2 DEF RefuseDuplicate
<1>5. CASE AssertReady(r)
  <2>0. PICK m \in Machine : m = req[r].m
    BY <1>s
  <2>1. PICK l \in {"release", "await"} : pc' = [pc EXCEPT ![r] = l]
    BY <1>5 DEF AssertReady, Goto
  <2>2. proof' \in [Req -> [at : Nat, good : Nat \cup {None}] \cup {None}]
    <3>1. /\ proof \in [Req -> [at : Nat, good : Nat \cup {None}] \cup {None}]
          /\ probe[m].good \in Nat \cup {None} /\ now \in Nat
      BY FrontDoorAssumption DEF TypeInv, TypeOK
    <3>2. proof' = proof \/ proof' = [proof EXCEPT ![r] = [at |-> now, good |-> probe[m].good]]
      BY <1>5, <2>0 DEF AssertReady
    <3> QED BY <3>1, <3>2
  <2>3. probe' \in [Machine -> [state : {"none", "sent", "signed", "failed"}, good : Nat \cup {None}]]
    <3>1. probe \in [Machine -> [state : {"none", "sent", "signed", "failed"}, good : Nat \cup {None}]]
      BY DEF TypeInv, TypeOK
    <3>2. probe' = probe \/ probe' = [probe EXCEPT ![m] = [probe[m] EXCEPT !.state = "sent"]]
      BY <1>5, <2>0 DEF AssertReady
    <3> QED BY <3>1, <3>2
  <2>4. TypeOK'
    BY <1>5, <2>1, <2>2, <2>3, ZenonT(60) DEF AssertReady, TypeInv, TypeOK
  <2>5. Moved(r, l)
    BY <1>5, <1>s, <1>m, <2>1 DEF AssertReady, Moved
  <2> QED BY <2>4, <2>5, MoveType
<1>6. CASE Execute(r)
  <2>1. pc' = [pc EXCEPT ![r] = "done"] /\ answer' = [answer EXCEPT ![r] = 200]
    BY <1>6 DEF Execute, Reply, Goto
  <2>3. TypeOK'
    BY <1>6, <2>1 DEF Execute, TypeInv, TypeOK
  <2>4. Moved(r, "done")
    BY <1>0, <1>6, <1>m, <2>1 DEF Execute, Moved
  <2> QED BY <2>3, <2>4, MoveType
<1> QED BY <1>1, <1>2, <1>3, <1>4, <1>5, <1>6

(* What the end of a probe does, g being when one last ended well. *)
LEMMA SettleDoes ==
    ASSUME TypeInv, NEW m \in Machine, NEW ok \in BOOLEAN, Settle(m, ok)
    PROVE  \E g \in Nat \cup {None} :
             /\ g = IF probe[m].state = "signed" THEN now ELSE probe[m].good
             /\ probe' = [probe EXCEPT ![m] = [state |-> "none", good |-> g]]
             /\ proof' = [r \in Req |-> IF (pc[r] = "await" /\ req[r].m = m) /\ ok
                                        THEN [at |-> now, good |-> g] ELSE proof[r]]
<1>0. /\ probe \in [Machine -> [state : {"none", "sent", "signed", "failed"}, good : Nat \cup {None}]]
      /\ now \in Nat
  BY FrontDoorAssumption DEF TypeInv, TypeOK
<1>1. PICK g \in Nat \cup {None} : g = IF probe[m].state = "signed" THEN now ELSE probe[m].good
  BY <1>0
<1>2. probe' = [probe EXCEPT ![m] = [state |-> "none", good |-> g]]
  BY <1>1 DEF Settle
<1>3. proof' = [r \in Req |-> IF (pc[r] = "await" /\ req[r].m = m) /\ ok
                             THEN [at |-> now, good |-> g] ELSE proof[r]]
  BY <1>1 DEF Settle
<1> QED BY <1>1, <1>2, <1>3

LEMMA ProcessType ==
    ASSUME TypeInv, NEW m \in Machine, Process(m) \/ Shutdown(m)
    PROVE  TypeInv'
<1> USE DEF requestState, limiterState, signingState, serverState
<1>0. /\ pc \in [Req -> {"idle", "record", "read", "insert", "single", "limit", "route",
                         "ready", "await", "release", "done", "cut"}]
      /\ probe \in [Machine -> [state : {"none", "sent", "signed", "failed"}, good : Nat \cup {None}]]
      /\ lock \in [Caller -> Req \cup {None}] /\ None \notin Req
      /\ mach \in [Machine -> {"up", "draining", "exited"}]
      /\ now \in Nat /\ TTL \in Nat
      /\ healthyUntil \in [Machine -> Nat]
      /\ answer \in [Req -> {None, 200, 400, 401, 403, 409, 429, 500, 503}]
      /\ proof \in [Req -> [at : Nat, good : Nat \cup {None}] \cup {None}]
  BY FrontDoorAssumption DEF TypeInv, TypeOK
<1>1. CASE ProbeSigns(m)
  <2>1. probe' \in [Machine -> [state : {"none", "sent", "signed", "failed"}, good : Nat \cup {None}]]
    <3>1. probe' = [probe EXCEPT ![m] = [probe[m] EXCEPT !.state = "signed"]]
          \/ probe' = [probe EXCEPT ![m] = [probe[m] EXCEPT !.state = "failed"]]
      BY <1>1 DEF ProbeSigns
    <3> QED BY <1>0, <3>1, SMTT(30)
  <2>2. TypeOK'
    BY <1>1, <2>1 DEF ProbeSigns, TypeInv, TypeOK
  <2> QED BY <1>1, <2>2 DEF ProbeSigns, TypeInv, Stage, Holds, InFlight, Recorders
<1>2. CASE ProbeSettles(m)
  <2>0. PICK ok \in BOOLEAN : Settle(m, ok)
    BY <1>2 DEF ProbeSettles
  <2>1. probe' \in [Machine -> [state : {"none", "sent", "signed", "failed"}, good : Nat \cup {None}]]
    <3>1. PICK g \in Nat \cup {None} : probe' = [probe EXCEPT ![m] = [state |-> "none", good |-> g]]
      BY <2>0, SettleDoes
    <3> QED BY <1>0, <3>1
  <2>2. healthyUntil' \in [Machine -> Nat]
    BY <1>0, <2>0 DEF Settle
  <2>3. proof' \in [Req -> [at : Nat, good : Nat \cup {None}] \cup {None}]
    <3>1. PICK g \in Nat \cup {None} :
            proof' = [r \in Req |-> IF (pc[r] = "await" /\ req[r].m = m) /\ ok
                                    THEN [at |-> now, good |-> g] ELSE proof[r]]
      BY <2>0, SettleDoes
    <3>2. [at |-> now, good |-> g] \in [at : Nat, good : Nat \cup {None}]
      BY <1>0
    <3> QED BY <1>0, <3>1, <3>2
  <2>4. /\ pc' = [r \in Req |-> IF pc[r] = "await" /\ req[r].m = m
                                THEN IF ok THEN "release" ELSE "done" ELSE pc[r]]
        /\ answer' = [r \in Req |-> IF (pc[r] = "await" /\ req[r].m = m) /\ ~ok THEN 503 ELSE answer[r]]
        /\ UNCHANGED <<req, due, faults, key, requestState, limiterState, serverState>>
    BY <2>0 DEF Settle
  <2>5. TypeOK'
    BY <1>0, <2>1, <2>2, <2>3, <2>4 DEF TypeInv, TypeOK
  <2>6. ASSUME NEW q \in Req PROVE Stage(q)' /\ Holds(q)'
    BY <1>0, <2>4 DEF TypeInv, Stage, Holds, InFlight, Recorders
  <2> QED BY <2>5, <2>6 DEF TypeInv
<1>3. CASE Shutdown(m)
  <2>1. TypeOK'
    BY <1>3 DEF Shutdown, TypeInv, TypeOK
  <2>2. ASSUME NEW q \in Req PROVE Stage(q)' /\ Holds(q)'
    BY <1>0, <1>3 DEF Shutdown, TypeInv, Stage, Holds, InFlight, Recorders
  <2> QED BY <2>1, <2>2 DEF TypeInv
<1>4. CASE ExitDrained(m)
  <2>1. TypeOK'
    BY <1>4 DEF ExitDrained, TypeInv, TypeOK
  <2>2. ASSUME NEW q \in Req PROVE Stage(q)' /\ Holds(q)'
    BY <1>0, <1>4 DEF ExitDrained, TypeInv, Stage, Holds, InFlight, Recorders
  <2> QED BY <2>1, <2>2 DEF TypeInv
<1>5. CASE ExitForced(m)
  <2>1. /\ pc' = [r \in Req |-> IF req[r].m = m /\ InFlight(r) THEN "cut" ELSE pc[r]]
        /\ lock' = [c \in Caller |-> IF lock[c] \in {r \in Req : req[r].m = m /\ InFlight(r)}
                                     THEN None ELSE lock[c]]
        /\ mach' = [mach EXCEPT ![m] = "exited"]
        /\ probe' = [probe EXCEPT ![m] = NoProbe]
        /\ UNCHANGED <<req, due, snap, answer, faults, audit, wrote, now, lost, limiterState,
                       key, healthyUntil, proof>>
    BY <1>5 DEF ExitForced
  <2>2. TypeOK'
    <3>1. NoProbe \in [state : {"none", "sent", "signed", "failed"}, good : Nat \cup {None}]
      BY DEF NoProbe
    <3>2. probe' \in [Machine -> [state : {"none", "sent", "signed", "failed"}, good : Nat \cup {None}]]
      BY <1>0, <2>1, <3>1
    <3>3. /\ pc' \in [Req -> {"idle", "record", "read", "insert", "single", "limit", "route",
                              "ready", "await", "release", "done", "cut"}]
          /\ lock' \in [Caller -> Req \cup {None}] /\ mach' \in [Machine -> {"up", "draining", "exited"}]
      BY <1>0, <2>1
    <3> QED BY <2>1, <3>2, <3>3 DEF TypeInv, TypeOK
  <2>3. ASSUME NEW q \in Req PROVE Stage(q)'
    BY <1>0, <2>1 DEF TypeInv, Stage, InFlight, Recorders
  <2>4. ASSUME NEW q \in Req PROVE Holds(q)'
    <3>1. pc[q] \in {"read", "insert"} => req[q].c \in Caller /\ lock[req[q].c] = q
      BY DEF TypeInv, Stage, Holds
    <3>2. pc'[q] \in {"read", "insert"} => pc[q] = pc'[q] /\ ~(req[q].m = m /\ InFlight(q))
      BY <1>0, <2>1
    <3> QED BY <1>0, <2>1, <3>1, <3>2 DEF Holds
  <2> QED BY <2>2, <2>3, <2>4 DEF TypeInv
<1> QED BY <1>1, <1>2, <1>3, <1>4, <1>5 DEF Process

LEMMA EnvironmentType ==
    ASSUME TypeInv, Tick \/ KeyChanges \/ RowLost \/ UNCHANGED vars
    PROVE  TypeInv'
<1> USE DEF requestState, limiterState, signingState, serverState
<1>0. UNCHANGED <<pc, req, due, snap, answer, lock, mach, admitted>>
  BY DEF Tick, KeyChanges, RowLost, vars
<1>1. TypeOK'
  <2>1. CASE Tick
    <3>1. now' \in 0..MaxTime
      BY <2>1, FrontDoorAssumption DEF Tick, TypeInv, TypeOK
    <3> QED BY <2>1, <3>1 DEF Tick, TypeInv, TypeOK
  <2>2. CASE KeyChanges
    <3>1. faults' \in 0..MaxFaults
      BY <2>2, FaultType DEF KeyChanges, TypeInv
    <3>2. key' \in BOOLEAN
      BY <2>2 DEF KeyChanges, TypeInv, TypeOK
    <3> QED BY <2>2, <3>1, <3>2 DEF KeyChanges, TypeInv, TypeOK
  <2>3. CASE RowLost
    <3>1. faults' \in 0..MaxFaults
      BY <2>3, FaultType DEF RowLost, TypeInv
    <3>2. PICK i \in DOMAIN audit : /\ audit[i].hash # None
                                    /\ audit' = RemoveAt(audit, i)
                                    /\ lost' = lost \cup {audit[i].hash}
      BY <2>3 DEF RowLost
    <3>3. audit \in Seq(Row) /\ lost \subseteq Hash
      BY DEF TypeInv, TypeOK
    <3>4. audit[i] \in Row
      BY <3>3
    <3>5. audit[i].hash \in Hash
      BY <3>2, <3>4 DEF Row
    <3>6. audit' \in Seq(Row) /\ lost' \subseteq Hash
      BY <3>2, <3>3, <3>5, RemoveRow
    <3> QED BY <2>3, <3>1, <3>6, SMTT(30) DEF RowLost, TypeInv, TypeOK
  <2>4. CASE UNCHANGED vars
    BY <2>4 DEF vars, TypeInv, TypeOK
  <2> QED BY <2>1, <2>2, <2>3, <2>4
<1> QED BY <1>0, <1>1 DEF TypeInv, Stage, Holds, InFlight, Recorders

LEMMA TypeStep == TypeInv /\ [Next]_vars => TypeInv'
BY ArriveType, RecordType, RouteType, ProcessType, EnvironmentType DEF Next, Step

LEMMA TypeAlways == Spec => []TypeInv
BY InitType, TypeStep, PTL DEF Spec

(***************************************************************************)
(* Every variable keeps its type.                                          *)
(***************************************************************************)
THEOREM FrontDoorTypes == Spec => []TypeOK
<1>1. TypeInv => TypeOK
  BY DEF TypeInv
<1> QED BY <1>1, TypeAlways, PTL

-----------------------------------------------------------------------------
(* A machine that trusts its cache has seen a probe end well, and when. *)
Cached(m) ==
    mach[m] # "exited" =>
        healthyUntil[m] = 0 \/ (probe[m].good \in Nat /\ healthyUntil[m] = probe[m].good + TTL)

Proved(r) ==
    proof[r] # None =>
        proof[r].good \in Nat /\ proof[r].at \in Nat /\ proof[r].at < proof[r].good + TTL

ProbeInv == (\A m \in Machine : Cached(m)) /\ (\A r \in Req : Proved(r))

LEMMA ProbeStep == TypeInv /\ ProbeInv /\ [Next]_vars => ProbeInv'
<1> SUFFICES ASSUME TypeInv, ProbeInv, [Next]_vars PROVE ProbeInv'
  OBVIOUS
<1> USE DEF requestState, limiterState, signingState, serverState
<1>0. /\ probe \in [Machine -> [state : {"none", "sent", "signed", "failed"}, good : Nat \cup {None}]]
      /\ mach \in [Machine -> {"up", "draining", "exited"}]
      /\ now \in Nat /\ TTL \in Nat \ {0} /\ None \notin Nat
      /\ healthyUntil \in [Machine -> Nat]
      /\ proof \in [Req -> [at : Nat, good : Nat \cup {None}] \cup {None}]
  BY FrontDoorAssumption DEF TypeInv, TypeOK
<1>1. ASSUME UNCHANGED <<mach, healthyUntil, probe, proof>> PROVE ProbeInv'
  BY <1>1 DEF ProbeInv, Cached, Proved
<1>2. ASSUME NEW r \in Req, AssertReady(r) PROVE ProbeInv'
  <2>0. PICK m \in Machine : m = req[r].m /\ mach[m] # "exited"
    BY <1>2 DEF AssertReady, TypeInv, Stage, InFlight
  <2>1. CASE now < healthyUntil[m]
    <3>1. proof' = [proof EXCEPT ![r] = [at |-> now, good |-> probe[m].good]] /\ UNCHANGED <<mach, healthyUntil, probe>>
      BY <1>2, <2>0, <2>1 DEF AssertReady
    <3>2. probe[m].good \in Nat /\ healthyUntil[m] = probe[m].good + TTL
      BY <1>0, <2>0, <2>1 DEF ProbeInv, Cached
    <3> QED BY <1>0, <2>1, <3>1, <3>2 DEF ProbeInv, Cached, Proved
  <2>2. CASE ~(now < healthyUntil[m])
    <3>1. /\ proof' = proof /\ UNCHANGED <<mach, healthyUntil>>
          /\ probe' = probe \/ probe' = [probe EXCEPT ![m] = [probe[m] EXCEPT !.state = "sent"]]
      BY <1>2, <2>0, <2>2 DEF AssertReady
    <3>2. \A n \in Machine : probe'[n].good = probe[n].good
      BY <1>0, <3>1
    <3> QED BY <3>1, <3>2 DEF ProbeInv, Cached, Proved
  <2> QED BY <2>1, <2>2
<1>3. ASSUME NEW m \in Machine, ProbeSigns(m) PROVE ProbeInv'
  <2>1. /\ UNCHANGED <<mach, healthyUntil, proof>>
        /\ \/ probe' = [probe EXCEPT ![m] = [probe[m] EXCEPT !.state = "signed"]]
           \/ probe' = [probe EXCEPT ![m] = [probe[m] EXCEPT !.state = "failed"]]
    BY <1>3 DEF ProbeSigns
  <2>2. \A n \in Machine : probe'[n].good = probe[n].good
    <3>1. CASE probe' = [probe EXCEPT ![m] = [probe[m] EXCEPT !.state = "signed"]]
      BY <1>0, <3>1
    <3>2. CASE probe' = [probe EXCEPT ![m] = [probe[m] EXCEPT !.state = "failed"]]
      BY <1>0, <3>2
    <3> QED BY <2>1, <3>1, <3>2
  <2> QED BY <2>1, <2>2 DEF ProbeInv, Cached, Proved
<1>4. ASSUME NEW m \in Machine, ProbeSettles(m) PROVE ProbeInv'
  <2>0. PICK ok \in BOOLEAN : Settle(m, ok) /\ ok = (probe[m].state = "signed")
    BY <1>4 DEF ProbeSettles
  <2>1. PICK g \in Nat \cup {None} :
          /\ g = IF probe[m].state = "signed" THEN now ELSE probe[m].good
          /\ probe' = [probe EXCEPT ![m] = [state |-> "none", good |-> g]]
          /\ proof' = [r \in Req |-> IF (pc[r] = "await" /\ req[r].m = m) /\ ok
                                     THEN [at |-> now, good |-> g] ELSE proof[r]]
    BY <2>0, SettleDoes
  <2>2. /\ mach' = mach
        /\ healthyUntil' = [healthyUntil EXCEPT ![m] = IF probe[m].state = "signed" THEN now + TTL ELSE @]
    BY <2>0 DEF Settle
  <2>3. ASSUME NEW n \in Machine PROVE Cached(n)'
    <3>1. CASE n # m
      BY <1>0, <2>1, <2>2, <3>1 DEF ProbeInv, Cached
    <3>2. CASE n = m
      BY <1>0, <2>1, <2>2, <3>2 DEF ProbeInv, Cached
    <3> QED BY <3>1, <3>2
  <2>4. ASSUME NEW r \in Req PROVE Proved(r)'
    <3>1. CASE (pc[r] = "await" /\ req[r].m = m) /\ ok
      <4>1. proof'[r] = [at |-> now, good |-> now]
        BY <2>0, <2>1, <3>1
      <4> QED BY <1>0, <4>1 DEF Proved
    <3>2. CASE ~((pc[r] = "await" /\ req[r].m = m) /\ ok)
      <4>1. proof'[r] = proof[r]
        BY <2>1, <3>2
      <4> QED BY <4>1 DEF ProbeInv, Proved
    <3> QED BY <3>1, <3>2
  <2> QED BY <2>3, <2>4 DEF ProbeInv
<1>5. ASSUME NEW m \in Machine, ExitForced(m) PROVE ProbeInv'
  <2>1. /\ mach' = [mach EXCEPT ![m] = "exited"] /\ probe' = [probe EXCEPT ![m] = NoProbe]
        /\ UNCHANGED <<healthyUntil, proof>>
    BY <1>5 DEF ExitForced
  <2> QED BY <1>0, <2>1 DEF ProbeInv, Cached, Proved
<1>6. ASSUME NEW m \in Machine, Shutdown(m) \/ ExitDrained(m) PROVE ProbeInv'
  <2>1. /\ mach' = [mach EXCEPT ![m] = "draining"] \/ mach' = [mach EXCEPT ![m] = "exited"]
        /\ UNCHANGED <<healthyUntil, probe, proof>> /\ mach[m] # "exited"
    BY <1>0, <1>6 DEF Shutdown, ExitDrained
  <2> QED BY <1>0, <2>1 DEF ProbeInv, Cached, Proved
<1>7. ASSUME NEW r \in Req, ~AssertReady(r),
             Authenticate(r) \/ RejectBody(r) \/ Step(r) \/ RecordFails(r) \/ LimitFails(r)
      PROVE  UNCHANGED <<mach, healthyUntil, probe, proof>>
  BY <1>7 DEF Authenticate, RejectBody, Step, RecordBegin, RecordRead, RecordInsert, RecordSingle,
              LimitRate, Admit, RefuseDuplicate, Execute, RecordFails, LimitFails
<1>8. ASSUME Tick \/ KeyChanges \/ RowLost \/ UNCHANGED vars
      PROVE  UNCHANGED <<mach, healthyUntil, probe, proof>>
  BY <1>8 DEF Tick, KeyChanges, RowLost, vars
<1> QED BY <1>1, <1>2, <1>3, <1>4, <1>5, <1>6, <1>7, <1>8 DEF Next, Process

(***************************************************************************)
(* A request is released only when a probe of its machine was signed and   *)
(* verified less than TTL before (CachedSigningReadiness.assertReady): a   *)
(* failed probe vouches for nobody, and a machine that restarts its cache  *)
(* starts without one.                                                     *)
(***************************************************************************)
THEOREM ReleasedOnlyOnProof == Spec => []ReleasedOnProof
<1>1. Init => ProbeInv
  BY DEF Init, ProbeInv, Cached, Proved
<1>2. ProbeInv => ReleasedOnProof
  BY FrontDoorAssumption DEF ProbeInv, Proved, ReleasedOnProof
<1> QED BY <1>1, <1>2, ProbeStep, TypeAlways, PTL DEF Spec

-----------------------------------------------------------------------------
(* The requests of a caller that one window let through. *)
In(c, w) == {r \in Req : req[r].c = c /\ admitted[r] = w}

(* The counter's row counts at least the requests its window let through,  *)
(* and no later window has let any through.                                *)
Counted(c, w) ==
    /\ w > count[<<DB, c>>].reset => In(c, w) = {}
    /\ w = count[<<DB, c>>].reset => Cardinality(In(c, w)) <= count[<<DB, c>>].hits
    /\ Cardinality(In(c, w)) <= Limit

LimitInv == \A c \in Caller, w \in Nat : Counted(c, w)

LEMMA InFinite ==
    ASSUME NEW c, NEW w
    PROVE  IsFiniteSet(In(c, w)) /\ Cardinality(In(c, w)) \in Nat
<1>1. In(c, w) \in SUBSET Req
  BY DEF In
<1>2. IsFiniteSet(In(c, w))
  BY <1>1, FrontDoorAssumption, FS_Subset
<1> QED BY <1>2, FS_CardinalityType

LEMMA LimitStep == TypeInv /\ LimitInv /\ [Next]_vars => LimitInv'
<1> SUFFICES ASSUME TypeInv, LimitInv, [Next]_vars PROVE LimitInv'
  OBVIOUS
<1> USE DEF requestState, limiterState, signingState, serverState
<1>0. /\ count \in [Store \X Caller -> [hits : Nat, reset : Nat]]
      /\ admitted \in [Req -> Nat \cup {None}] /\ None \notin Nat
      /\ now \in Nat /\ Window \in Nat \ {0} /\ Limit \in Nat \ {0}
      /\ req \in [Req -> [m : Machine \cup {None}, c : Caller \cup {None}, route : Routes, kind : Kinds]]
      /\ \A c \in Caller : <<DB, c>> \in Store \X Caller
  BY FrontDoorAssumption DEF TypeInv, TypeOK, Store
<1>1. ASSUME UNCHANGED <<count, admitted>>, \A r \in Req : admitted[r] # None => req'[r] = req[r]
      PROVE  LimitInv'
  <2>1. \A c \in Caller, w \in Nat : In(c, w)' = In(c, w)
    BY <1>0, <1>1 DEF In
  <2> QED BY <1>1, <2>1 DEF LimitInv, Counted
<1>2. ASSUME NEW r \in Req, LimitRate(r) PROVE LimitInv'
  <2>0. PICK c \in Caller : c = req[r].c
    BY <1>2 DEF LimitRate, TypeInv, Stage
  <2>1. PICK row \in [hits : Nat, reset : Nat] : row = Increment(<<DB, c>>)
    BY CountType
  <2>2. /\ count' = [count EXCEPT ![<<DB, c>>] = row] /\ req' = req
        /\ \/ row.hits > Limit /\ admitted' = admitted
           \/ row.hits <= Limit /\ admitted' = [admitted EXCEPT ![r] = row.reset]
    BY <1>2, <1>0, <2>0, <2>1 DEF LimitRate, StoreOf
  <2>3. \/ /\ count[<<DB, c>>].reset <= now
           /\ row.hits = 1 /\ row.reset = now + Window /\ row.reset > count[<<DB, c>>].reset
        \/ row.hits = count[<<DB, c>>].hits + 1 /\ row.reset = count[<<DB, c>>].reset
    <3>1. count[<<DB, c>>] \in [hits : Nat, reset : Nat]
      BY <1>0
    <3>2. CASE count[<<DB, c>>].reset <= now
      <4>1. row = [hits |-> 1, reset |-> now + Window]
        BY <2>1, <3>2 DEF Increment
      <4> QED BY <1>0, <3>1, <3>2, <4>1
    <3>3. CASE ~(count[<<DB, c>>].reset <= now)
      <4>1. row = [count[<<DB, c>>] EXCEPT !.hits = @ + 1]
        BY <2>1, <3>3 DEF Increment
      <4> QED BY <3>1, <4>1
    <3> QED BY <3>2, <3>3
  <2>4. row.hits \in Nat /\ row.reset \in Nat /\ row.hits > 0
        /\ count[<<DB, c>>].hits \in Nat /\ count[<<DB, c>>].reset \in Nat
    BY <1>0, <2>1, <2>3
  <2>5. count'[<<DB, c>>] = row /\ \A d \in Caller \ {c} : count'[<<DB, d>>] = count[<<DB, d>>]
    BY <1>0, <2>2
  <2>6. ASSUME NEW d \in Caller, NEW w \in Nat PROVE Counted(d, w)'
    <3>0. Counted(d, w) /\ IsFiniteSet(In(d, w)) /\ Cardinality(In(d, w)) \in Nat
      BY InFinite DEF LimitInv
    <3>1. CASE d # c
      <4>1. In(d, w)' = In(d, w)
        BY <1>0, <2>0, <2>2, <3>1 DEF In
      <4> QED BY <2>5, <3>0, <3>1, <4>1 DEF Counted
    <3>2. CASE d = c /\ admitted' = admitted
      <4>1. In(d, w)' = In(d, w)
        BY <2>2, <3>2 DEF In
      <4>2. row.reset >= count[<<DB, c>>].reset
        BY <2>3, <2>4
      <4>3. In(d, w) = {} => Cardinality(In(d, w)) = 0
        BY FS_EmptySet
      <4>4. w > row.reset => In(d, w) = {}
        BY <2>4, <3>0, <3>2, <4>2 DEF Counted
      <4>5. w = row.reset => Cardinality(In(d, w)) <= row.hits
        <5>1. CASE row.reset > count[<<DB, c>>].reset
          BY <2>4, <3>0, <3>2, <4>3, <5>1 DEF Counted
        <5>2. CASE row.hits = count[<<DB, c>>].hits + 1 /\ row.reset = count[<<DB, c>>].reset
          BY <2>4, <3>0, <3>2, <5>2 DEF Counted
        <5> QED BY <2>3, <5>1, <5>2
      <4> QED BY <2>5, <3>0, <3>2, <4>1, <4>4, <4>5 DEF Counted
    <3>3. CASE d = c /\ row.hits <= Limit /\ admitted' = [admitted EXCEPT ![r] = row.reset]
      <4>1. CASE w = row.reset
        <5>1. In(d, w)' = In(d, w) \cup {r}
          BY <1>0, <2>0, <2>2, <3>3, <4>1 DEF In
        <5>2. Cardinality(In(d, w)') <= Cardinality(In(d, w)) + 1
          <6>1. Cardinality(In(d, w) \cup {r}) =
                  IF r \in In(d, w) THEN Cardinality(In(d, w)) ELSE Cardinality(In(d, w)) + 1
            BY <3>0, FS_AddElement
          <6> QED BY <3>0, <5>1, <6>1
        <5>3. Cardinality(In(d, w)) + 1 <= row.hits
          <6>1. CASE row.reset > count[<<DB, c>>].reset
            <7>1. In(d, w) = {}
              BY <2>4, <3>0, <3>3, <4>1, <6>1 DEF Counted
            <7>2. Cardinality(In(d, w)) = 0
              BY <7>1, FS_EmptySet
            <7> QED BY <2>4, <7>2
          <6>2. CASE row.hits = count[<<DB, c>>].hits + 1 /\ row.reset = count[<<DB, c>>].reset
            BY <2>4, <3>0, <3>3, <4>1, <6>2 DEF Counted
          <6> QED BY <2>3, <6>1, <6>2
        <5>4. Cardinality(In(d, w)') \in Nat
          <6>1. IsFiniteSet(In(d, w) \cup {r})
            BY <3>0, FS_AddElement
          <6> QED BY <5>1, <6>1, FS_CardinalityType
        <5>5. Cardinality(In(d, w)') <= row.hits /\ Cardinality(In(d, w)') <= Limit
          BY <1>0, <2>4, <3>0, <3>3, <5>2, <5>3, <5>4
        <5> QED BY <2>4, <2>5, <3>3, <4>1, <5>5 DEF Counted
      <4>2. CASE w # row.reset
        <5>1. In(d, w)' \subseteq In(d, w)
          BY <1>0, <2>2, <3>3, <4>2 DEF In
        <5>2. Cardinality(In(d, w)') <= Cardinality(In(d, w)) /\ Cardinality(In(d, w)') \in Nat
          <6>1. PICK T \in SUBSET In(d, w) : T = In(d, w)'
            BY <5>1
          <6>2. IsFiniteSet(T) /\ Cardinality(T) <= Cardinality(In(d, w))
            BY <3>0, <6>1, FS_Subset
          <6> QED BY <6>1, <6>2, FS_CardinalityType
        <5>3. row.reset >= count[<<DB, c>>].reset
          BY <2>3, <2>4
        <5>4. w > row.reset => In(d, w)' = {}
          BY <2>4, <3>0, <3>3, <5>1, <5>3 DEF Counted
        <5>5. Cardinality(In(d, w)') <= Limit
          BY <1>0, <3>0, <5>2 DEF Counted
        <5> QED BY <2>5, <3>3, <4>2, <5>4, <5>5 DEF Counted
      <4> QED BY <4>1, <4>2
    <3> QED BY <2>2, <3>1, <3>2, <3>3
  <2> QED BY <2>6 DEF LimitInv
<1>3. ASSUME NEW r \in Req, Authenticate(r) \/ RejectBody(r) PROVE LimitInv'
  <2>1. pc[r] = "idle" /\ admitted[r] = None
    BY <1>3 DEF Authenticate, RejectBody, TypeInv, Stage
  <2>2. UNCHANGED <<count, admitted>> /\ \A q \in Req \ {r} : req'[q] = req[q]
    BY <1>0, <1>3 DEF Authenticate, RejectBody
  <2> QED BY <1>1, <2>1, <2>2
<1>4. ASSUME NEW r \in Req, ~LimitRate(r), Step(r) \/ RecordFails(r) \/ LimitFails(r)
      PROVE  UNCHANGED <<count, admitted, req>>
  BY <1>4 DEF Step, RecordBegin, RecordRead, RecordInsert, RecordSingle, Admit, RefuseDuplicate,
              AssertReady, Execute, RecordFails, LimitFails
<1>5. ASSUME NEW m \in Machine, Process(m) \/ Shutdown(m)
      PROVE  UNCHANGED <<count, admitted, req>>
  BY <1>5 DEF Process, ProbeSigns, ProbeSettles, Settle, ExitDrained, ExitForced, Shutdown
<1>6. ASSUME Tick \/ KeyChanges \/ RowLost \/ UNCHANGED vars
      PROVE  UNCHANGED <<count, admitted, req>>
  BY <1>6 DEF Tick, KeyChanges, RowLost, vars
<1>7. CASE UNCHANGED <<count, admitted, req>>
  BY <1>1, <1>7
<1> QED BY <1>2, <1>3, <1>4, <1>5, <1>6, <1>7 DEF Next

(***************************************************************************)
(* The whole fleet lets at most Limit requests of a caller through POST    *)
(* /execute in one window, however the machines' counts interleave and     *)
(* whenever the window rolls over (PostgresRateLimitStore.increment).      *)
(***************************************************************************)
THEOREM FleetWithinLimit == Spec => []AdmittedWithinLimit
<1>1. Init => LimitInv
  <2> SUFFICES ASSUME Init, NEW c \in Caller, NEW w \in Nat PROVE Counted(c, w)
    BY DEF LimitInv
  <2>1. In(c, w) = {}
    BY FrontDoorAssumption DEF Init, In
  <2>2. Cardinality(In(c, w)) = 0
    BY <2>1, FS_EmptySet
  <2>3. count[<<DB, c>>] = [hits |-> 0, reset |-> 0]
    BY DEF Init, Store
  <2> QED BY <2>1, <2>2, <2>3, FrontDoorAssumption DEF Counted
<1>2. LimitInv => AdmittedWithinLimit
  <2> SUFFICES ASSUME LimitInv, NEW c \in Caller, NEW w \in 1..(MaxTime + Window)
               PROVE  Cardinality({r \in Req : req[r].c = c /\ admitted[r] = w}) <= Limit
    BY DEF AdmittedWithinLimit
  <2>1. w \in Nat
    BY FrontDoorAssumption
  <2> QED BY <2>1 DEF LimitInv, Counted, In
<1> QED BY <1>1, <1>2, LimitStep, TypeAlways, PTL DEF Spec

-----------------------------------------------------------------------------
(* The events a request has stored. *)
Wrote(r) == {e \in Events : <<r, e>> \in wrote}

(* What a request that is recording has to store next, given what it has   *)
(* stored already.                                                         *)
Owed(r) ==
    \/ /\ due[r] = [ev |-> "rejected", then |-> "done", status |-> 401]
       /\ Wrote(r) = {}
    \/ /\ due[r].ev = "authenticated" /\ due[r].then \in {"limit", "route"} /\ due[r].status = None
       /\ Wrote(r) = {}
    \/ /\ req[r].kind \in {"badId", "badPrincipal", "badCapability"}
       /\ due[r] = [ev |-> Refusal(req[r].kind).ev, then |-> "done",
                    status |-> Refusal(req[r].kind).status]
       /\ Wrote(r) = {"authenticated"}
    \/ /\ due[r] = [ev |-> "capability_granted", then |-> "ready", status |-> None]
       /\ Wrote(r) = {"authenticated"}
    \/ /\ req[r].kind = "duplicate"
       /\ due[r] = [ev |-> Refusal("duplicate").ev, then |-> "done",
                    status |-> Refusal("duplicate").status]
       /\ Wrote(r) = {"authenticated", "capability_granted"}

Answered(r) ==
    /\ answer[r] = 401 => "rejected" \in Wrote(r)
    /\ answer[r] \in {200, 403, 409, 429} => "authenticated" \in Wrote(r)
    /\ answer[r] = 200 => "capability_granted" \in Wrote(r)
    /\ answer[r] \in {403, 409} => Refusal(req[r].kind).ev \in Wrote(r)

Trail(r) ==
    /\ pc[r] = "idle" => Wrote(r) = {}
    /\ pc[r] \in {"limit", "route"} => Wrote(r) = {"authenticated"}
    /\ pc[r] \in {"ready", "await", "release"} => Wrote(r) = {"authenticated", "capability_granted"}
    /\ pc[r] \in Recorders => Owed(r)
    /\ Answered(r)

AuditInv == \A r \in Req : Trail(r)

LEMMA RefusalIs ==
    /\ Refusal("badId") = [ev |-> "structural_rejected", status |-> 400]
    /\ Refusal("badPrincipal") = [ev |-> "principal_denied", status |-> 403]
    /\ Refusal("badCapability") = [ev |-> "capability_denied", status |-> 403]
    /\ Refusal("duplicate") = [ev |-> "structural_rejected", status |-> 409]
BY DEF Refusal

(* An event is stored once. *)
LEMMA OwedIsNew ==
    ASSUME TypeInv, NEW r \in Req, Owed(r)
    PROVE  due[r].ev \in Events /\ <<r, due[r].ev>> \notin wrote
<1>1. due[r].ev \in Events \ Wrote(r)
  <2>1. {"rejected", "authenticated", "structural_rejected", "principal_denied",
         "capability_denied", "capability_granted"} = Events
    BY DEF Events
  <2> HIDE DEF Wrote
  <2> QED BY <2>1, RefusalIs DEF Owed
<1> QED BY <1>1 DEF Wrote

(* A request with nothing of its own changed keeps its trail. *)
LEMMA TrailKept ==
    ASSUME NEW q \in Req, Trail(q), pc'[q] = pc[q], req'[q] = req[q], due'[q] = due[q],
           answer'[q] = answer[q], Wrote(q)' = Wrote(q)
    PROVE  Trail(q)'
BY DEF Trail, Owed, Answered

LEMMA WroteOf ==
    ASSUME NEW r \in Req, NEW e \in Events, wrote' = wrote \cup {<<r, e>>}
    PROVE  /\ Wrote(r)' = Wrote(r) \cup {e}
           /\ \A q \in Req \ {r} : Wrote(q)' = Wrote(q)
BY DEF Wrote

LEMMA RecordedTrail ==
    ASSUME TypeInv, NEW r \in Req, Trail(r), pc[r] \in {"insert", "single"}, Recorded(r), req' = req
    PROVE  Trail(r)' /\ \A q \in Req \ {r} : Trail(q) => Trail(q)'
<1>0. /\ pc \in [Req -> {"idle", "record", "read", "insert", "single", "limit", "route",
                         "ready", "await", "release", "done", "cut"}]
      /\ answer \in [Req -> {None, 200, 400, 401, 403, 409, 429, 500, 503}]
      /\ due \in [Req -> Due \cup {None}] /\ None \notin Nat
  BY FrontDoorAssumption DEF TypeInv, TypeOK
<1>1. Owed(r)
  BY DEF Trail, Recorders
<1>2. PICK e \in Events : e = due[r].ev
  BY <1>1, OwedIsNew
<1>3. Wrote(r)' = Wrote(r) \cup {e} /\ \A q \in Req \ {r} : Wrote(q)' = Wrote(q)
  BY <1>2, WroteOf DEF Recorded
<1>4. pc'[r] = due[r].then /\ answer'[r] = due[r].status
  BY <1>0 DEF Recorded, Goto
<1>5. ASSUME NEW q \in Req \ {r}, Trail(q) PROVE Trail(q)'
  <2>1. pc'[q] = pc[q] /\ due'[q] = due[q] /\ answer'[q] = answer[q] /\ req'[q] = req[q]
    BY <1>0 DEF Recorded, Goto
  <2> QED BY <1>3, <1>5, <2>1, TrailKept
<1>6. Trail(r)'
  <2> HIDE DEF Wrote
  <2>1. CASE due[r] = [ev |-> "rejected", then |-> "done", status |-> 401]
    BY <1>2, <1>3, <1>4, <2>1 DEF Trail, Answered, Recorders
  <2>2. CASE due[r].ev = "authenticated" /\ due[r].then \in {"limit", "route"}
             /\ due[r].status = None /\ Wrote(r) = {}
    BY <1>0, <1>2, <1>3, <1>4, <2>2 DEF Trail, Answered, Recorders
  <2>3. CASE /\ req[r].kind \in {"badId", "badPrincipal", "badCapability"}
             /\ due[r] = [ev |-> Refusal(req[r].kind).ev, then |-> "done",
                          status |-> Refusal(req[r].kind).status]
             /\ Wrote(r) = {"authenticated"}
    BY <1>2, <1>3, <1>4, <2>3, RefusalIs DEF Trail, Answered, Recorders
  <2>4. CASE /\ due[r] = [ev |-> "capability_granted", then |-> "ready", status |-> None]
             /\ Wrote(r) = {"authenticated"}
    BY <1>0, <1>2, <1>3, <1>4, <2>4 DEF Trail, Answered, Recorders
  <2>5. CASE /\ req[r].kind = "duplicate"
             /\ due[r] = [ev |-> Refusal("duplicate").ev, then |-> "done",
                          status |-> Refusal("duplicate").status]
             /\ Wrote(r) = {"authenticated", "capability_granted"}
    BY <1>2, <1>3, <1>4, <2>5, RefusalIs DEF Trail, Answered, Recorders
  <2> QED BY <1>1, <2>1, <2>2, <2>3, <2>4, <2>5 DEF Owed
<1> QED BY <1>5, <1>6

LEMMA TrailStep == TypeInv /\ AuditInv /\ [Next]_vars => AuditInv'
<1> SUFFICES ASSUME TypeInv, AuditInv, [Next]_vars PROVE AuditInv'
  OBVIOUS
<1> USE DEF requestState, limiterState, signingState, serverState
<1>0. /\ pc \in [Req -> {"idle", "record", "read", "insert", "single", "limit", "route",
                         "ready", "await", "release", "done", "cut"}]
      /\ answer \in [Req -> {None, 200, 400, 401, 403, 409, 429, 500, 503}]
      /\ due \in [Req -> Due \cup {None}] /\ None \notin Nat
      /\ req \in [Req -> [m : Machine \cup {None}, c : Caller \cup {None}, route : Routes, kind : Kinds]]
      /\ wrote \subseteq Hash
  BY FrontDoorAssumption DEF TypeInv, TypeOK
<1>t. \A r \in Req : Trail(r)
  BY DEF AuditInv
<1>w. ASSUME wrote' = wrote PROVE \A r \in Req : Wrote(r)' = Wrote(r)
  BY <1>w DEF Wrote
(* One request moves, and what it then has to say for itself is true. *)
<1>m. ASSUME NEW r \in Req, Trail(r)', wrote' = wrote,
             \A q \in Req \ {r} : /\ pc'[q] = pc[q] /\ req'[q] = req[q] /\ due'[q] = due[q]
                                  /\ answer'[q] = answer[q]
      PROVE  AuditInv'
  <2>1. ASSUME NEW q \in Req \ {r} PROVE Trail(q)'
    BY <1>t, <1>w, <1>m, TrailKept
  <2> QED BY <1>m, <2>1 DEF AuditInv
<1>1. ASSUME NEW r \in Req, Authenticate(r) PROVE AuditInv'
  <2>1. PICK m \in Machine, c \in Caller \cup {None}, rt \in Routes, k \in Kinds :
          /\ req' = [req EXCEPT ![r] = [m |-> m, c |-> c, route |-> rt, kind |-> k]]
          /\ IF c = None
             THEN Recording(r, c, "rejected", "done", 401)
             ELSE Recording(r, c, "authenticated",
                            IF rt = "execute" THEN "limit" ELSE "route", None)
    BY <1>1 DEF Authenticate
  <2>2. wrote' = wrote /\ answer' = answer /\ pc[r] = "idle" /\ answer[r] = None
    BY <1>1 DEF Authenticate, TypeInv, Stage
  <2>3. /\ pc'[r] \in {"single", "record"}
        /\ \/ due'[r] = [ev |-> "rejected", then |-> "done", status |-> 401]
           \/ /\ due'[r].ev = "authenticated" /\ due'[r].then \in {"limit", "route"}
              /\ due'[r].status = None
        /\ \A q \in Req \ {r} : /\ pc'[q] = pc[q] /\ req'[q] = req[q] /\ due'[q] = due[q]
                                /\ answer'[q] = answer[q]
    BY <1>0, <2>1, <2>2 DEF Recording, Goto
  <2>4. Wrote(r)' = {}
    BY <1>t, <1>w, <2>2 DEF Trail
  <2>5. Owed(r)'
    BY <2>3, <2>4 DEF Owed
  <2>6. Trail(r)'
    BY <1>0, <2>2, <2>3, <2>5 DEF Trail, Answered
  <2> QED BY <1>m, <2>2, <2>3, <2>6
<1>2. ASSUME NEW r \in Req, RejectBody(r) PROVE AuditInv'
  <2>1. /\ pc'[r] = "done" /\ answer'[r] = 400
        /\ \A q \in Req \ {r} : /\ pc'[q] = pc[q] /\ req'[q] = req[q] /\ due'[q] = due[q]
                                /\ answer'[q] = answer[q]
    BY <1>0, <1>2 DEF RejectBody, Reply, Goto
  <2>2. "structural_rejected" \in Events
    BY DEF Events
  <2>3. \A q \in Req \ {r} : Wrote(q)' = Wrote(q)
    <3>1. CASE wrote' = wrote
      BY <1>w, <3>1
    <3>2. CASE wrote' = wrote \cup {<<r, "structural_rejected">>}
      BY <2>2, <3>2, WroteOf
    <3> QED BY <1>2, <3>1, <3>2 DEF RejectBody
  <2>4. Trail(r)'
    BY <2>1 DEF Trail, Answered, Recorders
  <2>5. ASSUME NEW q \in Req \ {r} PROVE Trail(q)'
    BY <1>t, <2>1, <2>3, TrailKept
  <2> QED BY <2>4, <2>5 DEF AuditInv
<1>3. ASSUME NEW r \in Req, RecordBegin(r) \/ RecordRead(r) PROVE AuditInv'
  <2>1. /\ pc[r] \in Recorders /\ pc'[r] \in {"read", "insert"} /\ UNCHANGED <<req, due, answer, wrote>>
        /\ \A q \in Req \ {r} : pc'[q] = pc[q]
    BY <1>0, <1>3 DEF RecordBegin, RecordRead, Goto, Recorders
  <2>2. Trail(r)'
    <3>1. Owed(r) /\ Answered(r) /\ Wrote(r)' = Wrote(r)
      BY <1>t, <1>w, <2>1 DEF Trail
    <3>2. Owed(r)' /\ Answered(r)'
      BY <2>1, <3>1 DEF Owed, Answered
    <3> QED BY <2>1, <3>2 DEF Trail
  <2> QED BY <1>m, <2>1, <2>2
<1>4. ASSUME NEW r \in Req, RecordInsert(r) \/ RecordSingle(r) PROVE AuditInv'
  <2>1. Recorded(r) /\ req' = req /\ pc[r] \in {"insert", "single"}
    BY <1>4 DEF RecordInsert, RecordSingle
  <2> QED BY <1>t, <2>1, RecordedTrail DEF AuditInv
<1>5. ASSUME NEW r \in Req, RecordFails(r) \/ LimitFails(r) PROVE AuditInv'
  <2>1. /\ pc'[r] = "done" /\ answer'[r] \in {500, 503} /\ UNCHANGED <<req, due, wrote>>
        /\ \A q \in Req \ {r} : pc'[q] = pc[q] /\ answer'[q] = answer[q]
    BY <1>0, <1>5 DEF RecordFails, LimitFails, Reply, Goto
  <2>2. Trail(r)'
    BY <2>1 DEF Trail, Answered, Recorders
  <2> QED BY <1>m, <2>1, <2>2
<1>6. ASSUME NEW r \in Req, LimitRate(r) PROVE AuditInv'
  <2>1. /\ \/ pc'[r] = "done" /\ answer'[r] = 429
           \/ pc'[r] = "route" /\ answer'[r] = answer[r]
        /\ UNCHANGED <<req, due, wrote>> /\ pc[r] = "limit"
        /\ \A q \in Req \ {r} : pc'[q] = pc[q] /\ answer'[q] = answer[q]
    BY <1>0, <1>6 DEF LimitRate, Reply, Goto
  <2>2. Wrote(r) = {"authenticated"} /\ Wrote(r)' = Wrote(r) /\ Answered(r)
    BY <1>t, <1>w, <2>1 DEF Trail
  <2>3. Trail(r)'
    <3>1. CASE pc'[r] = "done" /\ answer'[r] = 429
      BY <2>2, <3>1 DEF Trail, Answered, Recorders
    <3>2. CASE pc'[r] = "route" /\ answer'[r] = answer[r]
      BY <2>1, <2>2, <3>2 DEF Trail, Answered, Recorders
    <3> QED BY <2>1, <3>1, <3>2
  <2> QED BY <1>m, <2>1, <2>3
<1>7. ASSUME NEW r \in Req, Admit(r) \/ RefuseDuplicate(r) PROVE AuditInv'
  <2>0. req[r].c \in Caller /\ None \notin Caller
    BY <1>7, FrontDoorAssumption DEF Admit, RefuseDuplicate, TypeInv, Stage
  <2>1. PICK d :
          /\ due' = [due EXCEPT ![r] = d]
          /\ \/ /\ Admit(r) /\ req[r].kind \in {"badId", "badPrincipal", "badCapability"}
                /\ d = [ev |-> Refusal(req[r].kind).ev, then |-> "done",
                        status |-> Refusal(req[r].kind).status]
             \/ Admit(r) /\ d = [ev |-> "capability_granted", then |-> "ready", status |-> None]
             \/ /\ RefuseDuplicate(r) /\ req[r].kind = "duplicate"
                /\ d = [ev |-> Refusal("duplicate").ev, then |-> "done",
                        status |-> Refusal("duplicate").status]
    BY <1>7 DEF Admit, RefuseDuplicate, Recording
  <2>2. /\ UNCHANGED <<req, answer, wrote>> /\ due'[r] = d /\ pc'[r] = "record"
        /\ \A q \in Req \ {r} : pc'[q] = pc[q] /\ due'[q] = due[q]
    BY <1>0, <1>7, <2>0, <2>1 DEF Admit, RefuseDuplicate, Recording, Goto
  <2>3. /\ Admit(r) => Wrote(r) = {"authenticated"}
        /\ RefuseDuplicate(r) => Wrote(r) = {"authenticated", "capability_granted"}
        /\ Answered(r) /\ Wrote(r)' = Wrote(r)
    BY <1>t, <1>w, <2>2 DEF Admit, RefuseDuplicate, Trail
  <2>4. Owed(r)'
    BY <2>1, <2>2, <2>3 DEF Owed
  <2>5. Trail(r)'
    BY <2>2, <2>3, <2>4 DEF Trail, Answered
  <2> QED BY <1>m, <2>2, <2>5
<1>8. ASSUME NEW r \in Req, AssertReady(r) \/ Execute(r) PROVE AuditInv'
  <2>1. /\ \/ pc'[r] = "done" /\ answer'[r] = 200
           \/ pc'[r] \in {"await", "release"} /\ answer'[r] = answer[r]
        /\ UNCHANGED <<req, due, wrote>> /\ pc[r] \in {"ready", "release"}
        /\ \A q \in Req \ {r} : pc'[q] = pc[q] /\ answer'[q] = answer[q]
    BY <1>0, <1>8 DEF AssertReady, Execute, Reply, Goto
  <2>2. Wrote(r) = {"authenticated", "capability_granted"} /\ Wrote(r)' = Wrote(r) /\ Answered(r)
    BY <1>t, <1>w, <2>1 DEF Trail
  <2>3. Trail(r)'
    <3>1. CASE pc'[r] = "done" /\ answer'[r] = 200
      BY <2>2, <3>1 DEF Trail, Answered, Recorders
    <3>2. CASE pc'[r] \in {"await", "release"} /\ answer'[r] = answer[r]
      BY <2>1, <2>2, <3>2 DEF Trail, Answered, Recorders
    <3> QED BY <2>1, <3>1, <3>2
  <2> QED BY <1>m, <2>1, <2>3
<1>9. ASSUME NEW m \in Machine, Process(m) \/ Shutdown(m) PROVE AuditInv'
  <2>1. UNCHANGED <<req, due, wrote>>
    BY <1>9 DEF Process, ProbeSigns, ProbeSettles, Settle, ExitDrained, ExitForced, Shutdown
  <2>2. ASSUME NEW q \in Req PROVE Trail(q)'
    <3>1. \/ pc'[q] = pc[q] /\ answer'[q] = answer[q]
          \/ pc'[q] = "cut" /\ answer'[q] = answer[q]
          \/ pc[q] = "await" /\ pc'[q] = "release" /\ answer'[q] = answer[q]
          \/ pc'[q] = "done" /\ answer'[q] = 503
      <4>1. CASE ProbeSettles(m)
        <5>1. PICK ok \in BOOLEAN : Settle(m, ok)
          BY <4>1 DEF ProbeSettles
        <5>2. /\ pc'[q] = IF pc[q] = "await" /\ req[q].m = m
                          THEN IF ok THEN "release" ELSE "done" ELSE pc[q]
              /\ answer'[q] = IF (pc[q] = "await" /\ req[q].m = m) /\ ~ok THEN 503 ELSE answer[q]
          BY <5>1 DEF Settle
        <5> QED BY <5>2
      <4>2. CASE ExitForced(m)
        BY <4>2 DEF ExitForced
      <4>3. CASE ProbeSigns(m) \/ ExitDrained(m) \/ Shutdown(m)
        BY <4>3 DEF ProbeSigns, ExitDrained, Shutdown
      <4> QED BY <1>9, <4>1, <4>2, <4>3 DEF Process
    <3>2. Trail(q) /\ Wrote(q)' = Wrote(q)
      BY <1>t, <1>w, <2>1
    <3>3. CASE pc'[q] = pc[q] /\ answer'[q] = answer[q]
      BY <2>1, <3>2, <3>3, TrailKept
    <3>4. CASE pc'[q] = "cut" /\ answer'[q] = answer[q]
      BY <2>1, <3>2, <3>4 DEF Trail, Answered, Recorders
    <3>5. CASE pc[q] = "await" /\ pc'[q] = "release" /\ answer'[q] = answer[q]
      BY <2>1, <3>2, <3>5 DEF Trail, Answered, Recorders
    <3>6. CASE pc'[q] = "done" /\ answer'[q] = 503
      BY <3>6 DEF Trail, Answered, Recorders
    <3> QED BY <3>1, <3>3, <3>4, <3>5, <3>6
  <2> QED BY <2>2 DEF AuditInv
<1>10. ASSUME Tick \/ KeyChanges \/ RowLost \/ UNCHANGED vars PROVE AuditInv'
  <2>1. UNCHANGED <<pc, req, due, answer, wrote>>
    BY <1>10 DEF Tick, KeyChanges, RowLost, vars
  <2> QED BY <1>t, <1>w, <2>1, TrailKept DEF AuditInv
<1> QED BY <1>1, <1>2, <1>3, <1>4, <1>5, <1>6, <1>7, <1>8, <1>9, <1>10 DEF Next, Step

LEMMA TrailAlways == Spec => []AuditInv
<1>1. ASSUME Init, NEW r \in Req PROVE Trail(r)
  <2>1. Wrote(r) = {}
    BY <1>1 DEF Init, Wrote
  <2>2. pc[r] = "idle" /\ answer[r] = None /\ None \notin Nat
    BY <1>1, FrontDoorAssumption DEF Init
  <2>3. answer[r] \notin {401, 200, 403, 409, 429}
    BY <2>2
  <2> QED BY <2>1, <2>2, <2>3 DEF Trail, Answered, Recorders
<1>2. Init => AuditInv
  <2> HIDE DEF Trail
  <2> QED BY <1>1 DEF AuditInv
<1> QED BY <1>2, TrailStep, TypeAlways, PTL DEF Spec

(***************************************************************************)
(* No answer without its record: whichever database call fails on the way, *)
(* a denial, a refusal or an execution is answered only once the events    *)
(* that record it are stored (recordCallerAuditEvent and its callers).     *)
(***************************************************************************)
THEOREM AnswersAreAudited == Spec => []AnsweredIsAudited
<1>1. ASSUME AuditInv, NEW r \in Req
      PROVE  /\ answer[r] = 401 => <<r, "rejected">> \in wrote
             /\ answer[r] \in {200, 403, 409, 429} => <<r, "authenticated">> \in wrote
             /\ answer[r] = 200 => <<r, "capability_granted">> \in wrote
             /\ answer[r] \in {403, 409} => <<r, Refusal(req[r].kind).ev>> \in wrote
  <2>1. Answered(r)
    BY <1>1 DEF AuditInv, Trail
  <2>2. \A e : e \in Wrote(r) => <<r, e>> \in wrote
    BY DEF Wrote
  <2> QED BY <2>1, <2>2 DEF Answered
<1>2. AuditInv => AnsweredIsAudited
  BY <1>1 DEF AnsweredIsAudited
<1> QED BY <1>2, TrailAlways, PTL

-----------------------------------------------------------------------------
(* A link written or about to be written at position n of a caller's trail *)
(* names the row before it, or one that has been lost since it was read.   *)
Links(h, c, n) == h = LinkBefore(c, n).hash \/ h \in lost

Chained(i) == audit[i].hash # None

(* The stored hashes are those of recorded events that are not lost, no    *)
(* two rows share one, and every link is right or names a lost row.        *)
HashInv ==
    /\ lost \subseteq wrote
    /\ \A i \in DOMAIN audit : Chained(i) => audit[i].hash \in wrote \ lost
    /\ \A i, j \in DOMAIN audit : Chained(i) /\ audit[i].hash = audit[j].hash => i = j

LinkInv ==
    /\ \A i \in DOMAIN audit : Chained(i) => Links(audit[i].prev, audit[i].caller, i)
    /\ \A r \in Req : pc[r] = "insert" => Links(snap[r].hash, req[r].c, Len(audit) + 1)

ChainInv == HashInv /\ LinkInv

LEMMA AppendKeepsLinks ==
    ASSUME TypeOK, NEW row \in Row, audit' = Append(audit, row), NEW c, NEW n \in Nat
    PROVE  /\ n <= Len(audit) + 1 => LinkBefore(c, n)' = LinkBefore(c, n)
           /\ n = Len(audit) + 1 /\ row.caller # c => LinkBefore(c, n + 1)' = LinkBefore(c, n)
<1>0. audit \in Seq(Row) /\ Len(audit) \in Nat
  BY DEF TypeOK
<1>1. /\ DOMAIN audit' = 1..(Len(audit) + 1) /\ DOMAIN audit = 1..Len(audit)
      /\ \A i \in DOMAIN audit : audit'[i] = audit[i]
      /\ audit'[Len(audit) + 1] = row
  BY <1>0
<1>2. ASSUME NEW k \in Nat, Before(c, k)' = Before(c, n)
      PROVE  LinkBefore(c, k)' = LinkBefore(c, n)
  <2>1. CASE Before(c, n) = {}
    BY <1>2, <2>1 DEF LinkBefore, Legacy
  <2>2. CASE Before(c, n) # {}
    <3>1. Max(Before(c, n)) \in DOMAIN audit /\ LinkBefore(c, n) = audit[Max(Before(c, n))]
      BY <2>2, LinkIsRow, ZenonT(60) DEF Before, RowsOf
    <3>2. LinkBefore(c, k)' = audit'[Max(Before(c, n))]
      BY <1>2, <2>2 DEF LinkBefore
    <3> QED BY <1>1, <3>1, <3>2
  <2> QED BY <2>1, <2>2
<1>3. ASSUME n <= Len(audit) + 1 PROVE Before(c, n)' = Before(c, n)
  BY <1>0, <1>1, <1>3 DEF Before, RowsOf
<1>4. ASSUME n = Len(audit) + 1, row.caller # c PROVE Before(c, n + 1)' = Before(c, n)
  BY <1>0, <1>1, <1>4 DEF Before, RowsOf
<1> QED BY <1>2, <1>3, <1>4

(* Taking row i out moves the rows after it down by one: the row before a  *)
(* position is the one it was, unless that was row i.                      *)
Was(i, n) == IF n < i THEN n ELSE n + 1

LEMMA RemoveKeepsLinks ==
    ASSUME TypeOK, TypeOK', NEW i \in DOMAIN audit, audit' = RemoveAt(audit, i),
           NEW c, NEW n \in Nat, 1 <= n, n <= Len(audit)
    PROVE  \/ LinkBefore(c, n)' = LinkBefore(c, Was(i, n))
           \/ LinkBefore(c, Was(i, n)) = audit[i]
<1> DEFINE w == Was(i, n)
<1>0. audit \in Seq(Row) /\ Len(audit) \in Nat /\ i \in 1..Len(audit) /\ w \in Nat
  BY DEF TypeOK, Was
<1>1. /\ DOMAIN audit' = 1..(Len(audit) - 1) /\ DOMAIN audit = 1..Len(audit)
      /\ \A k \in 1..(Len(audit) - 1) : audit'[k] = IF k < i THEN audit[k] ELSE audit[k + 1]
  <2>1. PICK a : a = audit' /\ a = RemoveAt(audit, i)
    OBVIOUS
  <2>2. /\ a \in Seq(Row) /\ Len(a) = Len(audit) - 1
        /\ \A k \in 1..(Len(audit) - 1) : a[k] = IF k < i THEN audit[k] ELSE audit[k + 1]
    BY <1>0, <2>1, RemoveRow
  <2>3. DOMAIN a = 1..(Len(audit) - 1) /\ DOMAIN audit = 1..Len(audit)
    BY <1>0, <2>2
  <2> QED BY <2>1, <2>2, <2>3
<1>2. ASSUME NEW k \in Before(c, n)' PROVE k \in Nat /\ Was(i, k) \in Before(c, w)
  <2>1. k \in 1..(Len(audit) - 1) /\ k < n /\ audit'[k].caller = c
    BY <1>1 DEF Before, RowsOf
  <2>2. Was(i, k) \in 1..Len(audit) /\ Was(i, k) < w
    BY <1>0, <2>1 DEF Was
  <2>3. audit'[k] = audit[Was(i, k)]
    BY <1>1, <2>1 DEF Was
  <2> QED BY <1>1, <2>1, <2>2, <2>3 DEF Before, RowsOf
<1>3. CASE Before(c, w) = {}
  <2>1. Before(c, n)' = {}
    BY <1>2, <1>3
  <2> QED BY <1>3, <2>1 DEF LinkBefore, Legacy
<1>4. CASE Before(c, w) # {} /\ Max(Before(c, w)) = i
  BY <1>0, <1>4, LinkIsRow
<1>5. CASE Before(c, w) # {} /\ Max(Before(c, w)) # i
  <2>1. PICK x \in Before(c, w) : /\ x # i /\ LinkBefore(c, w) = audit[x]
                                  /\ \A j \in Before(c, w) : j <= x
    BY <1>0, <1>5, LinkIsRow
  <2>2. PICK y \in Nat : y = IF x < i THEN x ELSE x - 1
    BY <1>0, <1>1, <2>1 DEF Before, RowsOf
  <2>3. x \in 1..Len(audit) /\ x < w /\ audit[x].caller = c
    BY <1>1, <2>1 DEF Before, RowsOf
  <2>4. y \in 1..(Len(audit) - 1) /\ y < n /\ Was(i, y) = x
    BY <1>0, <2>1, <2>2, <2>3 DEF Was
  <2>5. audit'[y] = audit[x]
    BY <1>1, <2>4 DEF Was
  <2>6. y \in Before(c, n)'
    BY <1>1, <2>3, <2>4, <2>5 DEF Before, RowsOf
  <2>7. ASSUME NEW k \in Before(c, n)' PROVE k \in Nat /\ k <= y
    <3>1. k \in Nat /\ Was(i, k) <= x
      BY <1>2, <2>1
    <3> QED BY <1>0, <2>1, <2>2, <2>3, <3>1 DEF Was
  <2>8. PICK T \in SUBSET Nat : T = Before(c, n)'
    BY <2>7
  <2>9. Max(T) = y
    BY <2>6, <2>7, <2>8, MaxIs
  <2>10. LinkBefore(c, n)' = audit'[Max(T)]
    BY <2>6, <2>8 DEF LinkBefore
  <2> QED BY <2>1, <2>5, <2>9, <2>10
<1> QED BY <1>3, <1>4, <1>5

(* A row is added at the end: chained to the last one of its caller, or    *)
(* not chained and nobody's.                                               *)
Added(row) ==
    /\ row \in Row /\ audit' = Append(audit, row)
    /\ lost' = lost /\ wrote \subseteq wrote'
    /\ row.hash # None => /\ row.hash \in wrote' \ wrote
                          /\ Links(row.prev, row.caller, Len(audit) + 1)
    /\ \A q \in Req : pc'[q] = "insert" =>
          /\ pc[q] = "insert" /\ snap'[q] = snap[q] /\ req'[q] = req[q]
          /\ req[q].c # row.caller

LEMMA AddedChain ==
    ASSUME TypeInv, ChainInv, NEW row, Added(row)
    PROVE  ChainInv'
<1>0. /\ audit \in Seq(Row) /\ Len(audit) \in Nat /\ row \in Row
      /\ audit' = Append(audit, row)
      /\ DOMAIN audit = 1..Len(audit) /\ DOMAIN audit' = 1..(Len(audit) + 1)
      /\ Len(audit') = Len(audit) + 1
      /\ \A i \in DOMAIN audit : audit'[i] = audit[i]
      /\ audit'[Len(audit) + 1] = row
      /\ lost' = lost
  BY DEF Added, TypeInv, TypeOK
<1>1. HashInv'
  <2>1. lost' \subseteq wrote'
    BY DEF ChainInv, HashInv, Added
  <2>2. ASSUME NEW i \in DOMAIN audit', Chained(i)' PROVE audit'[i].hash \in wrote' \ lost'
    BY <1>0, <2>2 DEF ChainInv, HashInv, Added, Chained
  <2>3. ASSUME NEW i \in DOMAIN audit', NEW j \in DOMAIN audit', Chained(i)',
               audit'[i].hash = audit'[j].hash
        PROVE  i = j
    <3>1. \A k \in DOMAIN audit : audit[k].hash # None => audit[k].hash # row.hash
      BY DEF ChainInv, HashInv, Added, Chained
    <3> QED BY <1>0, <2>3, <3>1 DEF ChainInv, HashInv, Chained
  <2> QED BY <2>1, <2>2, <2>3 DEF HashInv
<1>2. ASSUME NEW i \in DOMAIN audit', Chained(i)'
      PROVE  Links(audit[i].prev, audit[i].caller, i)'
  <2>1. i \in Nat /\ i <= Len(audit) + 1
    BY <1>0
  <2>2. PICK c, h : c = audit'[i].caller /\ h = audit'[i].prev
    OBVIOUS
  <2>3. Links(h, c, i)
    BY <1>0, <1>2, <2>2 DEF ChainInv, LinkInv, Added, Chained
  <2>4. LinkBefore(c, i)' = LinkBefore(c, i)
    BY <1>0, <2>1, AppendKeepsLinks DEF TypeInv
  <2> QED BY <1>0, <2>2, <2>3, <2>4 DEF Links
<1>3. ASSUME NEW q \in Req, pc'[q] = "insert"
      PROVE  Links(snap[q].hash, req[q].c, Len(audit) + 1)'
  <2>1. pc[q] = "insert" /\ snap'[q] = snap[q] /\ req'[q] = req[q] /\ req[q].c # row.caller
    BY <1>3 DEF Added
  <2>2. PICK c, h, n : n \in Nat /\ c = req[q].c /\ h = snap[q].hash /\ n = Len(audit) + 1
    BY <1>0
  <2>3. Links(h, c, n)
    BY <2>1, <2>2 DEF ChainInv, LinkInv
  <2>4. LinkBefore(c, n + 1)' = LinkBefore(c, n)
    BY <1>0, <2>1, <2>2, AppendKeepsLinks DEF TypeInv
  <2>5. (Len(audit) + 1)' = n + 1
    BY <1>0, <2>2
  <2> QED BY <1>0, <2>1, <2>2, <2>3, <2>4, <2>5 DEF Links
<1> QED BY <1>1, <1>2, <1>3 DEF ChainInv, LinkInv

LEMMA LostChain ==
    ASSUME TypeInv, TypeInv', ChainInv, RowLost
    PROVE  ChainInv'
<1>1. PICK i \in DOMAIN audit : /\ audit[i].hash # None
                                /\ audit' = RemoveAt(audit, i)
                                /\ lost' = lost \cup {audit[i].hash}
  BY DEF RowLost
<1>2. UNCHANGED <<pc, req, snap, wrote>>
  BY DEF RowLost
<1>0. /\ audit \in Seq(Row) /\ Len(audit) \in Nat /\ i \in 1..Len(audit)
      /\ DOMAIN audit = 1..Len(audit) /\ DOMAIN audit' = 1..(Len(audit) - 1)
      /\ Len(audit') = Len(audit) - 1
  <2>1. audit \in Seq(Row) /\ audit' \in Seq(Row)
    BY DEF TypeInv, TypeOK
  <2>2. Len(audit') = Len(audit) - 1
    BY <1>1, <2>1, RemoveRow
  <2> QED BY <2>1, <2>2
<1>3. ASSUME NEW k \in DOMAIN audit'
      PROVE  /\ k \in Nat /\ 1 <= k /\ k <= Len(audit)
             /\ Was(i, k) \in DOMAIN audit /\ Was(i, k) # i /\ audit'[k] = audit[Was(i, k)]
  <2>1. \A n \in 1..(Len(audit) - 1) : RemoveAt(audit, i)[n] = IF n < i THEN audit[n] ELSE audit[n + 1]
    BY <1>0, RemoveRow
  <2>2. audit'[k] = IF k < i THEN audit[k] ELSE audit[k + 1]
    BY <1>0, <1>1, <2>1
  <2>3. audit'[k] = audit[Was(i, k)]
    BY <2>2 DEF Was
  <2> QED BY <1>0, <2>3 DEF Was
<1>4. ASSUME NEW c, NEW h, NEW n \in Nat, 1 <= n, n <= Len(audit), Links(h, c, Was(i, n))
      PROVE  Links(h, c, n)'
  <2>1. \/ LinkBefore(c, n)' = LinkBefore(c, Was(i, n))
        \/ LinkBefore(c, Was(i, n)) = audit[i]
    BY <1>1, <1>4, RemoveKeepsLinks DEF TypeInv
  <2> QED BY <1>1, <1>4, <2>1 DEF Links
<1>5. HashInv'
  <2>1. lost' \subseteq wrote'
    BY <1>1, <1>2 DEF ChainInv, HashInv, Chained
  <2>2. ASSUME NEW k \in DOMAIN audit', Chained(k)' PROVE audit'[k].hash \in wrote' \ lost'
    <3>1. PICK j \in DOMAIN audit : j # i /\ audit'[k] = audit[j]
      BY <1>3
    <3> QED BY <1>1, <1>2, <2>2, <3>1 DEF ChainInv, HashInv, Chained
  <2>3. ASSUME NEW k \in DOMAIN audit', NEW j \in DOMAIN audit', Chained(k)',
               audit'[k].hash = audit'[j].hash
        PROVE  k = j
    <3>1. Was(i, k) = Was(i, j)
      BY <1>3, <2>3 DEF ChainInv, HashInv, Chained
    <3> QED BY <1>0, <1>3, <3>1 DEF Was
  <2> QED BY <2>1, <2>2, <2>3 DEF HashInv
<1>6. ASSUME NEW k \in DOMAIN audit', Chained(k)'
      PROVE  Links(audit[k].prev, audit[k].caller, k)'
  <2>1. PICK c, h : c = audit'[k].caller /\ h = audit'[k].prev
    OBVIOUS
  <2>2. Links(h, c, Was(i, k))
    BY <1>3, <1>6, <2>1 DEF ChainInv, LinkInv, Chained
  <2>3. Links(h, c, k)'
    BY <1>3, <1>4, <2>2
  <2> QED BY <2>1, <2>3 DEF Links
<1>7. ASSUME NEW q \in Req, pc'[q] = "insert"
      PROVE  Links(snap[q].hash, req[q].c, Len(audit) + 1)'
  <2>1. PICK c, h, n : n \in Nat /\ c = req[q].c /\ h = snap[q].hash /\ n = Len(audit)
    BY <1>0
  <2>2. Was(i, n) = Len(audit) + 1 /\ 1 <= n /\ n <= Len(audit)
    BY <1>0, <2>1 DEF Was
  <2>3. Links(h, c, Was(i, n))
    BY <1>2, <1>7, <2>1, <2>2 DEF ChainInv, LinkInv
  <2>4. Links(h, c, n)'
    BY <1>4, <2>1, <2>2, <2>3
  <2>5. (Len(audit) + 1)' = n
    BY <1>0, <2>1
  <2> QED BY <1>2, <2>1, <2>4, <2>5 DEF Links
<1> QED BY <1>5, <1>6, <1>7 DEF ChainInv, LinkInv

(* Nothing is written, and nobody is about to write who was not before. *)
Untouched ==
    /\ UNCHANGED <<audit, lost, wrote>>
    /\ \A q \in Req : pc'[q] = "insert" =>
          pc[q] = "insert" /\ snap'[q] = snap[q] /\ req'[q] = req[q]

LEMMA UntouchedChain ==
    ASSUME ChainInv, Untouched
    PROVE  ChainInv'
<1>0. audit' = audit /\ lost' = lost /\ wrote' = wrote
  BY DEF Untouched
<1>1. HashInv'
  BY <1>0 DEF ChainInv, HashInv, Chained
<1>2. ASSUME NEW i \in DOMAIN audit', Chained(i)'
      PROVE  Links(audit[i].prev, audit[i].caller, i)'
  BY <1>0, <1>2 DEF ChainInv, LinkInv, Chained, Links, LinkBefore, Before, RowsOf, Legacy
<1>3. ASSUME NEW q \in Req, pc'[q] = "insert"
      PROVE  Links(snap[q].hash, req[q].c, Len(audit) + 1)'
  <2>1. pc[q] = "insert" /\ snap'[q] = snap[q] /\ req'[q] = req[q]
    BY <1>3 DEF Untouched
  <2>2. Links(snap[q].hash, req[q].c, Len(audit) + 1)
    BY <2>1 DEF ChainInv, LinkInv
  <2> QED BY <1>0, <2>1, <2>2 DEF Links, LinkBefore, Before, RowsOf, Legacy
<1> QED BY <1>1, <1>2, <1>3 DEF ChainInv, LinkInv

LEMMA ChainStep == TypeInv /\ TypeInv' /\ AuditInv /\ ChainInv /\ [Next]_vars => ChainInv'
<1> SUFFICES ASSUME TypeInv, TypeInv', AuditInv, ChainInv, [Next]_vars PROVE ChainInv'
  OBVIOUS
<1> USE DEF requestState, limiterState, signingState, serverState
<1>0. /\ pc \in [Req -> {"idle", "record", "read", "insert", "single", "limit", "route",
                         "ready", "await", "release", "done", "cut"}]
      /\ req \in [Req -> [m : Machine \cup {None}, c : Caller \cup {None}, route : Routes, kind : Kinds]]
      /\ snap \in [Req -> Row \cup {None}]
      /\ None \notin Caller
  BY FrontDoorAssumption DEF TypeInv, TypeOK
<1>c. \A q \in Req : pc[q] = "insert" => req[q].c \in Caller /\ lock[req[q].c] = q
  BY DEF TypeInv, Stage, Holds
<1>n. Legacy(None) \in Row /\ Legacy(None).hash = None /\ Legacy(None).caller = None
  BY DEF Legacy, Row
<1>1. ASSUME NEW r \in Req, Authenticate(r) PROVE ChainInv'
  <2>1. /\ UNCHANGED <<audit, lost, wrote, snap>> /\ pc'[r] # "insert"
        /\ \A q \in Req \ {r} : pc'[q] = pc[q] /\ req'[q] = req[q]
    BY <1>0, <1>1 DEF Authenticate, Recording, Goto
  <2>2. Untouched
    BY <2>1 DEF Untouched
  <2> QED BY <2>2, UntouchedChain
<1>2. ASSUME NEW r \in Req, RejectBody(r) PROVE ChainInv'
  <2>1. /\ UNCHANGED <<lost, snap>> /\ pc'[r] # "insert"
        /\ \A q \in Req \ {r} : pc'[q] = pc[q] /\ req'[q] = req[q]
    BY <1>0, <1>2 DEF RejectBody, Reply, Goto
  <2>2. CASE UNCHANGED <<audit, wrote>>
    BY <2>1, <2>2, UntouchedChain DEF Untouched
  <2>3. CASE audit' = Append(audit, Legacy(None)) /\ wrote \subseteq wrote'
    BY <1>0, <1>c, <1>n, <2>1, <2>3, AddedChain DEF Added
  <2> QED BY <1>2, <2>2, <2>3 DEF RejectBody
<1>3. ASSUME NEW r \in Req, RecordRead(r) PROVE ChainInv'
  <2>1. /\ UNCHANGED <<audit, lost, wrote, req>> /\ pc[r] = "read"
        /\ snap'[r] = LinkBefore(req[r].c, Len(audit) + 1)
        /\ \A q \in Req \ {r} : pc'[q] = pc[q] /\ snap'[q] = snap[q]
    BY <1>0, <1>3 DEF RecordRead, Goto
  <2>2. HashInv'
    BY <2>1 DEF ChainInv, HashInv, Chained
  <2>3. ASSUME NEW i \in DOMAIN audit', Chained(i)'
        PROVE  Links(audit[i].prev, audit[i].caller, i)'
    BY <2>1, <2>3 DEF ChainInv, LinkInv, Chained, Links, LinkBefore, Before, RowsOf, Legacy
  <2>4. ASSUME NEW q \in Req, pc'[q] = "insert"
        PROVE  Links(snap[q].hash, req[q].c, Len(audit) + 1)'
    <3>1. Links(snap'[q].hash, req[q].c, Len(audit) + 1)
      <4>1. CASE q = r
        BY <2>1, <4>1 DEF Links
      <4>2. CASE q # r
        BY <2>1, <2>4, <4>2 DEF ChainInv, LinkInv
      <4> QED BY <4>1, <4>2
    <3> QED BY <2>1, <3>1 DEF Links, LinkBefore, Before, RowsOf, Legacy
  <2> QED BY <2>2, <2>3, <2>4 DEF ChainInv, LinkInv
<1>4. ASSUME NEW r \in Req, RecordInsert(r) PROVE ChainInv'
  <2>1. Recorded(r) /\ UNCHANGED <<req, lost>> /\ pc[r] = "insert"
    BY <1>4 DEF RecordInsert
  <2>2. PICK row : row = [caller |-> req[r].c, prev |-> snap[r].hash,
                          pos |-> NextPosition(snap[r]), hash |-> <<r, due[r].ev>>]
    OBVIOUS
  <2>3. audit' = Append(audit, row)
    BY <1>4, <2>2 DEF RecordInsert
  <2>4. /\ req[r].c \in Caller /\ snap[r] \in Row /\ Owed(r) /\ due[r] \in Due
    BY <2>1 DEF TypeInv, Stage, Recorders, AuditInv, Trail
  <2>5. due[r].ev \in Events /\ <<r, due[r].ev>> \notin wrote
    BY <2>4, OwedIsNew
  <2>6. row \in Row /\ row.caller = req[r].c /\ row.prev = snap[r].hash /\ row.hash = <<r, due[r].ev>>
    <3>1. NextPosition(snap[r]) \in Nat
      BY <2>4 DEF NextPosition, Row
    <3> QED BY <2>2, <2>4, <2>5, <3>1 DEF Row, Hash
  <2>7. wrote' = wrote \cup {row.hash} /\ Links(row.prev, row.caller, Len(audit) + 1)
    BY <2>1, <2>6 DEF Recorded, ChainInv, LinkInv
  <2>8. due[r].then # "insert"
    BY <2>4 DEF Due
  <2>9. ASSUME NEW q \in Req, pc'[q] = "insert"
        PROVE  pc[q] = "insert" /\ snap'[q] = snap[q] /\ req[q].c # req[r].c
    <3>1. q # r
      BY <1>0, <2>1, <2>8, <2>9 DEF Recorded, Goto
    <3>2. pc[q] = "insert" /\ snap'[q] = snap[q]
      BY <1>0, <2>1, <2>9, <3>1 DEF Recorded, Goto
    <3> QED BY <1>c, <2>1, <3>1, <3>2
  <2>10. Added(row)
    BY <2>1, <2>3, <2>5, <2>6, <2>7, <2>9 DEF Added
  <2> QED BY <2>10, AddedChain
<1>5. ASSUME NEW r \in Req, RecordSingle(r) PROVE ChainInv'
  <2>1. Recorded(r) /\ UNCHANGED <<req, lost>> /\ pc[r] = "single" /\ audit' = Append(audit, Legacy(None))
    BY <1>5 DEF RecordSingle
  <2>2. due[r].then = "done"
    BY <2>1 DEF TypeInv, Stage
  <2>3. wrote \subseteq wrote' /\ \A q \in Req : pc'[q] = "insert" => pc[q] = "insert" /\ snap'[q] = snap[q]
    BY <1>0, <2>1, <2>2 DEF Recorded, Goto
  <2> QED BY <1>0, <1>c, <1>n, <2>1, <2>3, AddedChain DEF Added
<1>6. ASSUME NEW r \in Req,
             RecordBegin(r) \/ RecordFails(r) \/ LimitRate(r) \/ LimitFails(r) \/ Admit(r)
             \/ RefuseDuplicate(r) \/ AssertReady(r) \/ Execute(r)
      PROVE  ChainInv'
  <2>1. UNCHANGED <<audit, lost, wrote, snap, req>>
    BY <1>6 DEF RecordBegin, RecordFails, LimitRate, LimitFails, Admit, RefuseDuplicate, AssertReady, Execute
  <2>2. PICK l : l # "insert" /\ pc' = [pc EXCEPT ![r] = l]
    BY <1>6 DEF RecordBegin, RecordFails, LimitRate, LimitFails, Admit, RefuseDuplicate, AssertReady,
                Execute, Reply, Recording, Goto
  <2>3. Untouched
    BY <1>0, <2>1, <2>2 DEF Untouched
  <2> QED BY <2>3, UntouchedChain
<1>7. ASSUME NEW m \in Machine, Process(m) \/ Shutdown(m) PROVE ChainInv'
  <2>1. UNCHANGED <<audit, lost, wrote, snap, req>>
    BY <1>7 DEF Process, ProbeSigns, ProbeSettles, Settle, ExitDrained, ExitForced, Shutdown
  <2>2. \A q \in Req : pc'[q] = "insert" => pc[q] = "insert"
    <3>1. CASE ProbeSettles(m)
      <4>1. PICK ok : Settle(m, ok)
        BY <3>1 DEF ProbeSettles
      <4> QED BY <4>1 DEF Settle
    <3>2. CASE ExitForced(m)
      BY <3>2 DEF ExitForced
    <3>3. CASE ProbeSigns(m) \/ ExitDrained(m) \/ Shutdown(m)
      BY <3>3 DEF ProbeSigns, ExitDrained, Shutdown
    <3> QED BY <1>7, <3>1, <3>2, <3>3 DEF Process
  <2>3. Untouched
    BY <2>1, <2>2 DEF Untouched
  <2> QED BY <2>3, UntouchedChain
<1>8. ASSUME Tick \/ KeyChanges \/ UNCHANGED vars PROVE ChainInv'
  BY <1>8, UntouchedChain DEF Tick, KeyChanges, vars, Untouched
<1> QED BY <1>1, <1>2, <1>3, <1>4, <1>5, <1>6, <1>7, <1>8, LostChain DEF Next, Step

LEMMA ChainAlways == Spec => []ChainInv
<1>1. Init => ChainInv
  <2> SUFFICES ASSUME Init PROVE ChainInv
    OBVIOUS
  <2>1. \A i \in DOMAIN audit : audit[i].hash = None
    BY DEF Init, Legacy
  <2>2. lost = {} /\ \A q \in Req : pc[q] = "idle"
    BY DEF Init
  <2> QED BY <2>1, <2>2 DEF ChainInv, HashInv, LinkInv, Chained
<1> QED BY <1>1, ChainStep, TypeAlways, TrailAlways, PTL DEF Spec

(***************************************************************************)
(* A caller's audit trail tells the truth about itself: it fails to verify *)
(* exactly as long as a row remains that links to one that is gone,        *)
(* however many requests interleave, fail or are cut off, and however many *)
(* rows are lost and when (SupabaseCallerAuditSink.record,                 *)
(* CallerAuditChainVerifier.verifyChain).                                  *)
(***************************************************************************)
THEOREM TrailTellsLoss == Spec => []ChainTellsLoss
<1>1. ASSUME TypeInv, ChainInv, NEW c \in Caller, NEW i \in RowsOf(c), audit[i].hash # None
      PROVE  audit[i].prev = LinkBefore(c, i).hash <=> audit[i].prev \notin lost
  <2>1. i \in DOMAIN audit /\ audit[i].caller = c /\ i \in Nat
    BY <1>1 DEF RowsOf, TypeInv, TypeOK
  <2>2. audit[i].prev = LinkBefore(c, i).hash \/ audit[i].prev \in lost
    BY <1>1, <2>1 DEF ChainInv, LinkInv, Links, Chained
  <2>3. LinkBefore(c, i).hash \notin lost
    <3>1. CASE Before(c, i) = {}
      <4>1. LinkBefore(c, i).hash = None
        BY <1>1, <2>1, <3>1, LinkIsRow DEF TypeInv, Legacy
      <4> QED BY <1>1, <4>1, HashAssumption DEF TypeInv, TypeOK
    <3>2. CASE Before(c, i) # {}
      <4>0. LinkBefore(c, i) = audit[Max(Before(c, i))] /\ Max(Before(c, i)) \in Before(c, i)
        BY <1>1, <2>1, <3>2, LinkIsRow DEF TypeInv
      <4>1. PICK k \in DOMAIN audit : LinkBefore(c, i) = audit[k]
        BY <4>0 DEF Before, RowsOf
      <4> QED BY <1>1, <4>1, HashAssumption DEF TypeInv, TypeOK, ChainInv, HashInv, Chained
    <3> QED BY <3>1, <3>2
  <2> QED BY <2>2, <2>3
<1>2. TypeInv /\ ChainInv => ChainTellsLoss
  BY <1>1 DEF ChainTellsLoss, VerifyChain
<1> QED BY <1>2, TypeAlways, ChainAlways, PTL
=============================================================================
