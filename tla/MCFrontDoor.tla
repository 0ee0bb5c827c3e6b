----------------------------- MODULE MCFrontDoor -----------------------------
(***************************************************************************)
(* FrontDoor for TLC.  Scope keeps the instance small without taking a     *)
(* step of the system away: only requests that arrive, signals, faults and *)
(* lost rows lead out of it, and none of these is fair.  Requests and      *)
(* machines are interchangeable, so one request is the first to arrive and *)
(* one machine the first to serve.                                         *)
(***************************************************************************)
EXTENDS FrontDoor

FirstReq == CHOOSE r \in Req : TRUE
FirstMachine == CHOOSE m \in Machine : TRUE

Scope ==
    /\ \A r \in Req : pc[r] # "idle" => pc[FirstReq] # "idle"
    /\ pc[FirstReq] # "idle" => req[FirstReq].m = FirstMachine
    \* Only the first is refused by the route, or comes without a key.
    /\ \A r \in Req \ {FirstReq} :
          pc[r] # "idle" => req[r].kind = "ok" /\ req[r].c # None /\ answer[r] # 400
    \* A machine is told to stop, or something fails, not both; one machine stops.
    /\ Cardinality({m \in Machine : mach[m] # "up"}) + faults <= 1
    \* Rows from before rows were chained are met by one request.
    /\ (\E c \in Caller : \E i \in RowsOf(c) : audit[i].hash = None) =>
          \A r \in Req \ {FirstReq} : pc[r] = "idle"
=============================================================================
