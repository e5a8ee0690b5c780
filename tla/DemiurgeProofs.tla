--------------------------- MODULE DemiurgeProofs ---------------------------
(***************************************************************************)
(* Theorems about the router, for every set of sessions, every number of   *)
(* concurrent requests and every TTL.                                      *)
(***************************************************************************)
EXTENDS Demiurge, TLAPS

\* The records requests and pins are.
Requests == [at : Steps, session : Session \cup {NoSession}, class : Classes,
             dead : BOOLEAN, busy : Levels, lane : Lanes]
Pins == [lane : Lanes \cup {"none"}, age : 0 .. TTL]

\* A gated request never gets past the gate: it has no part in the steps that
\* look at pins and pressure.
PastGate == {"read", "recall", "settle"}
GateHolds == \A r \in Request : req[r].at \in PastGate => req[r].class = "public"

RouterInv == TypeOK /\ GateHolds /\ PrivateStaysLocal

\* A change of one binding keeps the type of the session table.
LEMMA SetPinType ==
    ASSUME pin \in [Session -> Pins], NEW s, NEW b \in Pins, SetPin(s, b)
    PROVE  pin' \in [Session -> Pins]
  BY DEF SetPin

\* Bindings that are written: none, and a fresh one to any lane.
LEMMA PinTypes ==
    /\ Unpinned \in Pins
    /\ \A lane \in Lanes : [lane |-> lane, age |-> 0] \in Pins
  BY DemiurgeAssumption DEF Unpinned, Pins

\* The initial state.
LEMMA RouterInit == Init => RouterInv
  <1>. SUFFICES ASSUME Init PROVE RouterInv
    OBVIOUS
  <1>1. Idle \in Requests /\ Idle.lane = "local" /\ Idle.class = "public"
    BY DEF Idle, Requests, Steps, Classes, Levels, Lanes
  <1>2. TypeOK
    BY <1>1, PinTypes DEF Init, TypeOK, Requests, Pins, Levels
  <1>3. GateHolds /\ PrivateStaysLocal
    BY <1>1 DEF Init, GateHolds, PrivateStaysLocal
  <1>. QED  BY <1>2, <1>3 DEF RouterInv

\* One request becomes q, of the right type, gated and local unless public:
\* the invariant holds again.
LEMMA OneRequest ==
    ASSUME RouterInv, NEW r \in Request, NEW q \in Requests,
           req' = [req EXCEPT ![r] = q],
           q.class # "public" => q.lane = "local" /\ q.at \notin PastGate,
           UNCHANGED <<overflow, board>>, pin' \in [Session -> Pins]
    PROVE  RouterInv'
  <1>1. req \in [Request -> Requests]
    BY DEF RouterInv, TypeOK, Requests
  <1>2. req' \in [Request -> Requests]
    BY <1>1
  <1>3. TypeOK'
    BY <1>2 DEF RouterInv, TypeOK, Requests, Pins
  <1>4. \A t \in Request : req'[t] = IF t = r THEN q ELSE req[t]
    BY <1>1
  <1>5. GateHolds' /\ PrivateStaysLocal'
    BY <1>4 DEF RouterInv, GateHolds, PrivateStaysLocal
  <1>. QED  BY <1>3, <1>5 DEF RouterInv

\* Every step of a request preserves the invariant.
LEMMA HandleStep ==
    ASSUME RouterInv, NEW r \in Request, Handle(r)
    PROVE  RouterInv'
  <1>1. /\ req \in [Request -> Requests] /\ pin \in [Session -> Pins]
        /\ board \in [busy : Levels, healthy : BOOLEAN]
        /\ overflow \in {"free", "paid", "none"}
        /\ req[r].at \in PastGate => req[r].class = "public"
        /\ req[r].class # "public" => req[r].lane = "local"
        /\ req[r] \in Requests
    BY DEF RouterInv, TypeOK, GateHolds, PrivateStaysLocal, Requests, Pins
  <1>2. CASE Probe(r)
    <2>. DEFINE n == [req[r] EXCEPT !.at = "probed", !.dead = ~board.healthy]
    <2>1. n \in Requests /\ n.class = req[r].class /\ n.lane = req[r].lane /\ n.at \notin PastGate
      BY <1>1 DEF Requests, Steps, PastGate
    <2>2. req' = [req EXCEPT ![r] = n] /\ UNCHANGED <<overflow, board, pin>>
      BY <1>1, <1>2 DEF Probe
    <2>. QED  BY <1>1, <2>1, <2>2, OneRequest
  <1>3. CASE Gate(r)
    <2>. DEFINE n == [req[r] EXCEPT !.at = "decided", !.lane = "local"]
    <2>1. pin' \in [Session -> Pins]
      BY <1>1, <1>3, PinTypes, SetPinType DEF Gate, ClearIf
    <2>2. n \in Requests /\ n.lane = "local" /\ n.at \notin PastGate
      BY <1>1 DEF Requests, Steps, Lanes, PastGate
    <2>3. req' = [req EXCEPT ![r] = n] /\ UNCHANGED <<overflow, board>>
      BY <1>1, <1>3 DEF Gate
    <2>. QED  BY <2>1, <2>2, <2>3, OneRequest
  <1>4. CASE Read(r)
    <2>. DEFINE n == [req[r] EXCEPT !.at = "read", !.busy = board.busy,
                                    !.dead = @ \/ ~board.healthy]
    <2>1. req[r].class = "public"
      BY <1>1, <1>4 DEF Read, Gated, Requests, Classes
    <2>2. n \in Requests /\ n.class = "public"
      BY <1>1, <2>1 DEF Requests, Steps
    <2>3. req' = [req EXCEPT ![r] = n] /\ UNCHANGED <<overflow, board, pin>>
      BY <1>1, <1>4 DEF Read
    <2>. QED  BY <1>1, <2>2, <2>3, OneRequest
  <1>5. CASE Lookup(r)
    <2>. DEFINE s == req[r].session
                live == s \in Session /\ pin[s].lane # "none" /\ pin[s].age < TTL
                n == IF ~live \/ ~Away(pin[s].lane) THEN [req[r] EXCEPT !.at = "settle"]
                     ELSE IF req[r].busy = "low" THEN [req[r] EXCEPT !.at = "recall"]
                     ELSE Decided(req[r], pin[s].lane)
    <2>1. pin' \in [Session -> Pins]
      BY <1>1, <1>5, PinTypes, SetPinType DEF Lookup
    <2>2. req[r].class = "public"
      BY <1>1, <1>5 DEF Lookup, PastGate
    <2>3. Away(pin[s].lane) => pin[s].lane \in Lanes
      BY DEF Away, Lanes
    <2>4. n \in Requests /\ n.class = "public"
      <3>1. CASE ~live \/ ~Away(pin[s].lane)
        BY <1>1, <2>2, <3>1 DEF Requests, Steps
      <3>2. CASE live /\ Away(pin[s].lane) /\ req[r].busy = "low"
        BY <1>1, <2>2, <3>2 DEF Requests, Steps
      <3>3. CASE live /\ Away(pin[s].lane) /\ req[r].busy # "low"
        BY <1>1, <2>2, <2>3, <3>3 DEF Decided, Requests, Steps, Levels
      <3>. QED  BY <3>1, <3>2, <3>3
    <2>5. req' = [req EXCEPT ![r] = n] /\ UNCHANGED <<overflow, board>>
      BY <1>1, <1>5 DEF Lookup
    <2>. HIDE DEF n
    <2>. QED  BY <2>1, <2>4, <2>5, OneRequest
  <1>6. CASE Recall(r)
    <2>. DEFINE n == Decided(req[r], "local")
    <2>1. pin' \in [Session -> Pins]
      BY <1>1, <1>6, PinTypes, SetPinType DEF Recall
    <2>2. n \in Requests /\ n.lane = "local" /\ n.at \notin PastGate
      BY <1>1 DEF Decided, Requests, Steps, Levels, Lanes, PastGate
    <2>3. req' = [req EXCEPT ![r] = n] /\ UNCHANGED <<overflow, board>>
      BY <1>1, <1>6 DEF Recall
    <2>. QED  BY <2>1, <2>2, <2>3, OneRequest
  <1>7. CASE Settle(r)
    <2>. DEFINE lane == IF overflow # "none" /\ OverflowNow(r) THEN overflow ELSE "local"
                n == Decided(req[r], lane)
    <2>1. lane \in Lanes
      BY <1>1 DEF Lanes
    <2>2. SetPin(req[r].session, [lane |-> lane, age |-> 0])
      BY <1>7 DEF Settle
    <2>3. req[r].class = "public"
      BY <1>1, <1>7 DEF Settle, PastGate
    <2>4. req' = [req EXCEPT ![r] = n] /\ UNCHANGED <<overflow, board>>
      BY <1>1, <1>7 DEF Settle
    <2>. HIDE DEF lane
    <2>5. pin' \in [Session -> Pins]
      BY <1>1, <2>1, <2>2, PinTypes, SetPinType
    <2>6. n \in Requests /\ n.class = "public"
      BY <1>1, <2>1, <2>3 DEF Decided, Requests, Steps, Levels
    <2>. QED  BY <2>4, <2>5, <2>6, OneRequest
  <1>8. CASE Send(r)
    <2>1. PICK lane \in {req[r].lane} \cup (IF req[r].lane = "free" THEN {"local"} ELSE {}) :
            req' = [req EXCEPT ![r].at = "sent", ![r].lane = lane]
      BY <1>8 DEF Send
    <2>. DEFINE n == [req[r] EXCEPT !.at = "sent", !.lane = lane]
    <2>2. lane \in Lanes /\ (lane = req[r].lane \/ lane = "local")
      BY <1>1, <2>1 DEF Requests, Lanes
    <2>3. n \in Requests /\ n.class = req[r].class /\ n.lane = lane /\ n.at \notin PastGate
      BY <1>1, <2>2 DEF Requests, Steps, PastGate
    <2>4. req' = [req EXCEPT ![r] = n] /\ UNCHANGED <<overflow, board, pin>>
      BY <1>1, <1>8, <2>1 DEF Send
    <2>. QED  BY <1>1, <2>2, <2>3, <2>4, OneRequest
  <1>9. CASE Finish(r)
    <2>1. Idle \in Requests /\ Idle.lane = "local" /\ Idle.at \notin PastGate
      BY DEF Idle, Requests, Steps, Classes, Levels, Lanes, PastGate
    <2>2. req' = [req EXCEPT ![r] = Idle] /\ UNCHANGED <<overflow, board, pin>>
      BY <1>9 DEF Finish
    <2>. QED  BY <1>1, <2>1, <2>2, OneRequest
  <1>. QED  BY <1>2, <1>3, <1>4, <1>5, <1>6, <1>7, <1>8, <1>9 DEF Handle

\* Every step of the router preserves the invariant.
LEMMA RouterNext ==
    ASSUME RouterInv, [Next]_vars
    PROVE  RouterInv'
  <1>1. CASE UNCHANGED vars
    BY <1>1 DEF vars, RouterInv, TypeOK, GateHolds, PrivateStaysLocal
  <1>2. CASE Poll \/ PollFails
    <2>1. UNCHANGED <<overflow, pin, req>>
      BY <1>2 DEF Poll, PollFails
    <2>2. board' \in [busy : Levels, healthy : BOOLEAN]
      <3>1. CASE Poll
        BY <3>1 DEF Poll
      <3>2. CASE PollFails
        BY <3>2 DEF PollFails, RouterInv, TypeOK
      <3>. QED  BY <1>2, <3>1, <3>2
    <2>3. TypeOK'
      BY <2>1, <2>2 DEF RouterInv, TypeOK
    <2>4. GateHolds' /\ PrivateStaysLocal'
      BY <2>1 DEF RouterInv, GateHolds, PrivateStaysLocal
    <2>. QED  BY <2>3, <2>4 DEF RouterInv
  <1>3. CASE Tick
    <2>1. \A a \in 0 .. TTL : Older(a) \in 0 .. TTL
      BY DemiurgeAssumption DEF Older
    <2>2. pin' \in [Session -> Pins] /\ UNCHANGED <<overflow, board, req>>
      BY <1>3, <2>1 DEF Tick, RouterInv, TypeOK, Pins
    <2>. QED  BY <2>2 DEF RouterInv, TypeOK, GateHolds, PrivateStaysLocal, Pins
  <1>4. ASSUME NEW r \in Request, NEW s \in Session \cup {NoSession},
               ArriveOversized(r, s) \/ \E c \in Classes : Arrive(r, s, c)
        PROVE  RouterInv'
    <2>1. PICK at \in {"sent", "scanned"}, c \in Classes :
            /\ req' = [req EXCEPT ![r] = [Idle EXCEPT !.at = at, !.session = s, !.class = c]]
            /\ UNCHANGED <<overflow, board, pin>>
      BY <1>4 DEF ArriveOversized, Arrive, Classes
    <2>. DEFINE n == [Idle EXCEPT !.at = at, !.session = s, !.class = c]
    <2>2. n \in Requests /\ n.lane = "local" /\ n.at \notin PastGate
      BY DEF Idle, Requests, Steps, Classes, Levels, Lanes, PastGate
    <2>3. pin' \in [Session -> Pins]
      BY <2>1 DEF RouterInv, TypeOK, Pins
    <2>. HIDE DEF n
    <2>4. req' = [req EXCEPT ![r] = n]
      BY <2>1 DEF n
    <2>. QED  BY <2>1, <2>2, <2>3, <2>4, OneRequest
  <1>. QED  BY <1>1, <1>2, <1>3, <1>4, HandleStep DEF Next

\* The router's state keeps its types.
THEOREM RouterTypeCorrect == Spec => []TypeOK
  <1>1. RouterInv => TypeOK
    BY DEF RouterInv
  <1>. QED  BY <1>1, RouterInit, RouterNext, PTL DEF Spec

\* Law 1 of the arbiter for every number of concurrent requests and sessions:
\* no request whose class is sensitive or whose scan failed is placed on, or
\* sent to, a lane other than the local one.
THEOREM RouterPrivacy == Spec => []PrivateStaysLocal
  <1>1. RouterInv => PrivateStaysLocal
    BY DEF RouterInv
  <1>. QED  BY <1>1, RouterInit, RouterNext, PTL DEF Spec

\* A step of the router moves at most one request, from the place it is at.
LEMMA OnlyGateDecides ==
    ASSUME TypeOK, Next, NEW r \in Request,
           req[r].at = "probed", req'[r].at = "decided"
    PROVE  Gate(r)
  <1>1. req \in [Request -> Requests]
    BY DEF TypeOK, Requests
  <1>2. ~(UNCHANGED req)
    OBVIOUS
  <1>3. PICK t \in Request :
          \/ \E s \in Session \cup {NoSession} :
               ArriveOversized(t, s) \/ \E c \in Classes : Arrive(t, s, c)
          \/ Handle(t)
    BY <1>2 DEF Next, Poll, PollFails, Tick
  <1>4. t = r
    <2>. SUFFICES ASSUME t # r PROVE req'[r] = req[r]
      OBVIOUS
    <2>1. CASE \E s \in Session \cup {NoSession} :
                 ArriveOversized(t, s) \/ \E c \in Classes : Arrive(t, s, c)
      BY <1>1, <2>1 DEF ArriveOversized, Arrive
    <2>2. CASE Probe(t) \/ Gate(t) \/ Read(t)
      BY <1>1, <2>2 DEF Probe, Gate, Read
    <2>3. CASE Lookup(t)
      BY <1>1, <2>3 DEF Lookup
    <2>4. CASE Recall(t) \/ Settle(t) \/ Send(t) \/ Finish(t)
      BY <1>1, <2>4 DEF Recall, Settle, Send, Finish
    <2>. QED  BY <1>3, <2>1, <2>2, <2>3, <2>4 DEF Handle
  <1>5. Handle(r)
    BY <1>3, <1>4 DEF ArriveOversized, Arrive
  <1>6. ~Read(r)
    <2>. DEFINE n == [req[r] EXCEPT !.at = "read", !.busy = board.busy,
                                    !.dead = @ \/ ~board.healthy]
    <2>1. n.at = "read"
      BY <1>1 DEF Requests
    <2>2. Read(r) => req' = [req EXCEPT ![r] = n]
      BY <1>1 DEF Read
    <2>. HIDE DEF n
    <2>. QED  BY <1>1, <2>1, <2>2
  <1>. QED
    BY <1>5, <1>6 DEF Handle, Probe, Lookup, Recall, Settle, Send, Finish

\* clear_if at the gate: whatever the session was pinned to, and whatever other
\* requests of the session did since, it has no pin to a cloud lane after it.
LEMMA GateClears ==
    ASSUME TypeOK, NEW r \in Request, Gate(r), req[r].session \in Session
    PROVE  ~Away(pin'[req[r].session].lane)
  <1>. DEFINE s == req[r].session
  <1>1. CASE pin[s].lane # "local"
    <2>1. pin'[s] = Unpinned
      BY <1>1 DEF Gate, ClearIf, SetPin
    <2>. QED  BY <2>1 DEF Unpinned, Away
  <1>2. CASE pin[s].lane = "local"
    BY <1>2 DEF Gate, ClearIf, Away
  <1>. QED  BY <1>1, <1>2

\* The gate clears the session's cloud pin (clear_if in the arbiter's law 1),
\* however its pin was changed between the probe and the gate: a gated request
\* leaves its session at home.
THEOREM RouterGatedComesHome == Spec => GatedComesHome
  <1>. DEFINE Home == \A r \in Request :
                        req[r].at = "probed" /\ req'[r].at = "decided"
                          /\ req[r].session \in Session
                        => ~Away(pin'[req[r].session].lane)
  <1>1. TypeOK /\ [Next]_vars => [Home]_vars
    BY OnlyGateDecides, GateClears
  <1>2. RouterInv => TypeOK
    BY DEF RouterInv
  <1>. QED  BY <1>1, <1>2, RouterInit, RouterNext, PTL DEF Spec, GatedComesHome
=============================================================================
