------------------------------ MODULE Demiurge ------------------------------
(***************************************************************************)
(* The demiurge router: chat requests (proxy.rs), the arbiter's placement  *)
(* decision (arbiter.rs), session affinity (affinity.rs) and the pressure  *)
(* board its poller fills (pressure.rs).  Requests run concurrently; the   *)
(* session table and the board are locked for one access at a time, so a   *)
(* decision is several steps.  Cloud lanes are not polled: a lane a        *)
(* session is pinned to always counts as alive.                            *)
(***************************************************************************)
EXTENDS Naturals

CONSTANTS
    Session,    \* values of x-session-id
    NoSession,  \* a request without the header
    Request,    \* requests in flight at the same time
    TTL         \* ticks until a pin expires

ASSUME DemiurgeAssumption == NoSession \notin Session /\ TTL \in Nat \ {0}

VARIABLES
    overflow,  \* Registry::overflow_lane: "free", "paid" or "none"
    board,     \* pressure of the local lane: busy and healthy
    pin,       \* session -> its binding: lane ("none" if absent) and age
    req        \* request -> where it is and what it has read

vars == <<overflow, board, pin, req>>

Lanes == {"local", "free", "paid"}
Classes == {"public", "sensitive", "failed"}   \* failed: the scan was refused
Levels == {"low", "mid", "high"}               \* below low, between, from high on
Steps == {"idle", "scanned", "probed", "read", "recall", "settle", "decided", "sent"}

Unpinned == [lane |-> "none", age |-> 0]
Idle == [at |-> "idle", session |-> NoSession, class |-> "public", dead |-> FALSE,
         busy |-> "low", lane |-> "local"]

Away(lane) == lane \in {"free", "paid"}

\* A change of the session table; requests without a session leave it alone.
SetPin(s, binding) == pin' = [t \in Session |-> IF t = s THEN binding ELSE pin[t]]

-----------------------------------------------------------------------------
(* The poller                                                              *)

Poll ==
    /\ \E b \in Levels : board' = [busy |-> b, healthy |-> TRUE]
    /\ UNCHANGED <<overflow, pin, req>>

\* mark_unhealthy: the old counts stay.
PollFails ==
    /\ board' = [board EXCEPT !.healthy = FALSE]
    /\ UNCHANGED <<overflow, pin, req>>

\* Time passes for every pin; ages stop at TTL.
Older(age) == IF age < TTL THEN age + 1 ELSE age

Tick ==
    /\ pin' = [s \in Session |-> IF pin[s].lane = "none" THEN pin[s]
                                 ELSE [pin[s] EXCEPT !.age = Older(@)]]
    /\ UNCHANGED <<overflow, board, req>>

-----------------------------------------------------------------------------
(* One chat request                                                        *)

Arrive(r, s, c) ==
    /\ req[r].at = "idle"
    /\ req' = [req EXCEPT ![r] =
                 [Idle EXCEPT !.at = "scanned", !.session = s, !.class = c]]
    /\ UNCHANGED <<overflow, board, pin>>

\* A body over MAX_CHAT_BYTES is not scanned and goes to the local lane.
ArriveOversized(r, s) ==
    /\ req[r].at = "idle"
    /\ req' = [req EXCEPT ![r] = [Idle EXCEPT !.at = "sent", !.session = s, !.class = "failed"]]
    /\ UNCHANGED <<overflow, board, pin>>

\* handle_chat reads the board for local_unhealthy.
Probe(r) ==
    /\ req[r].at = "scanned"
    /\ req' = [req EXCEPT ![r].at = "probed", ![r].dead = ~board.healthy]
    /\ UNCHANGED <<overflow, board, pin>>

\* Mutant: the gate only looks for classes, so a refused scan passes.
Gated_ScanOnly(r) == req[r].class = "sensitive"

\* Law 1: sensitive requests and requests without a scan result.
Gated(r) == req[r].class \in {"sensitive", "failed"}

\* Mutant: clear_if as its comment says, dropping a pin that is already home.
ClearIf_AsDocumented(s) ==
    IF s \in Session /\ pin[s].lane = "local" THEN SetPin(s, Unpinned) ELSE UNCHANGED pin

\* clear_if: drops every pin of the session but one to the local lane.
ClearIf(s) ==
    IF s \in Session /\ pin[s].lane # "local" THEN SetPin(s, Unpinned) ELSE UNCHANGED pin

Gate(r) ==
    /\ req[r].at = "probed" /\ Gated(r)
    /\ ClearIf(req[r].session)
    /\ req' = [req EXCEPT ![r].at = "decided", ![r].lane = "local"]
    /\ UNCHANGED <<overflow, board>>

\* decide reads the board again; before the first poll the lane counts as idle
\* and healthy.
Read(r) ==
    /\ req[r].at = "probed" /\ ~Gated(r)
    /\ req' = [req EXCEPT ![r].at = "read", ![r].busy = board.busy,
                          ![r].dead = @ \/ ~board.healthy]
    /\ UNCHANGED <<overflow, board, pin>>

\* The decision; what it was based on is not used any more.
Decided(q, lane) == [q EXCEPT !.at = "decided", !.lane = lane, !.busy = "low"]

\* SessionTable::get: an expired pin is dropped on the way.
Lookup(r) ==
    LET s == req[r].session
        live == s \in Session /\ pin[s].lane # "none" /\ pin[s].age < TTL
    IN /\ req[r].at = "read"
       /\ IF s \in Session /\ ~live THEN SetPin(s, Unpinned) ELSE UNCHANGED pin
       /\ req' = [req EXCEPT ![r] =
                    IF ~live \/ ~Away(pin[s].lane) THEN [@ EXCEPT !.at = "settle"]
                    ELSE IF @.busy = "low" THEN [@ EXCEPT !.at = "recall"]
                    ELSE Decided(@, pin[s].lane)]
       /\ UNCHANGED <<overflow, board>>

\* Mutant: the recalled session keeps its pin.
Recall_KeepsPin(r) ==
    /\ req[r].at = "recall"
    /\ req' = [req EXCEPT ![r] = Decided(@, pin[@.session].lane)]
    /\ UNCHANGED <<overflow, board, pin>>

\* Law 2: pressure is gone, the session comes home.
Recall(r) ==
    /\ req[r].at = "recall"
    /\ SetPin(req[r].session, Unpinned)
    /\ req' = [req EXCEPT ![r] = Decided(@, "local")]
    /\ UNCHANGED <<overflow, board>>

\* Law 3: overflow from the high watermark on, or when the local lane is dead.
OverflowNow(r) == req[r].dead \/ req[r].busy = "high"

\* Laws 3 and 4: place the session and pin it there.
Settle(r) ==
    LET lane == IF overflow # "none" /\ OverflowNow(r) THEN overflow ELSE "local"
    IN /\ req[r].at = "settle"
       /\ SetPin(req[r].session, [lane |-> lane, age |-> 0])
       /\ req' = [req EXCEPT ![r] = Decided(@, lane)]
       /\ UNCHANGED <<overflow, board>>

\* Dispatch.  A body that cannot be prepared for a free cloud lane goes to the
\* local lane; paid lanes escalate through the budget gateway.
Send(r) ==
    /\ req[r].at = "decided"
    /\ \E lane \in {req[r].lane} \cup (IF req[r].lane = "free" THEN {"local"} ELSE {}) :
         req' = [req EXCEPT ![r].at = "sent", ![r].lane = lane]
    /\ UNCHANGED <<overflow, board, pin>>

\* The answer, or the error of the lane, is passed on; no other lane is tried.
Finish(r) ==
    /\ req[r].at = "sent"
    /\ req' = [req EXCEPT ![r] = Idle]
    /\ UNCHANGED <<overflow, board, pin>>

Init ==
    /\ overflow \in {"free", "paid", "none"}
    /\ board = [busy |-> "low", healthy |-> TRUE]
    /\ pin = [s \in Session |-> Unpinned]
    /\ req = [r \in Request |-> Idle]

Handle(r) ==
    Probe(r) \/ Gate(r) \/ Read(r) \/ Lookup(r) \/ Recall(r) \/ Settle(r) \/ Send(r) \/ Finish(r)

Next ==
    \/ Poll \/ PollFails \/ Tick
    \/ \E r \in Request :
         \/ \E s \in Session \cup {NoSession} :
              ArriveOversized(r, s) \/ \E c \in Classes : Arrive(r, s, c)
         \/ Handle(r)

\* A request that was accepted is handled to its end.
Spec == Init /\ [][Next]_vars /\ \A r \in Request : WF_vars(Handle(r))

-----------------------------------------------------------------------------
(* Properties                                                              *)

\* The types of the router's state; a binding never outgrows its TTL.
TypeOK ==
    /\ overflow \in {"free", "paid", "none"}
    /\ board \in [busy : Levels, healthy : BOOLEAN]
    /\ pin \in [Session -> [lane : Lanes \cup {"none"}, age : 0 .. TTL]]
    /\ req \in [Request -> [at : Steps, session : Session \cup {NoSession}, class : Classes,
                            dead : BOOLEAN, busy : Levels, lane : Lanes]]

\* arbiter.rs, law 1: "sensitive/confidential NEVER leave the local lane
\* (fail-closed: a failed scan also stays local)", whatever pins, pressure and
\* other requests of the session do meanwhile.
PrivateStaysLocal ==
    \A r \in Request : req[r].class # "public" => req[r].lane = "local"

\* A gated request leaves its session without a pin to a cloud lane.
GatedComesHome ==
    [][\A r \in Request :
         req[r].at = "probed" /\ req'[r].at = "decided" /\ req[r].session \in Session
           => ~Away(pin'[req[r].session].lane)]_vars

\* Law 2, recall: once the pressure stays below the low watermark on a healthy
\* local lane, every session comes home and no request leaves any more.
Calm == board.busy = "low" /\ board.healthy
CalmBringsHome == <>[]Calm => <>[](\A r \in Request : ~Away(req[r].lane))

\* arbiter.rs, decide: "`local_unhealthy` lets overflow fire even below the
\* watermark when the local lane is dead": a public request that saw the local
\* lane dead is not placed there while there is an overflow lane.
DeadLocalAvoided ==
    \A r \in Request :
      req[r].at = "decided" /\ req[r].class = "public" /\ req[r].dead /\ overflow # "none"
        => Away(req[r].lane)
=============================================================================
