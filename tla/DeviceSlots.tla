----------------------------- MODULE DeviceSlots -----------------------------
(***************************************************************************)
(* What the two expert caches, StreamLru and ExpertPath, have in common:   *)
(* the table that binds keys to slots of the VRAM pool, and the two CUDA   *)
(* streams the work runs on.  dma copies expert slices into slots, compute *)
(* runs the matmuls that read them.  The host only enqueues; a stream      *)
(* executes its operations in order, at its own pace.                      *)
(*                                                                         *)
(* An operation carries the wait enqueued just before it: after counts the *)
(* operations of the other stream it must follow.  An event is its latest  *)
(* record: the stream it is in and the number of operations of that stream *)
(* up to it that have not executed.                                        *)
(***************************************************************************)
EXTENDS Naturals, FiniteSets, SequencesExt

CONSTANTS
    NSlots,     \* slots of the VRAM pool
    Empty       \* content of memory nothing was copied to

ASSUME SlotsAssumption == NSlots \in Nat \ {0}

Slot == 0 .. NSlots - 1
Stream == {"dma", "compute"}

VARIABLES
    map,       \* cached key -> slot
    order,     \* cached keys, most recently used first
    pending,   \* slot -> its consumer has not been marked done
    event,     \* slot -> the latest record of its event
    vram,      \* slot -> the key whose slice is in it
    stream     \* the operations of the streams not yet executed

-----------------------------------------------------------------------------
(* The table *)

\* remove and push_front on a list that holds key at most once.
ToFront(key, list) == <<key>> \o RemoveFirst(list, key)

Fresh == Cardinality(DOMAIN map) < NSlots

\* The slot taken for key from key v (v = key: a fresh slot).
Rebind(key, v, s) ==
    /\ map' = [k \in (DOMAIN map \ {v}) \cup {key} |-> IF k = key THEN s ELSE map[k]]
    /\ order' = <<key>> \o RemoveFirst(order, v)

-----------------------------------------------------------------------------
(* The streams *)

Idle(X) == stream[X] = <<>>

\* cuEventQuery, and cuStreamWaitEvent as seen from stream X: nothing to wait for
\* in the stream that recorded the event.
EventDone(s) == event[s].ahead = 0
After(X, s) == IF event[s].by = X THEN 0 ELSE event[s].ahead

\* cuEventRecord on slot s behind n operations of X.
Record(s, X, n) == [event EXCEPT ![s] = [by |-> X, ahead |-> n]]

Less(n) == IF n = 0 THEN 0 ELSE n - 1

\* The head of X executes; what waits for it comes one closer.
Advance(X) ==
    /\ ~ Idle(X) /\ Head(stream[X]).after = 0
    /\ stream' = [Y \in Stream |->
                    IF Y = X THEN Tail(stream[X])
                    ELSE [i \in DOMAIN stream[Y] |-> [stream[Y][i] EXCEPT !.after = Less(@)]]]
    /\ event' = [s \in Slot |-> IF event[s].by = X THEN [event[s] EXCEPT !.ahead = Less(@)]
                                                   ELSE event[s]]

-----------------------------------------------------------------------------
(* Properties *)

Running(X) == IF ~ Idle(X) /\ Head(stream[X]).after = 0 THEN {Head(stream[X])} ELSE {}

\* While a matmul runs (or may run), its slot holds its own expert's slice and no
\* copy into that slot is running: the event protocol of ensure, prefetch and
\* mark_compute_done orders the two streams, although a slot is given away while
\* earlier copies and matmuls on it are still queued.
KernelReadsItsExpert ==
    \A k \in Running("compute") :
        k.op = "kernel" => /\ vram[k.slot] = k.key
                           /\ \A c \in Running("dma") : c.slot # k.slot

\* lru.rs, vitriol-cuda-integration.cpp ("LRU map/order desync"): map and order
\* agree; each cached key has a slot of its own.
MapOrderAgree ==
    /\ ToSet(order) = DOMAIN map /\ Len(order) = Cardinality(DOMAIN map)
    /\ IsInjective(map)
=============================================================================
