----------------------------- MODULE StreamLru -----------------------------
(***************************************************************************)
(* The expert LRU of vitriol-stream on one device (lru.rs, bounce.rs,      *)
(* ffi.rs), called by the ggml compute thread, and the work it enqueues on *)
(* the streams of DeviceSlots.                                             *)
(***************************************************************************)
EXTENDS DeviceSlots

CONSTANTS
    Slice,      \* keys: (tensor base, expert index)
    Oversized,  \* slices larger than a slot
    NBounce,    \* slots of the bounce ring (SLOTS)
    QueueBound  \* bound: the host waits while a stream is this long

ASSUME StreamAssumption ==
    /\ Oversized \subseteq Slice /\ Empty \notin Slice
    /\ NBounce \in Nat \ {0} /\ QueueBound \in Nat

Bounce == 0 .. NBounce - 1

VARIABLES
    store,     \* config: slices come from the store through the bounce ring
    sync,      \* VITRIOL_SYNC_FILL
    next,      \* next slot of the bounce ring
    buf,       \* bounce slot -> the slice read into it
    busy,      \* bounce slot -> operations of dma up to the record of its event
    call       \* the call the compute thread is in

streaming == <<store, sync, map, order, pending, event, next, buf, busy, vram, stream, call>>
policy == <<map, order, pending>>
config == <<store, sync>>

Room(X) == Len(stream[X]) < QueueBound

\* Outside of a call, and when the caller has aborted.
NoCall(at) == [at |-> at, key |-> Empty, slot |-> 0, bounce |-> 0]
Call(at, key, s, b) == [at |-> at, key |-> key, slot |-> s, bounce |-> b]

-----------------------------------------------------------------------------
(* The host: the expert loop of ggml_cuda_mul_mat_id                       *)

\* A wait of the compute stream for the event of slot s, on behalf of key.
WaitFor(key, s, after) == [op |-> "wait", slot |-> s, key |-> key, after |-> after]

Hit(key) ==
    /\ call.at = "idle" /\ key \notin Oversized /\ key \in DOMAIN map
    /\ Room("compute")
    /\ order' = IF sync THEN order ELSE ToFront(key, order)
    /\ pending' = IF sync THEN pending ELSE [pending EXCEPT ![map[key]] = TRUE]
    /\ stream' = IF sync THEN stream
                 ELSE [stream EXCEPT !["compute"] =
                         Append(@, WaitFor(key, map[key], After("compute", map[key])))]
    /\ call' = Call("launch", key, map[key], 0)
    /\ UNCHANGED <<config, map, event, next, buf, busy, vram>>

\* Its consumer is marked done and its last recorded work has executed.
Reusable(key) == ~pending[map[key]] /\ EventDone(map[key])

\* The victim: the first idle slot above the tail whose event is done, else
\* the tail; in sync mode the tail.
LruVictim ==
    LET ready == {i \in 1 .. Len(order) - 1 : Reusable(order[i])}
    IN IF sync \/ ready = {} THEN Last(order) ELSE order[Max(ready)]

\* A miss decides on the slot and rewrites the bookkeeping before the fill;
\* in sync mode it first drains the compute stream.
Miss(key) ==
    LET v == IF Fresh THEN key ELSE LruVictim
        s == IF Fresh THEN Cardinality(DOMAIN map) ELSE map[v]
    IN /\ call.at = "idle" /\ key \notin Oversized /\ key \notin DOMAIN map
       /\ sync => Idle("compute")
       /\ Rebind(key, v, s)
       /\ pending' = IF sync THEN pending ELSE [pending EXCEPT ![s] = TRUE]
       /\ call' = Call(IF store THEN "stage" ELSE "fill", key, s, 0)
       /\ UNCHANGED <<config, event, next, buf, busy, vram, stream>>

\* Mutant: the slot is handed out without waiting for its last copy.
Acquirable_Always(b) == TRUE

\* BounceRing.acquire blocks on the event of the slot.
Acquirable(b) == busy[b] = 0

NextBounce == (next + 1) % NBounce

\* The slice is read from the store into the next slot of the bounce ring.
Stage ==
    /\ call.at = "stage"
    /\ Acquirable(next)
    /\ buf' = [buf EXCEPT ![next] = call.key]
    /\ next' = NextBounce
    /\ call' = Call("fill", call.key, call.slot, next)
    /\ UNCHANGED <<config, policy, event, busy, vram, stream>>

\* A failed read of the store: ensure fails and the caller aborts.
ReadFails ==
    /\ call.at = "stage"
    /\ Acquirable(next)
    /\ next' = NextBounce
    /\ call' = NoCall("aborted")
    /\ UNCHANGED <<config, policy, event, buf, busy, vram, stream>>

\* Mutant: the slot is overwritten without waiting for its consumer.
CopySlice_NoWait(s) ==
    [op |-> "copy", slot |-> s, key |-> call.key, after |-> 0, from |-> call.bounce]

\* What a fill enqueues on dma: the copy, behind a wait for the event of the slot.
CopySlice(s) ==
    [op |-> "copy", slot |-> s, key |-> call.key, after |-> After("dma", s),
     from |-> call.bounce]

\* The events of the bounce slot and of the slot are recorded behind the copy, and
\* the compute stream waits for it.
Fill ==
    LET s == call.slot
        dma == Append(stream["dma"], CopySlice(s))
    IN /\ call.at = "fill" /\ ~sync /\ Room("dma") /\ Room("compute")
       /\ stream' = [dma |-> dma,
                     compute |-> Append(stream["compute"], WaitFor(call.key, s, Len(dma)))]
       /\ event' = Record(s, "dma", Len(dma))
       /\ busy' = IF store THEN [busy EXCEPT ![call.bounce] = Len(dma)] ELSE busy
       /\ call' = Call("launch", call.key, s, 0)
       /\ UNCHANGED <<config, policy, next, buf, vram>>

\* In sync mode the copy is done when the call returns.
FillSync ==
    /\ call.at = "fill" /\ sync
    /\ vram' = [vram EXCEPT ![call.slot] = IF store THEN buf[call.bounce] ELSE call.key]
    /\ call' = Call("launch", call.key, call.slot, 0)
    /\ UNCHANGED <<config, policy, event, next, buf, busy, stream>>

\* An expert that does not fit: the store path aborts; otherwise the matmul
\* reads host memory and the cache is not involved.
TooLarge(key) ==
    /\ call.at = "idle" /\ key \in Oversized /\ store
    /\ call' = NoCall("aborted")
    /\ UNCHANGED <<config, policy, event, next, buf, busy, vram, stream>>

\* The matmul of the expert, unless its output was found in the output cache.
Matmul ==
    /\ call.at = "launch" /\ Room("compute")
    /\ \/ stream' = [stream EXCEPT !["compute"] =
                       Append(@, [op |-> "kernel", slot |-> call.slot, key |-> call.key,
                                  after |-> 0])]
       \/ UNCHANGED stream
    /\ call' = Call("mark", call.key, call.slot, 0)
    /\ UNCHANGED <<config, policy, event, next, buf, busy, vram>>

MarkComputeDone ==
    /\ call.at = "mark"
    /\ pending' = [pending EXCEPT ![call.slot] = FALSE]
    /\ event' = Record(call.slot, "compute", Len(stream["compute"]))
    /\ call' = NoCall("idle")
    /\ UNCHANGED <<config, map, order, next, buf, busy, vram, stream>>

-----------------------------------------------------------------------------
(* The device                                                              *)

\* The head of X executes; a copy moves what its bounce slot holds by then.
Run(X) ==
    /\ Advance(X)
    /\ LET o == Head(stream[X])
       IN vram' = IF o.op # "copy" THEN vram
                  ELSE [vram EXCEPT ![o.slot] = IF store THEN buf[o.from] ELSE o.key]
    /\ busy' = [b \in Bounce |-> IF X = "dma" THEN Less(busy[b]) ELSE busy[b]]
    /\ UNCHANGED <<config, policy, next, buf, call>>

StreamInit ==
    /\ store \in BOOLEAN /\ sync \in BOOLEAN
    /\ map = <<>> /\ order = <<>>
    /\ pending = [s \in Slot |-> FALSE]
    /\ event = [s \in Slot |-> [by |-> "dma", ahead |-> 0]]
    /\ next = 0
    /\ buf = [b \in Bounce |-> Empty]
    /\ busy = [b \in Bounce |-> 0]
    /\ vram = [s \in Slot |-> Empty]
    /\ stream = [X \in Stream |-> <<>>]
    /\ call = NoCall("idle")

ThreadStep ==
    \/ \E key \in Slice : Hit(key) \/ Miss(key) \/ TooLarge(key)
    \/ Stage \/ ReadFails \/ Fill \/ FillSync \/ Matmul \/ MarkComputeDone

StreamNext == ThreadStep \/ Run("dma") \/ Run("compute")

StreamSpec == StreamInit /\ [][StreamNext]_streaming

-----------------------------------------------------------------------------
(* Properties                                                              *)

\* The types of the cache: no key is bound to a slot outside the VRAM pool and
\* acquire never leaves the bounce ring.
StreamTypeOK ==
    /\ store \in BOOLEAN /\ sync \in BOOLEAN
    /\ DOMAIN map \subseteq Slice /\ \A k \in DOMAIN map : map[k] \in Slot
    /\ pending \in [Slot -> BOOLEAN]
    /\ \A s \in Slot : event[s].by \in Stream /\ event[s].ahead \in 0 .. Len(stream[event[s].by])
    /\ next \in Bounce /\ busy \in [Bounce -> 0 .. Len(stream["dma"])]
    /\ buf \in [Bounce -> Slice \cup {Empty}] /\ vram \in [Slot -> Slice \cup {Empty}]

\* bounce.rs: "a slot is never refilled while a previous DMA still reads it".
StagedSliceStable ==
    store => \A i \in DOMAIN stream["dma"] : buf[stream["dma"][i].from] = stream["dma"][i].key

\* vitriol-cuda-integration.cpp, whose protocol lru.rs mirrors: pick "the LRU
\* candidate whose last DMA has COMPLETED".  A ready slot is passed over only
\* for a ready slot that was used less recently.
VictimIsLeastRecent ==
    [][\A i, j \in DOMAIN order :
         order[i] \notin DOMAIN map' /\ Reusable(order[j]) => j <= i]_streaming
=============================================================================
