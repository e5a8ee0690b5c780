----------------------------- MODULE ExpertPath -----------------------------
(***************************************************************************)
(* How the engine brings expert weights to the GPU when streaming in C++   *)
(* (engine/ggml/src/ggml-cuda/vitriol-cuda-integration.cpp, called by      *)
(* ggml_cuda_mul_mat_id): the predictor and its prefetches, the page-lock  *)
(* LRU over host slices, the VRAM LRU and the output cache, on one device  *)
(* with lazy locking and prediction on and the weights in host memory.     *)
(*                                                                         *)
(* One host thread enqueues on the streams of DeviceSlots.                 *)
(***************************************************************************)
EXTENDS Integers, DeviceSlots

CONSTANTS Expert,      \* experts of a layer
          NLayers,     \* expert tensors, in execution order
          LockMax,     \* max_locked_mb, in slices
          LockMayFail, \* mlock, cudaHostRegister or the retiring sync may fail
          MaxTokens    \* bound

ASSUME ExpertPathAssumption ==
    /\ NLayers \in Nat \ {0} /\ MaxTokens \in Nat \ {0}
    /\ LockMax \in Nat /\ LockMayFail \in BOOLEAN
    /\ Empty \notin Expert

Layer == 0 .. NLayers - 1
Key == Layer \X Expert      \* (tensor base, expert index)
Other(X) == IF X = "dma" THEN "compute" ELSE "dma"

VARIABLES
    outcache,           \* config: the approximate output cache is on
    at, token, layer,   \* the host thread: place in the op, token, layer
    todo,               \* experts the present loop still has to visit
    used,               \* layer -> the experts its last op used
    cur, prev, flat, last,   \* g_cur_exp, g_prev_exp, g_pred_experts, g_last_layer
    stamped,            \* slots by last_use, latest first; unstamped ones are not in it
    locked, orphans,    \* page-locked slices, latest first; failed unregistrations
    output              \* key -> token whose output is cached, or Empty

host == <<at, token, layer, todo, used>>
predictor == <<cur, prev, flat, last>>
lru == <<map, order, pending, event, stamped>>
locks == <<locked, orphans>>
vars == <<outcache, host, predictor, lru, locks, output, vram, stream>>

-----------------------------------------------------------------------------
(* Predictor *)

\* detect_token_boundary: the index did not grow, so cur becomes prev.
Boundary(l) == last >= 0 /\ l <= last
Prev(l) == IF Boundary(l) THEN cur ELSE prev
Cur(l) == IF Boundary(l) THEN [k \in Layer |-> {}] ELSE cur

\* The union of the previous layer's experts and of this layer's at the previous
\* token; when it is not empty, the flat list too.
Predicted(l) ==
    LET base == (IF l > 0 THEN Cur(l)[l - 1] ELSE {}) \cup Prev(l)[l]
    IN  IF base = {} THEN {} ELSE base \cup flat

\* vitriol_predictor_prefetch, up to its loop of prefetches.
BeginOp ==
    /\ at = "begin" /\ token < MaxTokens
    /\ cur' = Cur(layer) /\ prev' = Prev(layer) /\ last' = layer
    /\ todo' = Predicted(layer) /\ at' = "prefetch"
    /\ UNCHANGED <<outcache, token, layer, used, flat, lru, locks, output, vram, stream>>

\* Mutant: the boundary is looked for after the experts were stored.
predictor_update_Late ==
    /\ prev' = IF Boundary(layer) THEN [cur EXCEPT ![layer] = used[layer]] ELSE prev
    /\ cur' = IF Boundary(layer) THEN [k \in Layer |-> {}] ELSE [cur EXCEPT ![layer] = used[layer]]
    /\ last' = layer /\ flat' = used[layer]

\* vitriol_predictor_update.
predictor_update ==
    /\ prev' = Prev(layer)
    /\ cur' = [Cur(layer) EXCEPT ![layer] = used[layer]]
    /\ last' = layer /\ flat' = used[layer]

-----------------------------------------------------------------------------
(* Page-lock LRU *)

\* Mutant: the slices are unregistered without synchronising the device.
Retire_NoSync(victims) ==
    orphans' \in {orphans} \cup IF LockMayFail THEN {orphans \cup victims} ELSE {}

\* retire_locked_value synchronises the device first; when that or the
\* unregistration fails, the slice stays registered as an orphan.
Retire(victims) ==
    /\ victims # {} => Idle("dma") /\ Idle("compute")
    /\ orphans' \in {orphans} \cup IF LockMayFail THEN {orphans \cup victims} ELSE {}

\* Mutant: a full table makes the caller wait instead of retiring a slice.
ensure_expert_locked_Waits(k) ==
    /\ k \in ToSet(locked) \/ Len(locked) < LockMax
    /\ locked' = ToFront(k, locked)
    /\ UNCHANGED orphans

\* vitriol_ensure_expert_locked: a known slice moves to the front; otherwise old
\* slices retire until one fits, and the slice is locked and registered, which
\* fails for a range that is still registered.
ensure_expert_locked(k) ==
    IF k \in ToSet(locked)
    THEN locked' = ToFront(k, locked) /\ UNCHANGED orphans
    ELSE IF LockMax = 0 THEN UNCHANGED locks
    ELSE LET kept == IF Len(locked) < LockMax THEN locked ELSE SubSeq(locked, 1, LockMax - 1)
         IN  /\ Retire(ToSet(locked) \ ToSet(kept))
             /\ locked' \in (IF k \in orphans THEN {} ELSE {<<k>> \o kept})
                            \cup (IF LockMayFail \/ k \in orphans THEN {kept} ELSE {})

Registered == ToSet(locked) \cup orphans

-----------------------------------------------------------------------------
(* VRAM LRU *)

\* The host memory a copy of k reads from.
Memory(k) == IF k \in Registered' THEN "locked" ELSE "pageable"

\* Mutant: the copy does not wait for the readers of the slot.
CopyTo_NoWait(k, s) == [op |-> "copy", slot |-> s, key |-> k, after |-> 0, from |-> Memory(k)]

\* The host-to-device copy, behind a wait for the event of the slot.
CopyTo(k, s) ==
    [op |-> "copy", slot |-> s, key |-> k, after |-> After("dma", s), from |-> Memory(k)]

\* vitriol_lru_prefetch_async: unless cached, the last key of the order gives up
\* its slot, whatever its state, and a copy is enqueued that nobody waits for.
lru_prefetch(k) ==
    IF k \in DOMAIN map THEN UNCHANGED <<lru, stream>>
    ELSE LET v == IF Fresh THEN k ELSE Last(order)
             s == IF Fresh THEN Cardinality(DOMAIN map) ELSE map[v]
         IN  /\ Rebind(k, v, s)
             /\ pending' = [pending EXCEPT ![s] = TRUE]
             /\ stream' = [stream EXCEPT !["dma"] = Append(@, CopyTo(k, s))]
             /\ event' = Record(s, "dma", Len(stream'["dma"]))
             /\ UNCHANGED stamped

\* One prediction: the slice is locked, then prefetched.
PrefetchOne(e) ==
    /\ at = "prefetch" /\ e \in todo
    /\ ensure_expert_locked(<<layer, e>>)
    /\ lru_prefetch(<<layer, e>>)
    /\ todo' = todo \ {e}
    /\ UNCHANGED <<outcache, at, token, layer, used, predictor, output, vram>>

\* The ids are read back, which drains the compute stream.
ReadIds(ids) ==
    /\ at = "prefetch" /\ todo = {} /\ Idle("compute")
    /\ at' = "experts" /\ todo' = ids /\ used' = [used EXCEPT ![layer] = ids]
    /\ UNCHANGED <<outcache, token, layer, predictor, lru, locks, output, vram, stream>>

\* The keys the victim scan accepts: not pending, last work done; the most recent
\* key is not looked at.
Ready == {i \in 2 .. Len(order) : ~ pending[map[order[i]]] /\ EventDone(map[order[i]])}

\* The least recent ready key that is not hot (used in the last hot_ms: the first
\* n of stamped), else the least recent ready one, else the last of all.
Victim(n) ==
    LET cold == {i \in Ready : \A j \in 1 .. n : stamped[j] # map[order[i]]}
    IN  IF Ready = {} THEN Last(order)
        ELSE order[Max(IF cold = {} THEN Ready ELSE cold)]

\* The matmul reads the slot, or the cached output is copied instead.
Compute(k, s, after) ==
    [op |-> IF outcache /\ output[k] # Empty THEN "cached" ELSE "kernel",
     slot |-> s, key |-> k, after |-> after]

\* What follows the lookup: the operation, mark_compute_done, the output store.
Launch(k, s, dma, after) ==
    /\ stream' = [dma |-> dma, compute |-> Append(stream["compute"], Compute(k, s, after))]
    /\ event' = Record(s, "compute", Len(stream'["compute"]))
    /\ pending' = [pending EXCEPT ![s] = FALSE]
    /\ stamped' = ToFront(s, stamped)
    /\ output' = IF outcache /\ output[k] = Empty THEN [output EXCEPT ![k] = token] ELSE output

\* vitriol_lru_ensure, a hit: compute waits for the event of the slot.
RunHit(k) ==
    /\ k \in DOMAIN map
    /\ order' = ToFront(k, order)
    /\ Launch(k, map[k], stream["dma"], After("compute", map[k]))
    /\ UNCHANGED map

\* A miss fills a fresh slot or the victim's; with no key ready it first drains
\* the compute stream.
RunMiss(k) ==
    /\ k \notin DOMAIN map
    /\ ~ Fresh /\ Ready = {} => Idle("compute")
    /\ \E n \in (IF Fresh THEN {0} ELSE 0 .. Len(stamped)) :
          LET v == IF Fresh THEN k ELSE Victim(n)
              s == IF Fresh THEN Cardinality(DOMAIN map) ELSE map[v]
              dma == Append(stream["dma"], CopyTo(k, s))
          IN  Rebind(k, v, s) /\ Launch(k, s, dma, Len(dma))

\* One expert of the op: lock, ensure, matmul, mark.
RunExpert(e) ==
    /\ at = "experts" /\ e \in todo
    /\ ensure_expert_locked(<<layer, e>>)
    /\ RunHit(<<layer, e>>) \/ RunMiss(<<layer, e>>)
    /\ todo' = todo \ {e}
    /\ UNCHANGED <<outcache, at, token, layer, used, predictor, vram>>

\* get_layer_index: tensors are numbered by first appearance, so the first tensor
\* of the next token has index 0 again.
NextLayer == (layer + 1) % NLayers

\* The op ends with the update of the predictor; the next layer or token begins.
EndOp ==
    /\ at = "experts" /\ todo = {}
    /\ predictor_update
    /\ at' = "begin"
    /\ layer' = NextLayer
    /\ token' = IF layer' = 0 THEN token + 1 ELSE token
    /\ UNCHANGED <<outcache, todo, used, lru, locks, output, vram, stream>>

-----------------------------------------------------------------------------
(* The device *)

Execute(X) ==
    /\ Advance(X)
    /\ LET o == Head(stream[X])
       IN  vram' = IF o.op = "copy" THEN [vram EXCEPT ![o.slot] = o.key] ELSE vram
    /\ UNCHANGED <<outcache, host, predictor, map, order, pending, stamped, locks, output>>

Init ==
    /\ outcache \in BOOLEAN
    /\ at = "begin" /\ token = 0 /\ layer = 0 /\ todo = {}
    /\ used = [l \in Layer |-> {}]
    /\ cur = [l \in Layer |-> {}] /\ prev = [l \in Layer |-> {}] /\ flat = {} /\ last = -1
    /\ map = <<>> /\ order = <<>>
    /\ pending = [s \in Slot |-> FALSE]
    /\ event = [s \in Slot |-> [by |-> "dma", ahead |-> 0]]
    /\ stamped = <<>> /\ locked = <<>> /\ orphans = {}
    /\ output = [k \in Key |-> Empty]
    /\ vram = [s \in Slot |-> Empty]
    /\ stream = [X \in Stream |-> <<>>]

HostStep == \/ BeginOp \/ EndOp
            \/ \E e \in Expert : PrefetchOne(e) \/ RunExpert(e)
            \/ \E ids \in SUBSET Expert : ids # {} /\ ReadIds(ids)
Next == HostStep \/ \E X \in Stream : Execute(X)

\* The thread runs on, and each stream executes what it can.
Fairness == WF_vars(HostStep) /\ \A X \in Stream : WF_vars(Execute(X))
Spec == Init /\ [][Next]_vars /\ Fairness

-----------------------------------------------------------------------------
(* Properties *)

TypeOK ==
    /\ outcache \in BOOLEAN
    /\ at \in {"begin", "prefetch", "experts"} /\ token \in 0 .. MaxTokens /\ layer \in Layer
    /\ todo \subseteq Expert /\ flat \subseteq Expert
    /\ {used, cur, prev} \subseteq [Layer -> SUBSET Expert] /\ last \in Layer \cup {-1}
    /\ DOMAIN map \subseteq Key /\ \A k \in DOMAIN map : map[k] \in Slot
    /\ pending \in [Slot -> BOOLEAN]
    /\ \A s \in Slot : event[s].by \in Stream /\ event[s].ahead \in 0 .. Len(stream[event[s].by])
    /\ ToSet(stamped) \subseteq Slot /\ ToSet(locked) \subseteq Key /\ orphans \subseteq Key
    /\ output \in [Key -> {Empty} \cup 0 .. MaxTokens]
    /\ vram \in [Slot -> Key \cup {Empty}]

\* A host slice that was page-locked when its copy was enqueued is not
\* unregistered before the copy has run, however the lock table turns over.
CopySourceLocked ==
    \A i \in DOMAIN stream["dma"] :
        stream["dma"][i].from = "locked" => stream["dma"][i].key \in Registered

\* Each cached expert has a slot of its own and a place in the order, and no slice
\* is locked twice.
TablesAgree == MapOrderAgree /\ Len(locked) <= LockMax /\ IsInjective(locked)

\* Every layer after the first is prefetched with at least the experts the layer
\* before it used for this token: no token boundary is seen in between.
CrossLayerPredicted ==
    [][at = "begin" /\ at' = "prefetch" /\ layer > 0 => used[layer - 1] \subseteq todo']_vars

\* The tokens are computed: neither the waits between the streams nor the host's
\* synchronisations with them form a circle.
TokensFinish == <>(token = MaxTokens /\ Idle("dma") /\ Idle("compute"))

\* "(b) temporal: prev[this_layer] (experts from same layer, previous token)": from
\* the second token on, a layer is prefetched with what it used for the last token.
TemporalPredicted ==
    [][at = "begin" /\ at' = "prefetch" /\ token > 0 => used[layer] \subseteq todo']_vars

\* "On token boundary, invalidate ALL entries from the previous token because
\* outputs are token-dependent": an output found in the cache is of this token.
OutputOfThisToken ==
    \A k \in Key : at = "experts" /\ k[1] = layer /\ k[2] \in todo /\ output[k] # Empty => output[k] = token
=============================================================================
