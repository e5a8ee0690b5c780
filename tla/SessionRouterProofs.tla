------------------------- MODULE SessionRouterProofs -------------------------
(***************************************************************************)
(* Theorems about the session router: its two tables agree and an evicted  *)
(* session has its state file, for any number of requests, sessions and    *)
(* slots, whatever saves, restores and launches fail.                      *)
(***************************************************************************)
EXTENDS SessionRouter, TLAPS

-----------------------------------------------------------------------------
(* Sequences, as far as the task deques need them *)

LEMMA TailFacts ==
    ASSUME NEW S, NEW q \in Seq(S), q # <<>>
    PROVE  /\ Tail(q) \in Seq(S) /\ Head(q) = q[1] /\ q[1] \in S /\ 1 \in DOMAIN q
           /\ \A i \in DOMAIN Tail(q) : i \in Nat /\ i + 1 \in DOMAIN q /\ i + 1 # 1 /\ Tail(q)[i] = q[i + 1]
  OBVIOUS

LEMMA AppendFacts ==
    ASSUME NEW S, NEW q \in Seq(S), NEW x \in S
    PROVE  /\ Append(q, x) \in Seq(S)
           /\ \A i \in DOMAIN Append(q, x) :
                 \/ i \in DOMAIN q /\ Append(q, x)[i] = q[i]
                 \/ i = Len(q) + 1 /\ Append(q, x)[i] = x
  OBVIOUS

LEMMA ConsFacts ==
    ASSUME NEW S, NEW q \in Seq(S), NEW x \in S
    PROVE  /\ <<x>> \o q \in Seq(S)
           /\ \A i \in DOMAIN (<<x>> \o q) :
                 \/ i = 1 /\ (<<x>> \o q)[i] = x
                 \/ i \in Nat /\ i - 1 \in DOMAIN q /\ (<<x>> \o q)[i] = q[i - 1]
  OBVIOUS

LEMMA ConcatFacts ==
    ASSUME NEW S, NEW p \in Seq(S), NEW q \in Seq(S)
    PROVE  /\ p \o q \in Seq(S) /\ DOMAIN (p \o q) = 1 .. Len(p) + Len(q)
           /\ \A i \in 1 .. Len(p) + Len(q) : (p \o q)[i] = IF i <= Len(p) THEN p[i] ELSE q[i - Len(p)]
  OBVIOUS

LEMMA RemoveFacts ==
    ASSUME NEW S, NEW q \in Seq(S), NEW n \in DOMAIN q
    PROVE  /\ RemoveAt(q, n) \in Seq(S)
           /\ \A i \in DOMAIN RemoveAt(q, n) :
                 i \in Nat /\ \/ i < n /\ i \in DOMAIN q /\ RemoveAt(q, n)[i] = q[i]
                              \/ i >= n /\ i + 1 \in DOMAIN q /\ RemoveAt(q, n)[i] = q[i + 1]
  <1>1. n \in 1 .. Len(q) /\ Len(q) \in Nat
    OBVIOUS
  <1>2. SubSeq(q, 1, n - 1) \in Seq(S) /\ Len(SubSeq(q, 1, n - 1)) = n - 1
    BY <1>1
  <1>3. SubSeq(q, n + 1, Len(q)) \in Seq(S) /\ Len(SubSeq(q, n + 1, Len(q))) = Len(q) - n
    BY <1>1
  <1>4. \A i \in 1 .. n - 1 : SubSeq(q, 1, n - 1)[i] = q[i]
    BY <1>1
  <1>5. \A i \in 1 .. Len(q) - n : SubSeq(q, n + 1, Len(q))[i] = q[n + i]
    BY <1>1
  <1>6. /\ RemoveAt(q, n) \in Seq(S) /\ DOMAIN RemoveAt(q, n) = 1 .. Len(q) - 1
        /\ \A i \in 1 .. Len(q) - 1 :
              RemoveAt(q, n)[i] = IF i <= n - 1 THEN SubSeq(q, 1, n - 1)[i]
                                  ELSE SubSeq(q, n + 1, Len(q))[i - (n - 1)]
    <2>. DEFINE a == SubSeq(q, 1, n - 1)
                b == SubSeq(q, n + 1, Len(q))
    <2>1. a \in Seq(S) /\ b \in Seq(S) /\ Len(a) = n - 1 /\ Len(b) = Len(q) - n
      BY <1>2, <1>3
    <2>2. RemoveAt(q, n) = a \o b
      BY DEF RemoveAt
    <2>3. Len(a) + Len(b) = Len(q) - 1
      BY <1>1, <2>1
    <2>. HIDE DEF a, b
    <2>4. /\ a \o b \in Seq(S) /\ DOMAIN (a \o b) = 1 .. Len(a) + Len(b)
          /\ \A i \in 1 .. Len(a) + Len(b) : (a \o b)[i] = IF i <= Len(a) THEN a[i] ELSE b[i - Len(a)]
      BY <2>1, ConcatFacts
    <2>. QED  BY <2>1, <2>2, <2>3, <2>4 DEF a, b
  <1>7. \A i \in 1 .. Len(q) - 1 : RemoveAt(q, n)[i] = IF i < n THEN q[i] ELSE q[i + 1]
    <2>. SUFFICES ASSUME NEW i \in 1 .. Len(q) - 1
                  PROVE  RemoveAt(q, n)[i] = IF i < n THEN q[i] ELSE q[i + 1]
      OBVIOUS
    <2>1. CASE i < n
      BY <1>1, <1>4, <1>6, <2>1
    <2>2. CASE ~ (i < n)
      <3>1. i - (n - 1) \in 1 .. Len(q) - n /\ n + (i - (n - 1)) = i + 1
        BY <1>1, <2>2
      <3>2. SubSeq(q, n + 1, Len(q))[i - (n - 1)] = q[i + 1]
        BY <1>5, <3>1, Zenon
      <3>3. ~ (i <= n - 1)
        BY <1>1, <2>2
      <3>. QED  BY <1>6, <2>2, <3>2, <3>3, Zenon
    <2>. QED  BY <2>1, <2>2
  <1>. QED  BY <1>1, <1>6, <1>7

-----------------------------------------------------------------------------
(* The inductive invariant *)

Critical == {"again", "SAVE", "saved", "unsaved", "RESTORE", "restored", "unrestored", "claim"}

Types ==
    /\ known \subseteq Key /\ resident \in [Key -> Slot \cup {None}]
    /\ claims \in [Slot -> Key \cup {None}] /\ lock \in Req \cup {None}
    /\ pc \in [Req -> {"new", "routed", "posted", "done"} \cup Critical]
    /\ target \in [Req -> Slot \cup {None}] /\ run \in [Slot -> Req \cup {None}]
    /\ queue \in Seq(Tasks) /\ deferred \in Seq(Tasks)

Agree == \A k \in Key, s \in Slot : (resident[k] = s) <=> (claims[s] = k)

ResidentKnown == \A k \in Key : resident[k] # None => k \in known

\* The mutex is held from the first wait to the claim.
Locked == \A r \in Req : pc[r] \in Critical <=> lock = r

\* What the holder knows: its own session has no slot; the victim of a save is
\* still there, and its file is whole once saved; the slot it restores into or is
\* about to claim is nobody's.
Holding ==
    \A r \in Req : pc[r] \in Critical =>
        /\ resident[KeyOf[r]] = None
        /\ pc[r] \in {"SAVE", "saved", "unsaved"} => target[r] \in Slot /\ claims[target[r]] # None
        /\ pc[r] = "saved" => claims[target[r]] \in files \ broken
        /\ pc[r] \in {"RESTORE", "restored", "claim"} => target[r] \in Slot /\ claims[target[r]] = None

SlotTask(t) == t.kind # "COMPLETION"

\* The thread of a slot task waits for it; that of a completion is past the router.
Waits(t) ==
    IF SlotTask(t)
    THEN /\ t.slot \in Slot /\ pc[t.by] = t.kind /\ target[t.by] = t.slot
         /\ t.kind = "SAVE" => t.key = claims[t.slot]
    ELSE pc[t.by] \in {"posted", "done"}

Lined(q) == \A i \in DOMAIN q : Waits(q[i])
Unique(q) == \A i, j \in DOMAIN q : SlotTask(q[i]) /\ SlotTask(q[j]) => i = j
Without(q) == \A i \in DOMAIN q : ~ SlotTask(q[i])
NoSlotTask == Without(queue) /\ Without(deferred)

\* At most one slot task is under way, in one of the deques.
QueueInv ==
    /\ Lined(queue) /\ Lined(deferred)
    /\ Unique(queue) /\ Unique(deferred) /\ (Without(queue) \/ Without(deferred))
    /\ \A s \in Slot : run[s] # None => pc[run[s]] \in {"posted", "done"}

RouterInv == Types /\ Agree /\ ResidentKnown /\ EvictedIsSaved /\ Locked /\ Holding /\ QueueInv

\* A holder that is not waiting for the engine has no task there, and with the
\* mutex free nobody has.
LEMMA HolderAlone ==
    ASSUME Types, Locked, QueueInv,
           lock = None \/ (lock \in Req /\ pc[lock] \notin {"SAVE", "RESTORE"})
    PROVE  NoSlotTask
  <1>1. ASSUME NEW t \in Tasks, Waits(t), SlotTask(t)  PROVE FALSE
    <2>1. t.by \in Req /\ t.kind \in {"SAVE", "RESTORE"} /\ pc[t.by] = t.kind
      BY <1>1 DEF Waits, SlotTask, Tasks
    <2>2. lock = t.by
      BY <2>1 DEF Locked, Critical
    <2>. QED  BY <2>1, <2>2, RouterAssumption
  <1>2. (\A i \in DOMAIN queue : queue[i] \in Tasks) /\ (\A i \in DOMAIN deferred : deferred[i] \in Tasks)
    BY DEF Types
  <1>. QED  BY <1>1, <1>2 DEF NoSlotTask, Without, QueueInv, Lined

-----------------------------------------------------------------------------
(* The deques under each kind of step *)

\* A task stays lined up when its thread, and for a slot task its slot, are left alone.
LEMMA WaitsStays ==
    ASSUME NEW t \in Tasks, Waits(t), pc'[t.by] = pc[t.by], target'[t.by] = target[t.by],
           claims' = claims \/ ~ SlotTask(t)
    PROVE  Waits(t)'
  BY DEF Waits, SlotTask

\* A step of a thread that is not in the deques; it may append one task.
LEMMA ThreadKeepsQueue ==
    ASSUME Types, QueueInv, NEW r \in Req, pc[r] \notin {"posted", "done", "SAVE", "RESTORE"},
           \A q \in Req \ {r} : pc'[q] = pc[q] /\ target'[q] = target[q],
           UNCHANGED <<deferred, run>>,
           claims' = claims \/ NoSlotTask,
           \/ queue' = queue
           \/ \E x \in Tasks : /\ queue' = Append(queue, x) /\ Waits(x)'
                               /\ SlotTask(x) => NoSlotTask
    PROVE  QueueInv' /\ queue' \in Seq(Tasks)
  <1>1. \A s \in Slot : run'[s] # None => pc'[run'[s]] \in {"posted", "done"}
    BY DEF QueueInv, Types
  <1>2. ASSUME NEW t \in Tasks, Waits(t), claims' = claims \/ ~ SlotTask(t)  PROVE Waits(t)'
    <2>1. t.by \in Req /\ t.by # r
      BY <1>2 DEF Waits, SlotTask, Tasks
    <2>. QED  BY <1>2, <2>1, WaitsStays
  <1>3. (\A i \in DOMAIN queue : queue[i] \in Tasks) /\ (\A i \in DOMAIN deferred : deferred[i] \in Tasks)
    BY DEF Types
  <1>4. \A i \in DOMAIN queue : Waits(queue[i])'
    BY <1>2, <1>3 DEF QueueInv, Lined, NoSlotTask, Without
  <1>5. \A i \in DOMAIN deferred : Waits(deferred[i])'
    BY <1>2, <1>3 DEF QueueInv, Lined, NoSlotTask, Without
  <1>6. CASE queue' = queue
    BY <1>1, <1>4, <1>5, <1>6 DEF QueueInv, Lined, Unique, Without, Types, SlotTask
  <1>7. CASE \E x \in Tasks : /\ queue' = Append(queue, x) /\ Waits(x)'
                              /\ SlotTask(x) => NoSlotTask
    <2>1. PICK x \in Tasks : /\ queue' = Append(queue, x) /\ Waits(x)'
                             /\ SlotTask(x) => NoSlotTask
      BY <1>7
    <2>2. /\ queue' \in Seq(Tasks)
          /\ \A i \in DOMAIN queue' : \/ i \in DOMAIN queue /\ queue'[i] = queue[i]
                                      \/ i = Len(queue) + 1 /\ queue'[i] = x
      BY <2>1, AppendFacts DEF Types
    <2>3. Lined(queue)' /\ Lined(deferred)'
      BY <1>4, <1>5, <2>1, <2>2 DEF Lined
    <2>4. Unique(queue)' /\ Unique(deferred)' /\ (Without(queue) \/ Without(deferred))'
      <3>1. CASE SlotTask(x)
        BY <2>1, <2>2, <3>1 DEF QueueInv, Unique, Without, NoSlotTask, SlotTask
      <3>2. CASE ~ SlotTask(x)
        BY <2>2, <3>2 DEF QueueInv, Unique, Without, SlotTask
      <3>. QED  BY <3>1, <3>2
    <2>. QED  BY <1>1, <2>2, <2>3, <2>4 DEF QueueInv
  <1>. QED  BY <1>6, <1>7

\* The engine takes the head of the queue and is done with it.
LEMMA TakeKeepsQueue ==
    ASSUME Types, QueueInv, queue # <<>>, Take, UNCHANGED <<deferred, claims>>,
           \A q \in Req \ {Head(queue).by} : pc'[q] = pc[q] /\ target'[q] = target[q],
           SlotTask(Head(queue)) \/ pc'[Head(queue).by] \in {"posted", "done"},
           \A s \in Slot : \/ run'[s] = run[s]
                           \/ run'[s] = Head(queue).by /\ ~ SlotTask(Head(queue))
    PROVE  QueueInv' /\ queue' \in Seq(Tasks)
  <1>. DEFINE h == Head(queue)
  <1>1. /\ queue' \in Seq(Tasks) /\ h = queue[1] /\ h \in Tasks /\ 1 \in DOMAIN queue
        /\ \A i \in DOMAIN queue' : i \in Nat /\ i + 1 \in DOMAIN queue /\ i + 1 # 1 /\ queue'[i] = queue[i + 1]
    BY TailFacts DEF Types, Take
  <1>2. (\A i \in DOMAIN queue : queue[i] \in Tasks) /\ (\A i \in DOMAIN deferred : deferred[i] \in Tasks)
    BY DEF Types
  <1>3. Waits(h) /\ h.by \in Req /\ h.kind \in {"SAVE", "RESTORE", "COMPLETION"}
    BY <1>1 DEF QueueInv, Lined, Tasks
  <1>. HIDE DEF h
  <1>4. SlotTask(h) => Without(deferred) /\ \A i \in DOMAIN queue : i # 1 => ~ SlotTask(queue[i])
    BY <1>1 DEF QueueInv, Unique, Without
  <1>5. ASSUME NEW t \in Tasks, Waits(t), SlotTask(h) => ~ SlotTask(t)  PROVE Waits(t)'
    <2>1. t.by \in Req /\ t.kind \in {"SAVE", "RESTORE", "COMPLETION"}
      BY DEF Tasks
    <2>2. CASE t.by # h.by
      BY <1>5, <2>1, <2>2, WaitsStays DEF h
    <2>3. CASE t.by = h.by
      <3>1. ~ SlotTask(h) /\ ~ SlotTask(t)
        BY <1>3, <1>5, <2>1, <2>3 DEF Waits, SlotTask
      <3>. QED  BY <2>3, <3>1 DEF Waits, SlotTask, h
    <2>. QED  BY <2>2, <2>3
  <1>6. Lined(queue)'
    BY <1>1, <1>2, <1>4, <1>5 DEF QueueInv, Lined
  <1>7. Lined(deferred)'
    BY <1>2, <1>4, <1>5 DEF QueueInv, Lined, Without
  <1>8. Unique(queue)' /\ Unique(deferred)' /\ (Without(queue) \/ Without(deferred))'
    BY <1>1 DEF QueueInv, Unique, Without, SlotTask
  <1>9. \A s \in Slot : run'[s] # None => pc'[run'[s]] \in {"posted", "done"}
    <2>. SUFFICES ASSUME NEW s \in Slot, run'[s] # None  PROVE pc'[run'[s]] \in {"posted", "done"}
      OBVIOUS
    <2>1. CASE run'[s] = h.by /\ ~ SlotTask(h)
      BY <2>1 DEF h
    <2>2. CASE run'[s] = run[s]
      <3>1. run[s] \in Req /\ pc[run[s]] \in {"posted", "done"}
        BY <2>2 DEF QueueInv, Types
      <3>2. CASE run[s] = h.by
        BY <1>3, <2>2, <3>1, <3>2 DEF Waits, SlotTask, h
      <3>3. CASE run[s] # h.by
        BY <2>2, <3>1, <3>3 DEF h
      <3>. QED  BY <3>2, <3>3
    <2>. QED  BY <2>1, <2>2 DEF h
  <1>. QED  BY <1>1, <1>6, <1>7, <1>8, <1>9 DEF QueueInv

\* The head goes to the end of the deferred tasks.
LEMMA DeferKeepsQueue ==
    ASSUME Types, QueueInv, queue # <<>>, defer, UNCHANGED <<claims, pc, target, run>>
    PROVE  QueueInv' /\ queue' \in Seq(Tasks) /\ deferred' \in Seq(Tasks)
  <1>. DEFINE h == Head(queue)
              x == [h EXCEPT !.woken = FALSE]
  <1>1. /\ queue' \in Seq(Tasks) /\ h = queue[1] /\ h \in Tasks /\ 1 \in DOMAIN queue
        /\ \A i \in DOMAIN queue' : i \in Nat /\ i + 1 \in DOMAIN queue /\ i + 1 # 1 /\ queue'[i] = queue[i + 1]
    BY TailFacts DEF Types, defer, Take
  <1>2. /\ x \in Tasks /\ x.kind = h.kind /\ x.by = h.by /\ x.slot = h.slot /\ x.key = h.key
    BY <1>1 DEF Tasks
  <1>3. deferred' = Append(deferred, x)
    BY DEF defer
  <1>. HIDE DEF h, x
  <1>4. /\ deferred' \in Seq(Tasks)
        /\ \A i \in DOMAIN deferred' : \/ i \in DOMAIN deferred /\ deferred'[i] = deferred[i]
                                       \/ i = Len(deferred) + 1 /\ deferred'[i] = x
    BY <1>2, <1>3, AppendFacts DEF Types
  <1>5. SlotTask(x) = SlotTask(h) /\ Waits(x)
    BY <1>1, <1>2 DEF QueueInv, Lined, SlotTask, Waits
  <1>6. SlotTask(h) => Without(deferred) /\ \A i \in DOMAIN queue : i # 1 => ~ SlotTask(queue[i])
    BY <1>1 DEF QueueInv, Unique, Without
  <1>7. Lined(queue)' /\ Lined(deferred)'
    BY <1>1, <1>4, <1>5 DEF QueueInv, Lined, Waits, SlotTask
  <1>8. Unique(queue)' /\ Unique(deferred)' /\ (Without(queue) \/ Without(deferred))'
    <2>1. CASE SlotTask(h)
      BY <1>1, <1>4, <1>5, <1>6, <2>1 DEF Unique, Without, SlotTask
    <2>2. CASE ~ SlotTask(h)
      BY <1>1, <1>4, <1>5, <2>2 DEF QueueInv, Unique, Without, SlotTask
    <2>. QED  BY <2>1, <2>2
  <1>. QED  BY <1>1, <1>4, <1>7, <1>8 DEF QueueInv

\* One deferred task goes to the front of the queue.
LEMMA PopKeepsQueue ==
    ASSUME Types, QueueInv, NEW s \in Slot, pop_deferred_task(s),
           \A t \in Tasks : Waits(t) => Waits(t)',
           \A u \in Slot : run'[u] # None => pc'[run'[u]] \in {"posted", "done"}
    PROVE  QueueInv' /\ queue' \in Seq(Tasks) /\ deferred' \in Seq(Tasks)
  <1>0. (\A i \in DOMAIN queue : queue[i] \in Tasks) /\ (\A i \in DOMAIN deferred : deferred[i] \in Tasks)
    BY DEF Types
  <1>1. CASE UNCHANGED <<queue, deferred>>
    BY <1>0, <1>1 DEF QueueInv, Lined, Unique, Without, SlotTask, Types
  <1>2. CASE ~ UNCHANGED <<queue, deferred>>
    <2>1. PICK n \in DOMAIN deferred :
             /\ queue' = <<[deferred[n] EXCEPT !.woken = TRUE]>> \o queue
             /\ deferred' = RemoveAt(deferred, n)
      <3>1. deferred # <<>> => 1 \in DOMAIN deferred
        BY DEF Types
      <3>2. Named(s) \subseteq DOMAIN deferred
        BY DEF Named
      <3>. QED  BY <1>2, <3>1, <3>2 DEF pop_deferred_task, WakeUp
    <2>. DEFINE h == deferred[n]
                x == [h EXCEPT !.woken = TRUE]
    <2>2. h \in Tasks /\ x \in Tasks /\ x.kind = h.kind /\ x.by = h.by /\ x.slot = h.slot /\ x.key = h.key
      <3>1. deferred[n] \in Tasks
        BY <2>1 DEF Types
      <3>. QED  BY <3>1 DEF Tasks
    <2>3. queue' = <<x>> \o queue /\ h = deferred[n]
      BY <2>1
    <2>. HIDE DEF h, x
    <2>4. /\ queue' \in Seq(Tasks)
          /\ \A i \in DOMAIN queue' : \/ i = 1 /\ queue'[i] = x
                                      \/ i \in Nat /\ i - 1 \in DOMAIN queue /\ queue'[i] = queue[i - 1]
      BY <2>2, <2>3, ConsFacts DEF Types
    <2>5. /\ deferred' \in Seq(Tasks)
          /\ \A i \in DOMAIN deferred' :
                i \in Nat /\ \/ i < n /\ i \in DOMAIN deferred /\ deferred'[i] = deferred[i]
                             \/ i >= n /\ i + 1 \in DOMAIN deferred /\ deferred'[i] = deferred[i + 1]
      BY <2>1, RemoveFacts DEF Types
    <2>6. SlotTask(x) = SlotTask(h) /\ Waits(x)
      BY <2>2, <2>3 DEF QueueInv, Lined, SlotTask, Waits
    <2>7. SlotTask(h) => Without(queue) /\ \A i \in DOMAIN deferred : i # n => ~ SlotTask(deferred[i])
      BY <2>1, <2>3 DEF QueueInv, Unique, Without
    <2>8. Lined(queue)' /\ Lined(deferred)'
      <3>1. \A i \in DOMAIN queue' : queue'[i] \in Tasks /\ Waits(queue'[i])
        BY <1>0, <2>2, <2>4, <2>6 DEF QueueInv, Lined
      <3>2. \A i \in DOMAIN deferred' : deferred'[i] \in Tasks /\ Waits(deferred'[i])
        BY <1>0, <2>5 DEF QueueInv, Lined
      <3>. QED  BY <3>1, <3>2 DEF Lined
    <2>9. n \in Nat
      BY <2>1 DEF Types
    <2>10. Unique(queue)' /\ Unique(deferred)' /\ (Without(queue) \/ Without(deferred))'
      <3>1. CASE SlotTask(h)
        <4>1. Without(deferred)'
          BY <2>5, <2>7, <2>9, <3>1 DEF Without, SlotTask
        <4>2. \A i \in DOMAIN queue' : i # 1 => ~ SlotTask(queue'[i])
          BY <2>4, <2>7, <3>1 DEF Without
        <4>. QED  BY <4>1, <4>2 DEF Unique, Without, SlotTask
      <3>2. CASE ~ SlotTask(h)
        <4>1. Unique(queue)' /\ (Without(queue) => Without(queue)')
          BY <2>4, <2>6, <3>2 DEF QueueInv, Unique, Without, SlotTask
        <4>2. Unique(deferred)'
          BY <2>5, <2>9 DEF QueueInv, Unique, SlotTask
        <4>3. Without(deferred) => Without(deferred)'
          BY <2>5 DEF Without, SlotTask
        <4>. QED  BY <4>1, <4>2, <4>3 DEF QueueInv
      <3>. QED  BY <3>1, <3>2
    <2>. QED  BY <2>4, <2>5, <2>8, <2>10 DEF QueueInv
  <1>. QED  BY <1>1, <1>2

-----------------------------------------------------------------------------
(* The steps of the router *)

\* What the holder of the mutex, or a thread that gets it, may do to the tables.
LEMMA ClaimStep ==
    ASSUME RouterInv, NEW r \in Req, NEW s \in Slot, Claim(r, s), UNCHANGED <<deferred, run, files, broken>>,
           lock \in {None, r}, pc[r] \notin {"posted", "done", "SAVE", "RESTORE"},
           \/ claims[s] = None /\ resident[KeyOf[r]] = None
           \/ resident[KeyOf[r]] = s
    PROVE  RouterInv'
  <1>1. /\ KeyOf[r] \in Key /\ None \notin Slot \cup Key \cup Req
    BY RouterAssumption
  <1>2. /\ known' = known \cup {KeyOf[r]} /\ resident' = [resident EXCEPT ![KeyOf[r]] = s]
        /\ claims' = [claims EXCEPT ![s] = KeyOf[r]]
        /\ pc' = [pc EXCEPT ![r] = "routed"] /\ target' = [target EXCEPT ![r] = s]
        /\ lock' = None /\ queue' = queue
    BY DEF Claim, Thread
  <1>3. Agree'
    BY <1>1, <1>2 DEF RouterInv, Agree, Types
  <1>4. EvictedIsSaved' /\ ResidentKnown'
    BY <1>1, <1>2 DEF RouterInv, EvictedIsSaved, ResidentKnown, Types
  <1>5. Locked' /\ Holding'
    BY <1>1, <1>2 DEF RouterInv, Types, Locked, Holding, Critical
  <1>6. NoSlotTask
    BY <1>1, HolderAlone DEF RouterInv
  <1>7. QueueInv' /\ queue' \in Seq(Tasks)
    BY <1>2, <1>6, ThreadKeepsQueue DEF RouterInv, Types
  <1>8. Types'
    BY <1>1, <1>2, <1>7 DEF RouterInv, Types, Critical
  <1>. QED  BY <1>3, <1>4, <1>5, <1>7, <1>8 DEF RouterInv

LEMMA NoSlotStep ==
    ASSUME RouterInv, NEW r \in Req, NoSlotFor(r), UNCHANGED <<deferred, run, files, broken>>,
           lock \in {None, r}, pc[r] \notin {"posted", "done", "SAVE", "RESTORE"},
           resident[KeyOf[r]] = None
    PROVE  RouterInv'
  <1>1. None \notin Slot \cup Key \cup Req
    BY RouterAssumption
  <1>2. /\ UNCHANGED <<known, resident, claims, queue>>
        /\ target' = [target EXCEPT ![r] = None]
        /\ \/ pc' = [pc EXCEPT ![r] = "again"] /\ lock' = r
           \/ pc' = [pc EXCEPT ![r] = "routed"] /\ lock' = None
    BY DEF NoSlotFor, Thread
  <1>3. Agree' /\ EvictedIsSaved' /\ ResidentKnown'
    BY <1>2 DEF RouterInv, Agree, EvictedIsSaved, ResidentKnown
  <1>4. Locked' /\ Holding'
    BY <1>1, <1>2 DEF RouterInv, Types, Locked, Holding, Critical
  <1>5. QueueInv' /\ queue' \in Seq(Tasks)
    BY <1>2, ThreadKeepsQueue DEF RouterInv, Types
  <1>6. Types'
    BY <1>1, <1>2, <1>5 DEF RouterInv, Types, Critical
  <1>. QED  BY <1>3, <1>4, <1>5, <1>6 DEF RouterInv

LEMMA AskStep ==
    ASSUME RouterInv, NEW r \in Req, NEW kind \in {"SAVE", "RESTORE"}, NEW s \in Slot, NEW k \in Key \cup {None},
           Ask(r, kind, s, k), UNCHANGED <<deferred, run, files, broken>>,
           lock \in {None, r}, pc[r] \notin {"posted", "done", "SAVE", "RESTORE"},
           resident[KeyOf[r]] = None,
           kind = "SAVE" => claims[s] # None /\ k = claims[s],
           kind = "RESTORE" => claims[s] = None
    PROVE  RouterInv'
  <1>1. None \notin Slot \cup Key \cup Req
    BY RouterAssumption
  <1>2. /\ UNCHANGED <<known, resident, claims>>
        /\ target' = [target EXCEPT ![r] = s] /\ pc' = [pc EXCEPT ![r] = kind] /\ lock' = r
        /\ queue' = Append(queue, Task(kind, s, r, k))
    BY DEF Ask, Thread
  <1>3. Agree' /\ EvictedIsSaved' /\ ResidentKnown'
    BY <1>2 DEF RouterInv, Agree, EvictedIsSaved, ResidentKnown
  <1>4. Locked' /\ Holding'
    BY <1>1, <1>2 DEF RouterInv, Types, Locked, Holding, Critical
  <1>5. NoSlotTask
    BY <1>1, HolderAlone DEF RouterInv
  <1>6. Task(kind, s, r, k) \in Tasks
    BY DEF Task, Tasks
  <1>7. Waits(Task(kind, s, r, k))'
    BY <1>2 DEF Waits, SlotTask, Task, RouterInv, Types
  <1>8. QueueInv' /\ queue' \in Seq(Tasks)
    BY <1>2, <1>5, <1>6, <1>7, ThreadKeepsQueue DEF RouterInv, Types
  <1>9. Types'
    BY <1>1, <1>2, <1>8 DEF RouterInv, Types, Critical
  <1>. QED  BY <1>3, <1>4, <1>8, <1>9 DEF RouterInv

LEMMA PickStep ==
    ASSUME RouterInv, NEW r \in Req, pick_victim(r), UNCHANGED <<deferred, run, files, broken>>,
           lock \in {None, r}, pc[r] \notin {"posted", "done", "SAVE", "RESTORE"},
           resident[KeyOf[r]] = None
    PROVE  RouterInv'
  <1>1. ASSUME NEW s \in Unclaimed, UseSlot(r, s)  PROVE RouterInv'
    <2>1. s \in Slot /\ claims[s] = None /\ KeyOf[r] \in Key
      BY RouterAssumption DEF Unclaimed
    <2>2. CASE Claim(r, s)
      BY <2>1, <2>2, ClaimStep
    <2>3. CASE Ask(r, "RESTORE", s, KeyOf[r])
      BY <2>1, <2>3, AskStep
    <2>. QED  BY <1>1, <2>2, <2>3 DEF UseSlot
  <1>2. CASE NoSlotFor(r)
    BY <1>2, NoSlotStep
  <1>3. ASSUME Unclaimed = {}, NEW s \in Slot \ Busy, Ask(r, "SAVE", s, claims[s])  PROVE RouterInv'
    <2>1. claims[s] \in Key \cup {None} /\ claims[s] # None
      BY <1>3 DEF Unclaimed, RouterInv, Types
    <2>. QED  BY <1>3, <2>1, AskStep
  <1>. QED  BY <1>1, <1>2, <1>3 DEF pick_victim

LEMMA RouteSessionStep ==
    ASSUME RouterInv, NEW r \in Req, route_session(r)
    PROVE  RouterInv'
  <1>1. pc[r] = "new" /\ lock = None /\ UNCHANGED <<deferred, run, files, broken>>
    BY DEF route_session, slots
  <1>2. KeyOf[r] \in Key /\ None \notin Slot
    BY RouterAssumption
  <1>3. CASE KeyOf[r] \in known /\ resident[KeyOf[r]] # None
    <2>1. resident[KeyOf[r]] \in Slot /\ Claim(r, resident[KeyOf[r]])
      BY <1>2, <1>3 DEF route_session, RouterInv, Types
    <2>. QED  BY <1>1, <2>1, ClaimStep
  <1>4. CASE ~ (KeyOf[r] \in known /\ resident[KeyOf[r]] # None)
    <2>1. pick_victim(r)
      BY <1>4 DEF route_session
    <2>2. resident[KeyOf[r]] = None
      BY <1>2, <1>4 DEF RouterInv, ResidentKnown
    <2>. QED  BY <1>1, <2>1, <2>2, PickStep
  <1>. QED  BY <1>3, <1>4

\* The victim loses its slot, whole file in place, before the slot is used.
LEMMA SavedStep ==
    ASSUME RouterInv, NEW r \in Req, Saved(r)
    PROVE  RouterInv'
  <1>1. /\ KeyOf[r] \in Key /\ None \notin Slot \cup Key \cup Req
    BY RouterAssumption
  <1>2. PICK s \in Slot, k \in Key :
           /\ s = target[r] /\ k = claims[s] /\ k \in files \ broken
           /\ pc[r] = "saved" /\ lock = r
           /\ resident[KeyOf[r]] = None /\ resident[k] = s /\ k # KeyOf[r]
    BY <1>1 DEF Saved, RouterInv, Types, Locked, Holding, Critical, Agree
  <1>3. /\ UNCHANGED <<known, lock, deferred, run, files, broken>>
        /\ resident' = [resident EXCEPT ![k] = None] /\ claims' = [claims EXCEPT ![s] = None]
        /\ target' = [target EXCEPT ![r] = s]
        /\ \/ pc' = [pc EXCEPT ![r] = "claim"] /\ queue' = queue
           \/ pc' = [pc EXCEPT ![r] = "RESTORE"] /\ queue' = Append(queue, Task("RESTORE", s, r, KeyOf[r]))
    BY <1>2 DEF Saved, Evict, Thread, slots
  <1>4. \A j \in Key : resident[j] = s <=> j = k
    BY <1>1, <1>2 DEF RouterInv, Agree
  <1>5. Agree'
    BY <1>1, <1>2, <1>3, <1>4 DEF RouterInv, Agree, Types
  <1>6. EvictedIsSaved' /\ ResidentKnown'
    BY <1>1, <1>2, <1>3 DEF RouterInv, EvictedIsSaved, ResidentKnown, Types
  <1>7. Locked' /\ Holding'
    BY <1>1, <1>2, <1>3 DEF RouterInv, Types, Locked, Holding, Critical
  <1>8. NoSlotTask
    BY <1>2, HolderAlone DEF RouterInv
  <1>9. QueueInv' /\ queue' \in Seq(Tasks)
    <2>1. Task("RESTORE", s, r, KeyOf[r]) \in Tasks
      BY <1>1, <1>2 DEF Task, Tasks
    <2>2. \A q \in Req \ {r} : pc'[q] = pc[q] /\ target'[q] = target[q]
      BY <1>3 DEF RouterInv, Types
    <2>3. CASE queue' = queue
      BY <1>2, <1>3, <1>8, <2>2, <2>3, ThreadKeepsQueue DEF RouterInv
    <2>4. CASE /\ pc' = [pc EXCEPT ![r] = "RESTORE"]
               /\ queue' = Append(queue, Task("RESTORE", s, r, KeyOf[r]))
      <3>1. Waits(Task("RESTORE", s, r, KeyOf[r]))'
        BY <1>2, <1>3, <2>4 DEF Waits, SlotTask, Task, RouterInv, Types
      <3>. QED  BY <1>2, <1>3, <1>8, <2>1, <2>2, <2>4, <3>1, ThreadKeepsQueue DEF RouterInv
    <2>. QED  BY <1>3, <2>3, <2>4
  <1>10. Types'
    BY <1>1, <1>2, <1>3, <1>9 DEF RouterInv, Types, Critical
  <1>. QED  BY <1>5, <1>6, <1>7, <1>9, <1>10 DEF RouterInv

\* Before and after the router the tables are left alone.
LEMMA OutsideStep ==
    ASSUME RouterInv, NEW r \in Req, NoSession(r) \/ PostCompletion(r)
    PROVE  RouterInv'
  <1>1. None \notin Slot \cup Key \cup Req
    BY RouterAssumption
  <1>0. PICK s \in Slot \cup {None} : s = target[r]
    BY DEF RouterInv, Types
  <1>2. /\ UNCHANGED <<known, resident, claims, lock, deferred, run, files, broken>>
        /\ pc[r] \in {"new", "routed"} /\ target' \in {[target EXCEPT ![r] = None], target}
        /\ \/ pc' = [pc EXCEPT ![r] = "routed"] /\ queue' = queue
           \/ /\ pc' = [pc EXCEPT ![r] = "posted"]
              /\ queue' = Append(queue, Task("COMPLETION", s, r, None))
    BY <1>0 DEF NoSession, PostCompletion, Thread, router, slots, RouterInv, Types
  <1>3. Agree' /\ EvictedIsSaved' /\ ResidentKnown'
    BY <1>2 DEF RouterInv, Agree, EvictedIsSaved, ResidentKnown
  <1>4. Locked' /\ Holding'
    BY <1>1, <1>2 DEF RouterInv, Types, Locked, Holding, Critical
  <1>5. QueueInv' /\ queue' \in Seq(Tasks)
    <2>1. Task("COMPLETION", s, r, None) \in Tasks /\ ~ SlotTask(Task("COMPLETION", s, r, None))
      BY DEF Task, Tasks, SlotTask, RouterInv, Types
    <2>2. \A q \in Req \ {r} : pc'[q] = pc[q] /\ target'[q] = target[q]
      BY <1>2 DEF RouterInv, Types
    <2>3. CASE queue' = queue
      BY <1>2, <2>2, <2>3, ThreadKeepsQueue DEF RouterInv
    <2>4. CASE /\ pc' = [pc EXCEPT ![r] = "posted"]
               /\ queue' = Append(queue, Task("COMPLETION", s, r, None))
      <3>1. Waits(Task("COMPLETION", s, r, None))'
        BY <2>4 DEF Waits, SlotTask, Task, RouterInv, Types
      <3>. QED  BY <1>2, <2>1, <2>2, <2>4, <3>1, ThreadKeepsQueue DEF RouterInv
    <2>. QED  BY <1>2, <2>3, <2>4
  <1>6. Types'
    BY <1>1, <1>2, <1>5 DEF RouterInv, Types, Critical
  <1>. QED  BY <1>3, <1>4, <1>5, <1>6 DEF RouterInv

LEMMA RouteKeepsInv ==
    ASSUME RouterInv, NEW r \in Req, Arrive(r) \/ Route(r)
    PROVE  RouterInv'
  <1>1. pc[r] \in Critical => lock = r /\ resident[KeyOf[r]] = None
    BY DEF RouterInv, Locked, Holding
  <1>2. CASE RouteAgain(r)
    BY <1>1, <1>2, PickStep DEF RouteAgain, Critical, slots
  <1>3. CASE SaveFailed(r) \/ RestoreFailed(r)
    BY <1>1, <1>3, NoSlotStep DEF SaveFailed, RestoreFailed, Critical, slots
  <1>4. CASE ClaimSlot(r)
    <2>1. target[r] \in Slot /\ claims[target[r]] = None
      BY <1>4 DEF ClaimSlot, RouterInv, Holding, Critical
    <2>. QED  BY <1>1, <1>4, <2>1, ClaimStep DEF ClaimSlot, Critical, slots
  <1>. QED  BY <1>2, <1>3, <1>4, RouteSessionStep, SavedStep, OutsideStep DEF Arrive, Route

-----------------------------------------------------------------------------
(* The steps of the engine *)

\* It takes a task whose thread waits for it, and nobody else's state changes.
LEMMA HeadFacts ==
    ASSUME Types, QueueInv, queue # <<>>
    PROVE  /\ Head(queue) \in Tasks /\ Waits(Head(queue)) /\ Head(queue).by \in Req
           /\ Head(queue).kind \in {"SAVE", "RESTORE", "COMPLETION"}
  <1>1. Head(queue) = queue[1] /\ queue[1] \in Tasks /\ 1 \in DOMAIN queue
    BY TailFacts DEF Types
  <1>. QED  BY <1>1 DEF QueueInv, Lined, Tasks

LEMMA DeferStep ==
    ASSUME RouterInv, DeferTask
    PROVE  RouterInv'
  <1>1. queue # <<>> /\ defer /\ UNCHANGED <<known, resident, claims, lock, pc, target, run, files, broken>>
    BY DEF DeferTask, router, threads, slots
  <1>2. QueueInv' /\ queue' \in Seq(Tasks) /\ deferred' \in Seq(Tasks)
    BY <1>1, DeferKeepsQueue DEF RouterInv
  <1>. QED
    BY <1>1, <1>2 DEF RouterInv, Types, Agree, ResidentKnown, EvictedIsSaved, Locked, Holding

\* A completion is launched or dropped: the router is not concerned.
LEMMA LaunchStep ==
    ASSUME RouterInv, Launch \/ LaunchFails
    PROVE  RouterInv'
  <1>. DEFINE h == Head(queue)
  <1>1. /\ queue # <<>> /\ h.kind = "COMPLETION" /\ Take
        /\ UNCHANGED <<known, resident, claims, lock, deferred, files, broken>>
    BY DEF Launch, LaunchFails, Taking, EndWithoutRelease, router, slots
  <1>2. h \in Tasks /\ h.by \in Req /\ pc[h.by] \in {"posted", "done"}
    BY <1>1, HeadFacts DEF RouterInv, Waits, SlotTask
  <1>3. \/ /\ UNCHANGED <<pc, target>>
           /\ \E s \in Slot : run' = [run EXCEPT ![s] = h.by]
        \/ /\ pc' = [pc EXCEPT ![h.by] = "done"] /\ target' = [target EXCEPT ![h.by] = None]
           /\ run' = run
    <2>1. CASE Launch
      <3>1. PICK s \in (IF h.slot = None THEN Slot ELSE {h.slot}) \ Busy : run' = [run EXCEPT ![s] = h.by]
        BY <2>1 DEF Launch
      <3>2. s \in Slot
        BY <1>2, <3>1 DEF Tasks
      <3>. QED  BY <2>1, <3>1, <3>2 DEF Launch, threads
    <2>2. CASE LaunchFails
      BY <2>2 DEF LaunchFails, Thread, slots
    <2>. QED  BY <2>1, <2>2
  <1>. HIDE DEF h
  <1>4. /\ \A q \in Req \ {h.by} : pc'[q] = pc[q] /\ target'[q] = target[q]
        /\ pc'[h.by] \in {"posted", "done"}
        /\ \A s \in Slot : run'[s] = run[s] \/ run'[s] = h.by
        /\ run' \in [Slot -> Req \cup {None}]
    BY <1>2, <1>3 DEF RouterInv, Types
  <1>5. QueueInv' /\ queue' \in Seq(Tasks)
    BY <1>1, <1>4, TakeKeepsQueue DEF RouterInv, SlotTask, h
  <1>6. Types'
    BY <1>1, <1>2, <1>3, <1>4, <1>5 DEF RouterInv, Types
  <1>7. Agree' /\ ResidentKnown' /\ EvictedIsSaved'
    BY <1>1 DEF RouterInv, Agree, ResidentKnown, EvictedIsSaved
  <1>8. Locked' /\ Holding'
    BY <1>1, <1>2, <1>3, <1>4 DEF RouterInv, Types, Locked, Holding, Critical
  <1>. QED  BY <1>5, <1>6, <1>7, <1>8 DEF RouterInv

\* A slot is saved for its router thread; only the file of the victim, which has
\* its slot still, is touched.
LEMMA SaveStep ==
    ASSUME RouterInv, SaveSlot
    PROVE  RouterInv'
  <1>. DEFINE h == Head(queue)
  <1>1. None \notin Slot \cup Key \cup Req
    BY RouterAssumption
  <1>2. /\ queue # <<>> /\ h.kind = "SAVE" /\ Take
        /\ UNCHANGED <<known, resident, claims, lock, deferred, run>>
        /\ files' = files \cup {h.key} /\ target' = [target EXCEPT ![h.by] = h.slot]
        /\ \/ pc' = [pc EXCEPT ![h.by] = "saved"] /\ broken' = broken \ {h.key}
           \/ pc' = [pc EXCEPT ![h.by] = "unsaved"] /\ broken' = broken \cup {h.key}
    BY DEF SaveSlot, Taking, Thread, EndWithoutRelease, router
  <1>3. /\ h.by \in Req /\ pc[h.by] = "SAVE" /\ h.slot \in Slot /\ target[h.by] = h.slot
        /\ h.key = claims[h.slot]
    BY <1>2, HeadFacts DEF RouterInv, Waits, SlotTask
  <1>. HIDE DEF h
  <1>4. /\ lock = h.by /\ claims[h.slot] \in Key /\ resident[h.key] = h.slot
        /\ resident[KeyOf[h.by]] = None
    BY <1>1, <1>3 DEF RouterInv, Types, Locked, Holding, Critical, Agree
  <1>5. QueueInv' /\ queue' \in Seq(Tasks)
    <2>1. \A q \in Req \ {h.by} : pc'[q] = pc[q] /\ target'[q] = target[q]
      BY <1>2, <1>3 DEF RouterInv, Types
    <2>. QED  BY <1>2, <2>1, TakeKeepsQueue DEF RouterInv, SlotTask, h
  <1>6. Types'
    BY <1>2, <1>3, <1>5 DEF RouterInv, Types, Critical
  <1>7. Agree' /\ ResidentKnown'
    BY <1>2 DEF RouterInv, Agree, ResidentKnown
  <1>8. EvictedIsSaved'
    BY <1>1, <1>2, <1>3, <1>4 DEF RouterInv, EvictedIsSaved
  <1>9. Locked' /\ Holding'
    BY <1>1, <1>2, <1>3, <1>4 DEF RouterInv, Types, Locked, Holding, Critical
  <1>. QED  BY <1>5, <1>6, <1>7, <1>8, <1>9 DEF RouterInv

LEMMA RestoreStep ==
    ASSUME RouterInv, RestoreSlot
    PROVE  RouterInv'
  <1>. DEFINE h == Head(queue)
  <1>1. None \notin Slot \cup Key \cup Req
    BY RouterAssumption
  <1>2. /\ queue # <<>> /\ h.kind = "RESTORE" /\ Take
        /\ UNCHANGED <<known, resident, claims, lock, deferred, run, files, broken>>
        /\ target' = [target EXCEPT ![h.by] = h.slot]
        /\ pc' \in {[pc EXCEPT ![h.by] = "restored"], [pc EXCEPT ![h.by] = "unrestored"]}
    BY DEF RestoreSlot, Taking, Thread, EndWithoutRelease, router, slots
  <1>3. h.by \in Req /\ pc[h.by] = "RESTORE" /\ h.slot \in Slot /\ target[h.by] = h.slot
    BY <1>2, HeadFacts DEF RouterInv, Waits, SlotTask
  <1>. HIDE DEF h
  <1>4. lock = h.by /\ claims[h.slot] = None /\ resident[KeyOf[h.by]] = None
    BY <1>3 DEF RouterInv, Types, Locked, Holding, Critical
  <1>5. QueueInv' /\ queue' \in Seq(Tasks)
    <2>1. \A q \in Req \ {h.by} : pc'[q] = pc[q] /\ target'[q] = target[q]
      BY <1>2, <1>3 DEF RouterInv, Types
    <2>. QED  BY <1>2, <2>1, TakeKeepsQueue DEF RouterInv, SlotTask, h
  <1>6. Types'
    BY <1>2, <1>3, <1>5 DEF RouterInv, Types, Critical
  <1>7. Agree' /\ ResidentKnown' /\ EvictedIsSaved'
    BY <1>2 DEF RouterInv, Agree, ResidentKnown, EvictedIsSaved
  <1>8. Locked' /\ Holding'
    BY <1>1, <1>2, <1>3, <1>4 DEF RouterInv, Types, Locked, Holding, Critical
  <1>. QED  BY <1>5, <1>6, <1>7, <1>8 DEF RouterInv

\* A generation ends; its thread is past the router.
LEMMA ReleaseStep ==
    ASSUME RouterInv, NEW s \in Slot, Release(s)
    PROVE  RouterInv'
  <1>1. PICK r \in Req : r = run[s] /\ pc[r] \in {"posted", "done"}
    BY DEF Release, Busy, RouterInv, Types, QueueInv
  <1>2. /\ UNCHANGED <<known, resident, claims, lock, files, broken>>
        /\ pc' = [pc EXCEPT ![r] = "done"] /\ target' = [target EXCEPT ![r] = None]
        /\ run' = [run EXCEPT ![s] = None] /\ pop_deferred_task(s)
    BY <1>1 DEF Release, Thread, router
  <1>3. ASSUME NEW t \in Tasks, Waits(t)  PROVE Waits(t)'
    <2>1. t.by \in Req /\ t.kind \in {"SAVE", "RESTORE", "COMPLETION"}
      BY DEF Tasks
    <2>2. CASE t.by = r
      BY <1>1, <1>2, <1>3, <2>1, <2>2 DEF Waits, SlotTask, RouterInv, Types
    <2>3. CASE t.by # r
      BY <1>2, <1>3, <2>1, <2>3, WaitsStays DEF RouterInv, Types
    <2>. QED  BY <2>2, <2>3
  <1>4. \A u \in Slot : run'[u] # None => pc'[run'[u]] \in {"posted", "done"}
    BY <1>1, <1>2 DEF RouterInv, Types, QueueInv
  <1>5. QueueInv' /\ queue' \in Seq(Tasks) /\ deferred' \in Seq(Tasks)
    BY <1>2, <1>3, <1>4, PopKeepsQueue DEF RouterInv
  <1>6. Types'
    BY <1>1, <1>2, <1>5 DEF RouterInv, Types
  <1>7. Agree' /\ ResidentKnown' /\ EvictedIsSaved'
    BY <1>2 DEF RouterInv, Agree, ResidentKnown, EvictedIsSaved
  <1>8. Locked' /\ Holding'
    BY <1>1, <1>2 DEF RouterInv, Types, Locked, Holding, Critical
  <1>. QED  BY <1>5, <1>6, <1>7, <1>8 DEF RouterInv

LEMMA RouterInvInit == Init => RouterInv
  <1>. SUFFICES ASSUME Init  PROVE RouterInv
    OBVIOUS
  <1>1. None \notin Slot \cup Key \cup Req
    BY RouterAssumption
  <1>2. Types
    BY DEF Init, Types
  <1>3. QueueInv
    BY DEF Init, QueueInv, Lined, Unique, Without
  <1>. QED
    BY <1>1, <1>2, <1>3
    DEF Init, RouterInv, Agree, ResidentKnown, EvictedIsSaved, Locked, Holding, Critical

LEMMA RouterInvStep == RouterInv /\ [Next]_vars => RouterInv'
  <1>. SUFFICES ASSUME RouterInv, [Next]_vars  PROVE RouterInv'
    OBVIOUS
  <1>1. CASE UNCHANGED vars
    <2>1. /\ UNCHANGED <<known, resident, claims, lock, pc, target, queue, deferred, run, files, broken>>
      BY <1>1 DEF vars, router, threads, slots
    <2>2. Types' /\ Agree' /\ ResidentKnown' /\ EvictedIsSaved' /\ Locked' /\ Holding'
      BY <2>1 DEF RouterInv, Types, Agree, ResidentKnown, EvictedIsSaved, Locked, Holding
    <2>3. QueueInv'
      BY <2>1 DEF RouterInv, QueueInv, Lined, Unique, Without, Waits, SlotTask
    <2>. QED  BY <2>2, <2>3 DEF RouterInv
  <1>2. CASE Engine
    BY <1>2, DeferStep, LaunchStep, SaveStep, RestoreStep, ReleaseStep DEF Engine
  <1>3. CASE \E r \in Req : Arrive(r) \/ Route(r)
    BY <1>3, RouteKeepsInv
  <1>. QED  BY <1>1, <1>2, <1>3 DEF Next

\* Spec implies ClaimsAgree: sessions and slot_sessions agree whenever the mutex is
\* free, so no two sessions are sent to one slot.
THEOREM RouterClaimsAgree == Spec => []ClaimsAgree
  <1>1. RouterInv => ClaimsAgree
    BY DEF RouterInv, Agree, ClaimsAgree
  <1>. QED  BY <1>1, RouterInvInit, RouterInvStep, PTL DEF Spec

\* Spec implies EvictedIsSaved: no eviction destroys the only copy of a session.
THEOREM RouterEvictedIsSaved == Spec => []EvictedIsSaved
  <1>1. RouterInv => EvictedIsSaved
    BY DEF RouterInv
  <1>. QED  BY <1>1, RouterInvInit, RouterInvStep, PTL DEF Spec
=============================================================================
