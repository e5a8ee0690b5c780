---------------------------- MODULE ServerProofs ----------------------------
(***************************************************************************)
(* Theorems about the engine server, for any number of requests, slots and *)
(* tokens: the hand-over of the queue to the worker, what a resize or a    *)
(* sleep leaves of the slots, and the ledger of the tasks: a client that   *)
(* waits has one copy of its task in the server or one answer.             *)
(***************************************************************************)
EXTENDS Server, FiniteSetTheorems, SequenceTheorems, WellFoundedInduction, TLAPS

-----------------------------------------------------------------------------
(* The hand-over to the worker *)

\* The strengthening of WorkerConfined: busy is raised by BeginYield only, and
\* the main thread leaves "join" only when the worker has lowered it.
HandOver == /\ wpc # "idle" => busy
            /\ busy => mpc \in {"decode", "join"}

\* The handlers run outside the hand-over and leave the worker alone.
LEMMA HandleKeepsHandOver ==
    ASSUME HandOver, Handle
    PROVE  HandOver'
  <1>1. /\ mpc = "handle" /\ mpc' \in {"process", "crashed"}
        /\ UNCHANGED <<busy, wpc>>
    BY DEF Handle, HandleWithoutContext, DeferNoSlot, DeferBusySlot, Launch, LaunchFails,
           HandleCancel, HandleSlotAction, HandleAtOnce, DeferResize, RejectResize, Resize,
           ResizeFails, Handled, InHand, wvars
  <1>. QED  BY <1>1 DEF HandOver

\* update_slots raises busy as it enters the decode and waits for it to fall.
LEMMA UpdateKeepsHandOver ==
    ASSUME HandOver, Update
    PROVE  HandOver'
  <1>1. CASE UpdateSlots
    BY <1>1 DEF HandOver, UpdateSlots, wvars
  <1>2. CASE PreSlot
    BY <1>2 DEF HandOver, PreSlot, Visit, wvars
  <1>3. CASE PreThrows
    BY <1>3 DEF HandOver, PreThrows, wvars
  <1>4. CASE BeginYield
    BY <1>4 DEF HandOver, BeginYield
  <1>5. CASE DecodeDone
    BY <1>5 DEF HandOver, DecodeDone
  <1>6. CASE Join
    BY <1>6 DEF HandOver, Join, wvars
  <1>7. CASE PostSlot
    BY <1>7 DEF HandOver, PostSlot, Visit, wvars
  <1>8. CASE abort_all_slots
    BY <1>8 DEF HandOver, abort_all_slots, Visit, wvars
  <1>9. CASE try_clear_idle_slots
    BY <1>9 DEF HandOver, try_clear_idle_slots, wvars
  <1>. QED  BY <1>1, <1>2, <1>3, <1>4, <1>5, <1>6, <1>7, <1>8, <1>9 DEF Update

\* The worker starts only when busy, and goes idle as it lowers busy.
LEMMA WorkerKeepsHandOver ==
    ASSUME HandOver, Worker
    PROVE  HandOver'
  <1>1. CASE WorkerStart
    BY <1>1 DEF HandOver, WorkerStart, WorkerVars, mvars
  <1>2. CASE WorkerPop
    BY <1>2 DEF HandOver, WorkerPop, WorkerVars, mvars
  <1>3. CASE WorkerHandle
    BY <1>3 DEF HandOver, WorkerHandle, WorkerVars, mvars
  <1>4. CASE WorkerCheck
    BY <1>4 DEF HandOver, WorkerCheck, WorkerVars, mvars
  <1>5. CASE WorkerWait
    BY <1>5 DEF HandOver, WorkerWait, WorkerVars, mvars
  <1>. QED  BY <1>1, <1>2, <1>3, <1>4, <1>5 DEF Worker

\* The HTTP threads touch neither the main loop, the worker nor the slots.
LEMMA ClientsLeaveThreads ==
    ASSUME NEW r \in Req, CheckAwake(r) \/ Client(r) \/ Disconnect(r)
    PROVE  UNCHANGED <<mvars, wvars, svars>>
  BY DEF CheckAwake, Client, Awakened, post_task, ReceiveOk, ReceiveError, stop, Disconnect

\* Every step keeps the hand-over.
LEMMA HandOverNext ==
    ASSUME HandOver, [Next]_vars
    PROVE  HandOver'
  <1>1. CASE Handle \/ Update \/ Worker
    BY <1>1, HandleKeepsHandOver, UpdateKeepsHandOver, WorkerKeepsHandOver
  <1>2. CASE MainPop \/ MainWait \/ WakeUp \/ FallAsleep
    BY <1>2 DEF HandOver, MainPop, MainWait, WakeUp, FallAsleep, wvars
  <1>3. CASE \E r \in Req : CheckAwake(r) \/ Client(r) \/ Disconnect(r)
    <2>1. UNCHANGED <<mvars, wvars, svars>>
      BY <1>3, ClientsLeaveThreads
    <2>. QED  BY <2>1 DEF HandOver, mvars, wvars
  <1>4. CASE UNCHANGED vars
    BY <1>4 DEF HandOver, vars, mvars, wvars
  <1>. QED  BY <1>1, <1>2, <1>3, <1>4 DEF Next, Main

\* The worker is awake only inside yield_to_queue (server-queue.cpp): for every
\* workload, the reads it answers see slots that nobody is changing.
THEOREM ServerWorkerConfined == Spec => []WorkerConfined
  <1>1. Init => HandOver
    BY DEF Init, HandOver
  <1>2. HandOver => WorkerConfined
    BY DEF HandOver, WorkerConfined
  <1>. QED  BY <1>1, <1>2, HandOverNext, PTL DEF Spec

\* While the decode runs outside the lock nothing of the slots changes: the main
\* thread is in the decode and the worker declines whatever would write.
THEOREM ServerDecodeUndisturbed == Spec => DecodeUndisturbed
  <1>1. [Next]_vars => [(mpc \in {"decode", "join"}) => svars' = svars]_vars
    <2>. SUFFICES ASSUME Next, mpc \in {"decode", "join"} PROVE svars' = svars
      OBVIOUS
    <2>1. ~ Handle
      BY DEF Handle, HandleWithoutContext, DeferNoSlot, DeferBusySlot, Launch, LaunchFails,
             HandleCancel, HandleSlotAction, HandleAtOnce, DeferResize, RejectResize, Resize,
             ResizeFails, InHand
    <2>2. CASE Update
      BY <2>2 DEF Update, UpdateSlots, PreSlot, PreThrows, BeginYield, DecodeDone, Join,
                  PostSlot, try_clear_idle_slots, abort_all_slots, Visit
    <2>3. CASE Worker
      BY <2>3 DEF Worker, WorkerStart, WorkerPop, WorkerHandle, WorkerCheck, WorkerWait
    <2>4. ~ (MainPop \/ MainWait \/ WakeUp \/ FallAsleep)
      BY DEF MainPop, MainWait, WakeUp, FallAsleep
    <2>5. CASE \E r \in Req : CheckAwake(r) \/ Client(r) \/ Disconnect(r)
      BY <2>5, ClientsLeaveThreads
    <2>. QED  BY <2>1, <2>2, <2>3, <2>4, <2>5 DEF Next, Main
  <1>. QED  BY <1>1, PTL DEF Spec, DecodeUndisturbed

-----------------------------------------------------------------------------
(* What a resize and a sleep leave of the slots *)

\* The prompts and the context pointers are kept per slot.
SlotTables == prompt = [s \in Slot |-> prompt[s]] /\ slotCtx = [s \in Slot |-> slotCtx[s]]

Bound == SlotTables /\ PromptInContext

\* A handler keeps the slots of the live context: what it writes is of the
\* present context, and a resize writes every slot.
LEMMA HandleKeepsBound ==
    ASSUME Bound, Handle
    PROVE  Bound'
  <1>. USE DEF Bound, SlotTables, PromptInContext
  <1>1. CASE UNCHANGED <<prompt, slotCtx, ctx>>
    BY <1>1
  <1>2. CASE DeferBusySlot \/ LaunchFails
    <2>1. ctx # 0 /\ UNCHANGED <<slotCtx, ctx>>
      BY <1>2 DEF DeferBusySlot, LaunchFails
    <2>2. PICK s : CacheUpdate(s)
      BY <1>2 DEF DeferBusySlot, LaunchFails
    <2>3. \/ prompt' = prompt
          \/ prompt' = [prompt EXCEPT ![s] = [of |-> mhand.id, ctx |-> ctx]]
          \/ prompt' = [prompt EXCEPT ![s] = NoPrompt]
      BY <2>2 DEF CacheUpdate
    <2>. QED  BY <2>1, <2>3
  <1>3. CASE Launch
    <2>1. PICK s \in IdleChoice :
             prompt' = [i \in Slot |->
                           IF i = s THEN [of |-> mhand.id, ctx |-> ctx]
                           ELSE IF ClearIdle /\ i \notin Busy THEN NoPrompt ELSE prompt[i]]
      BY <1>3 DEF Launch
    <2>2. UNCHANGED <<slotCtx, ctx>>
      BY <1>3 DEF Launch
    <2>. QED  BY <2>1, <2>2
  <1>4. CASE HandleSlotAction
    <2>. DEFINE s == ActsOn[mhand.id]
    <2>1. UNCHANGED <<slotCtx, ctx>>
      BY <1>4 DEF HandleSlotAction
    <2>2. \/ prompt' = prompt
          \/ prompt' = [prompt EXCEPT ![s] = prompt[s]]
          \/ prompt' = [prompt EXCEPT ![s] = [of |-> mhand.id, ctx |-> ctx]]
          \/ prompt' = [prompt EXCEPT ![s] = NoPrompt]
      BY <1>4 DEF HandleSlotAction
    <2>. QED  BY <2>1, <2>2
  <1>5. CASE Resize
    BY <1>5 DEF Resize
  <1>6. CASE ResizeFails
    BY <1>6 DEF ResizeFails
  <1>7. Handle => \/ DeferBusySlot \/ LaunchFails \/ Launch \/ HandleSlotAction
                  \/ Resize \/ ResizeFails
                  \/ UNCHANGED <<prompt, slotCtx, ctx>>
    BY DEF Handle, HandleWithoutContext, DeferNoSlot, HandleCancel, HandleAtOnce, DeferResize,
           RejectResize, svars
  <1>. QED  BY <1>1, <1>2, <1>3, <1>4, <1>5, <1>6, <1>7

\* update_slots and the worker leave contexts alone; of the prompts, a failed
\* or repeated decode clears one.
LEMMA ThreadsKeepContexts ==
    ASSUME Update \/ Worker \/ MainPop \/ MainWait
    PROVE  /\ UNCHANGED <<slotCtx, ctx>>
           /\ prompt' = prompt \/ \E s : prompt' = [prompt EXCEPT ![s] = NoPrompt]
  <1>1. CASE Update
    <2>1. CASE abort_all_slots
      BY <2>1 DEF abort_all_slots, svars
    <2>2. CASE try_clear_idle_slots
      BY <2>2 DEF try_clear_idle_slots
    <2>. QED
      BY <1>1, <2>1, <2>2 DEF Update, UpdateSlots, PreSlot, PreThrows, BeginYield, DecodeDone,
                  Join, PostSlot, Finish, svars
  <1>2. CASE Worker
    BY <1>2 DEF Worker, WorkerStart, WorkerPop, WorkerHandle, WorkerCheck, WorkerWait, svars
  <1>. QED  BY <1>1, <1>2 DEF MainPop, MainWait, svars

\* After any mix of resizes, failed ones included, sleeps, restores and launches,
\* a slot of a live context points to that context and holds no older prompt.
THEOREM ServerPromptInContext == Spec => []PromptInContext
  <1>1. Init => Bound
    BY DEF Init, Bound, SlotTables, PromptInContext
  <1>2. Bound /\ [Next]_vars => Bound'
    <2>. SUFFICES ASSUME Bound, [Next]_vars PROVE Bound'
      OBVIOUS
    <2>1. CASE Handle
      BY <2>1, HandleKeepsBound
    <2>2. CASE UNCHANGED <<prompt, slotCtx, ctx>>
      BY <2>2 DEF Bound, SlotTables, PromptInContext
    <2>3. CASE WakeUp
      BY <2>3 DEF WakeUp, Bound, SlotTables, PromptInContext
    <2>4. CASE FallAsleep
      BY <2>4 DEF FallAsleep, Bound, SlotTables, PromptInContext
    <2>5. CASE \E r \in Req : CheckAwake(r) \/ Client(r) \/ Disconnect(r)
      BY <2>2, <2>5, ClientsLeaveThreads DEF svars
    <2>6. CASE UNCHANGED vars
      BY <2>2, <2>6 DEF vars, svars
    <2>7. CASE Update \/ Worker \/ MainPop \/ MainWait
      <3>1. CASE \E s : prompt' = [prompt EXCEPT ![s] = NoPrompt]
        BY <2>7, <3>1, ThreadsKeepContexts DEF Bound, SlotTables, PromptInContext
      <3>. QED  BY <2>2, <2>7, <3>1, ThreadsKeepContexts
    <2>. QED  BY <2>1, <2>3, <2>4, <2>5, <2>6, <2>7 DEF Next, Main
  <1>3. Bound => PromptInContext
    BY DEF Bound
  <1>. QED  BY <1>1, <1>2, <1>3, PTL DEF Spec

\* How often a request's task is in a deque, or in a hand.
Count(q, r) == Cardinality(In(q, r))
Unit(t, r) == IF Here(t, r) THEN 1 ELSE 0

\* A deque holds a request finitely often.
LEMMA CountType ==
    ASSUME NEW T, NEW q \in Seq(T), NEW r
    PROVE  IsFiniteSet(In(q, r)) /\ Count(q, r) \in Nat
  <1>1. DOMAIN q = 1 .. Len(q) /\ Len(q) \in Nat
    OBVIOUS
  <1>2. IsFiniteSet(DOMAIN q)
    BY <1>1, FS_Interval
  <1>3. In(q, r) \in SUBSET DOMAIN q
    BY DEF In
  <1>4. IsFiniteSet(In(q, r))
    BY <1>2, <1>3, FS_Subset
  <1>. QED  BY <1>4, FS_CardinalityType DEF Count

\* Deques put together hold what both held.
LEMMA CountConcat ==
    ASSUME NEW T, NEW a \in Seq(T), NEW b \in Seq(T), NEW r
    PROVE  Count(a \o b, r) = Count(a, r) + Count(b, r)
  <1>. DEFINE A == In(a, r)
              B == In(b, r)
              C == {Len(a) + i : i \in B}
              f == [i \in B |-> Len(a) + i]
  <1>1. /\ IsFiniteSet(A) /\ IsFiniteSet(B)
        /\ Cardinality(A) \in Nat /\ Cardinality(B) \in Nat
    BY CountType DEF Count
  <1>2. /\ Len(a) \in Nat /\ Len(b) \in Nat
        /\ DOMAIN a = 1 .. Len(a) /\ DOMAIN b = 1 .. Len(b)
        /\ DOMAIN (a \o b) = 1 .. Len(a) + Len(b)
        /\ \A i \in 1 .. Len(a) : (a \o b)[i] = a[i]
        /\ \A i \in 1 .. Len(b) : (a \o b)[Len(a) + i] = b[i]
    BY ConcatProperties
  <1>3. A \subseteq 1 .. Len(a) /\ B \subseteq 1 .. Len(b)
    BY <1>2 DEF In
  <1>4. In(a \o b, r) = A \cup C
    <2>1. ASSUME NEW i \in In(a \o b, r)
          PROVE  i \in A \cup C
      <3>1. CASE i \in 1 .. Len(a)
        BY <1>2, <3>1 DEF In
      <3>2. CASE i \notin 1 .. Len(a)
        <4>1. i - Len(a) \in 1 .. Len(b) /\ i = Len(a) + (i - Len(a))
          BY <1>2, <3>2 DEF In
        <4>2. i - Len(a) \in B
          BY <1>2, <4>1 DEF In
        <4>. QED  BY <4>1, <4>2
      <3>. QED  BY <3>1, <3>2
    <2>2. ASSUME NEW i \in A
          PROVE  i \in In(a \o b, r)
      BY <1>2 DEF In
    <2>3. ASSUME NEW i \in B
          PROVE  Len(a) + i \in In(a \o b, r)
      BY <1>2 DEF In
    <2>. QED  BY <2>1, <2>2, <2>3
  <1>5. A \cap C = {}
    BY <1>2, <1>3
  <1>6. IsFiniteSet(C) /\ Cardinality(C) = Cardinality(B)
    <2>1. f \in Bijection(B, C)
      <3>1. f \in [B -> C] /\ \A c \in C : \E i \in B : f[i] = c
        OBVIOUS
      <3>2. \A i, j \in B : f[i] = f[j] => i = j
        BY <1>2, <1>3
      <3>. QED  BY <3>1, <3>2 DEF Bijection, Injection, Surjection, IsInjective
    <2>. HIDE DEF f, B, C
    <2>2. ExistsBijection(B, C)
      BY <2>1 DEF ExistsBijection
    <2>. QED  BY <1>1, <2>2, FS_Bijection
  <1>. HIDE DEF A, B, C
  <1>7. Cardinality(A \cup C) = Cardinality(A) + Cardinality(B)
    <2>1. Cardinality(A \cup C) = Cardinality(A) + Cardinality(C) - Cardinality(A \cap C)
      BY <1>1, <1>6, FS_Union
    <2>2. Cardinality(A \cap C) = 0
      BY <1>5, FS_EmptySet
    <2>. QED  BY <1>1, <1>6, <2>1, <2>2
  <1>. QED  BY <1>4, <1>7 DEF Count, A, B

\* A deque of one task, and an empty one.
LEMMA CountOne ==
    ASSUME NEW t, NEW r
    PROVE  Count(<<t>>, r) = Unit(t, r) /\ Count(<<>>, r) = 0
  <1>1. In(<<>>, r) = {}
    BY DEF In
  <1>2. In(<<t>>, r) = IF Here(t, r) THEN {1} ELSE {}
    BY DEF In
  <1>. QED  BY <1>1, <1>2, FS_Singleton, FS_EmptySet DEF Count, Unit

\* push_back.
LEMMA CountAppend ==
    ASSUME NEW T, NEW q \in Seq(T), NEW t \in T, NEW r
    PROVE  Append(q, t) \in Seq(T) /\ Count(Append(q, t), r) = Count(q, r) + Unit(t, r)
  <1>1. Append(q, t) = q \o <<t>> /\ <<t>> \in Seq(T)
    BY AppendIsConcat
  <1>2. Count(q \o <<t>>, r) = Count(q, r) + Count(<<t>>, r)
    BY <1>1, CountConcat
  <1>3. Append(q, t) \in Seq(T)
    OBVIOUS
  <1>. QED  BY <1>1, <1>2, <1>3, CountOne

\* push_front.
LEMMA CountPush ==
    ASSUME NEW T, NEW q \in Seq(T), NEW t \in T, NEW r
    PROVE  <<t>> \o q \in Seq(T) /\ Count(<<t>> \o q, r) = Count(q, r) + Unit(t, r)
  <1>1. <<t>> \in Seq(T)
    OBVIOUS
  <1>2. Count(<<t>> \o q, r) = Unit(t, r) + Count(q, r)
    <2>1. Count(<<t>> \o q, r) = Count(<<t>>, r) + Count(q, r)
      BY <1>1, CountConcat
    <2>. QED  BY <2>1, CountOne
  <1>. QED  BY <1>1, <1>2, CountType DEF Unit

\* pop_front.
LEMMA CountTail ==
    ASSUME NEW T, NEW q \in Seq(T), q # <<>>, NEW r
    PROVE  /\ Head(q) \in T /\ Tail(q) \in Seq(T)
           /\ Count(q, r) = Count(Tail(q), r) + Unit(Head(q), r)
  <1>1. Head(q) \in T /\ Tail(q) \in Seq(T) /\ q = <<Head(q)>> \o Tail(q)
    BY HeadTailProperties
  <1>2. Count(<<Head(q)>> \o Tail(q), r) = Count(Tail(q), r) + Unit(Head(q), r)
    BY <1>1, CountPush
  <1>. QED  BY <1>1, <1>2

\* One task taken out of the middle.
LEMMA CountPick ==
    ASSUME NEW T, NEW q \in Seq(T), NEW k \in DOMAIN q, NEW r
    PROVE  LET rest == SubSeq(q, 1, k - 1) \o SubSeq(q, k + 1, Len(q))
           IN  /\ q[k] \in T /\ rest \in Seq(T)
               /\ Count(q, r) = Count(rest, r) + Unit(q[k], r)
  <1>. DEFINE a == SubSeq(q, 1, k - 1)
              b == SubSeq(q, k + 1, Len(q))
  <1>1. k \in 1 .. Len(q) /\ Len(q) \in Nat /\ q[k] \in T
    OBVIOUS
  <1>2. a \in Seq(T) /\ Len(a) = k - 1 /\ \A i \in 1 .. k - 1 : a[i] = q[i]
    BY <1>1, SubSeqProperties
  <1>3. b \in Seq(T) /\ Len(b) = Len(q) - k /\ \A i \in 1 .. Len(q) - k : b[i] = q[k + i]
    BY <1>1, SubSeqProperties
  <1>. HIDE DEF a, b
  <1>4. q = a \o (<<q[k]>> \o b)
    <2>. DEFINE c == <<q[k]>> \o b
    <2>1. c \in Seq(T) /\ Len(c) = 1 + Len(b) /\ c[1] = q[k]
          /\ \A i \in 1 .. Len(b) : c[1 + i] = b[i]
      BY <1>1, <1>3
    <2>. HIDE DEF c
    <2>2. a \o c \in Seq(T) /\ Len(a \o c) = Len(q)
      BY <1>1, <1>2, <1>3, <2>1
    <2>3. \A i \in 1 .. Len(q) : (a \o c)[i] = q[i]
      <3>. TAKE i \in 1 .. Len(q)
      <3>0. i \in Int /\ k \in Int /\ i \in 1 .. Len(a) + Len(c)
        BY <1>1, <1>2, <1>3, <2>1
      <3>1. (a \o c)[i] = IF i <= k - 1 THEN a[i] ELSE c[i - (k - 1)]
        <4>1. (a \o c)[i] = IF i <= Len(a) THEN a[i] ELSE c[i - Len(a)]
          BY <1>2, <2>1, <3>0, ConcatProperties
        <4>. QED  BY <1>2, <4>1
      <3>2. CASE i <= k - 1
        BY <1>1, <1>2, <3>1, <3>2
      <3>3. CASE i = k
        <4>1. ~ (k <= k - 1) /\ k - (k - 1) = 1
          BY <3>0
        <4>. QED  BY <2>1, <3>1, <3>3, <4>1
      <3>4. CASE i > k
        <4>1. i - k \in 1 .. Len(b) /\ i - (k - 1) = 1 + (i - k) /\ k + (i - k) = i
          BY <1>1, <1>3, <3>4
        <4>2. c[1 + (i - k)] = q[i]
          BY <1>3, <2>1, <4>1
        <4>. QED  BY <1>1, <3>1, <3>4, <4>1, <4>2
      <3>. QED  BY <3>0, <3>2, <3>3, <3>4
    <2>. QED  BY <2>2, <2>3, SeqEqual DEF c
  <1>5. Count(q, r) = Count(a, r) + (Count(b, r) + Unit(q[k], r))
    <2>1. /\ <<q[k]>> \o b \in Seq(T)
          /\ Count(<<q[k]>> \o b, r) = Count(b, r) + Unit(q[k], r)
      BY <1>1, <1>3, CountPush
    <2>2. Count(a \o (<<q[k]>> \o b), r) = Count(a, r) + Count(<<q[k]>> \o b, r)
      BY <1>2, <2>1, CountConcat
    <2>. QED  BY <1>4, <2>1, <2>2
  <1>6. a \o b \in Seq(T) /\ Count(a \o b, r) = Count(a, r) + Count(b, r)
    BY <1>2, <1>3, CountConcat
  <1>7. Count(a, r) \in Nat /\ Count(b, r) \in Nat
    BY <1>2, <1>3, CountType
  <1>. QED  BY <1>1, <1>5, <1>6, <1>7 DEF a, b, Unit

\* erase: the copies of the target go, those of every other request stay.
LEMMA CountErase ==
    ASSUME NEW T, NEW q \in Seq(T), NEW r
    PROVE  /\ erase_task(q, r) \in Seq(T)
           /\ Count(erase_task(q, r), r) = 0
           /\ \A o : o # r => Count(erase_task(q, r), o) = Count(q, o)
  <1>. DEFINE kept == {i \in DOMAIN q : ~ Here(q[i], r)}
              n == Cardinality(kept)
              Below(i) == {j \in kept : j <= i}
              rank == [i \in kept |-> Cardinality(Below(i))]
              pos == [m \in 1 .. n |-> CHOOSE i \in kept : Cardinality(Below(i)) = m]
              e == [m \in 1 .. n |-> q[pos[m]]]
  <1>1. DOMAIN q = 1 .. Len(q) /\ Len(q) \in Nat /\ IsFiniteSet(DOMAIN q)
    <2>1. DOMAIN q = 1 .. Len(q) /\ Len(q) \in Nat
      OBVIOUS
    <2>. QED  BY <2>1, FS_Interval
  <1>2. IsFiniteSet(kept) /\ n \in Nat
    <2>1. IsFiniteSet(kept)
      BY <1>1, FS_Subset
    <2>. QED  BY <2>1, FS_CardinalityType
  <1>3. \A i \in kept : i \in Nat /\ q[i] \in T
    BY <1>1
  <1>4. erase_task(q, r) = e
    BY DEF erase_task
  <1>. HIDE DEF kept, n
  <1>5. \A i \in kept : /\ IsFiniteSet(Below(i))
                        /\ rank[i] = Cardinality(Below(i)) /\ rank[i] \in 1 .. n
    <2>. TAKE i \in kept
    <2>1. IsFiniteSet(Below(i)) /\ Cardinality(Below(i)) <= n
      <3>1. Below(i) \in SUBSET kept
        OBVIOUS
      <3>. QED  BY <1>2, <3>1, FS_Subset DEF n
    <2>2. Cardinality(Below(i)) \in Nat
      BY <2>1, FS_CardinalityType
    <2>3. i \in Below(i)
      BY <1>3
    <2>4. Cardinality(Below(i)) # 0
      BY <2>1, <2>3, FS_EmptySet
    <2>. QED  BY <1>2, <2>1, <2>2, <2>4
  <1>. HIDE DEF rank
  <1>6. \A i, j \in kept : i < j => rank[i] < rank[j]
    <2>. SUFFICES ASSUME NEW i \in kept, NEW j \in kept, i < j
                  PROVE  rank[i] < rank[j]
      OBVIOUS
    <2>1. Below(i) \in SUBSET Below(j) /\ Below(i) # Below(j)
      BY <1>3
    <2>2. /\ Cardinality(Below(i)) <= Cardinality(Below(j))
          /\ Cardinality(Below(j)) # Cardinality(Below(i))
      BY <1>5, <2>1, FS_Subset
    <2>3. \A m, k \in 1 .. n : m <= k /\ k # m => m < k
      BY <1>2
    <2>. QED  BY <1>5, <2>2, <2>3
  <1>7. rank \in Bijection(kept, 1 .. n)
    <2>1. rank \in [kept -> 1 .. n]
      BY <1>5 DEF rank
    <2>2. \A i, j \in kept : rank[i] = rank[j] => i = j
      <3>. SUFFICES ASSUME NEW i \in kept, NEW j \in kept, rank[i] = rank[j], i # j
                    PROVE  FALSE
        OBVIOUS
      <3>1. i < j \/ j < i
        BY <1>3
      <3>2. \A m, k \in 1 .. n : m < k => m # k
        BY <1>2
      <3>. QED  BY <1>5, <1>6, <3>1, <3>2
    <2>3. rank \in Injection(kept, 1 .. n)
      BY <2>1, <2>2 DEF Injection, IsInjective
    <2>4. IsFiniteSet(1 .. n) /\ Cardinality(1 .. n) = n
      BY <1>2, FS_Interval
    <2>5. rank \in Surjection(kept, 1 .. n)
      BY <2>3, <2>4, FS_Injection DEF n
    <2>. QED  BY <2>3, <2>5 DEF Bijection
  <1>8. \A m \in 1 .. n : pos[m] \in kept /\ rank[pos[m]] = m
    <2>. TAKE m \in 1 .. n
    <2>1. \E i \in kept : rank[i] = m
      BY <1>7, Zenon DEF Bijection, Surjection
    <2>2. \E i \in kept : Cardinality(Below(i)) = m
      BY <1>5, <2>1
    <2>3. pos[m] \in kept /\ Cardinality(Below(pos[m])) = m
      BY <2>2
    <2>. QED  BY <1>5, <2>3
  <1>9. \A i \in kept : rank[i] \in 1 .. n /\ pos[rank[i]] = i
    <2>1. \A i, j \in kept : rank[i] = rank[j] => i = j
      BY <1>7, Zenon DEF Bijection, Injection, IsInjective
    <2>. QED  BY <1>5, <1>8, <2>1
  <1>. HIDE DEF pos
  <1>10. e \in Seq(T) /\ DOMAIN e = 1 .. n /\ \A m \in 1 .. n : e[m] = q[pos[m]]
    BY <1>2, <1>3, <1>8
  <1>. HIDE DEF e
  <1>11. Count(e, r) = 0
    <2>1. In(e, r) = {}
      BY <1>8, <1>10 DEF In, kept
    <2>. QED  BY <2>1, FS_EmptySet DEF Count
  <1>12. ASSUME NEW o, o # r
         PROVE  Count(e, o) = Count(q, o)
    <2>. DEFINE f == [i \in In(q, o) |-> rank[i]]
    <2>1. In(q, o) \subseteq kept
      BY <1>12 DEF In, Here, kept
    <2>2. \A i \in In(q, o) : f[i] \in In(e, o)
      BY <1>9, <1>10, <2>1 DEF In
    <2>3. \A m \in In(e, o) : pos[m] \in In(q, o) /\ f[pos[m]] = m
      <3>. TAKE m \in In(e, o)
      <3>1. m \in 1 .. n /\ Here(e[m], o)
        BY <1>10 DEF In
      <3>2. pos[m] \in kept /\ rank[pos[m]] = m /\ e[m] = q[pos[m]]
        BY <1>8, <1>10, <3>1
      <3>3. pos[m] \in In(q, o)
        BY <3>1, <3>2 DEF In, kept
      <3>. QED  BY <3>2, <3>3
    <2>4. \A i, j \in In(q, o) : f[i] = f[j] => i = j
      BY <1>9, <2>1
    <2>5. f \in Bijection(In(q, o), In(e, o))
      <3>1. f \in [In(q, o) -> In(e, o)]
        BY <2>2
      <3>. HIDE DEF f
      <3>. QED  BY <2>3, <2>4, <3>1 DEF Bijection, Injection, Surjection, IsInjective
    <2>. HIDE DEF f
    <2>6. ExistsBijection(In(q, o), In(e, o)) /\ IsFiniteSet(In(q, o))
      BY <2>5, CountType DEF ExistsBijection
    <2>. QED  BY <2>6, FS_Bijection DEF Count
  <1>. QED  BY <1>4, <1>10, <1>11, <1>12

-----------------------------------------------------------------------------
(* The ledger of a request: where its task or its answer is *)

SlotsOf(st, r) == {s \in Slot : st[s] = r}
AnswersIn(rs, r) == {res \in rs : res.id = r}

\* The copies of a request's task, place by place, and with its answers.
Held(q, d, u, m, w, st, r) ==
    Count(q, r) + Count(d, r) + Count(u, r) + Unit(m, r) + Unit(w, r)
      + Cardinality(SlotsOf(st, r))
HeldNow(r) == Held(queue, deferred, unhandled, mhand, whand, slotTask, r)
Total(r) == HeldNow(r) + Cardinality(AnswersIn(results, r))

\* A task without a request is a NEXT_RESPONSE; a CANCEL is that of a client that
\* is gone for good.
Gone == {r \in Req : client[r] = "gone"}
Tasks(gone) == {t \in Task : /\ t.id = NoReq => t.type = "NEXT_RESPONSE"
                             /\ t.type = "CANCEL" => t.id \in gone}
Places == {"new", "waking", "ready", "waiting", "leaving", "done", "gone"}
Result == [id : Req, kind : {"ok", "error"}]

Posted == /\ queue \in Seq(Tasks(Gone)) /\ deferred \in Seq(Tasks(Gone))
          /\ unhandled \in Seq(Tasks(Gone))
          /\ mhand \in Tasks(Gone) /\ whand \in Tasks(Gone)
          /\ at \in Slot /\ slotTask \in [Slot -> Req \cup {NoReq}]
          /\ client \in [Req -> Places] /\ results \subseteq Result

\* A thread that is not handling a task holds none, and nothing is set aside
\* outside the yield.
Hands == /\ mpc \notin {"handle", "crashed"} => mhand = NoTask
         /\ wpc # "hand" => whand = NoTask
         /\ mpc \notin {"decode", "join"} => unhandled = <<>>

\* From pre_decode to the wait a busy slot has its NEXT_RESPONSE on the way.
Rounds == {"pre", "yield", "decode", "join", "post", "abort", "wait"}
Pulse(q, u, place, w) ==
    Count(q, NoReq) + Count(u, NoReq) + (IF place = "hand" THEN Unit(w, NoReq) ELSE 0)
Driven == /\ mpc \in Rounds /\ Busy # {} => Pulse(queue, unhandled, wpc, whand) >= 1
          /\ mpc = "asleep" => Busy = {}

\* Nothing before the task is posted, exactly one copy or answer while its client
\* waits, and no answer once the client is through.
Accounts == /\ waiting = {r \in Req : client[r] = "waiting"}
            /\ \A r \in Req : client[r] \in {"new", "waking", "ready"} => Total(r) = 0
            /\ \A r \in waiting : Total(r) = 1
            /\ NoResultLeaked

\* Every set of natural numbers that is not empty has a least member.
LEMMA LeastNatural ==
    ASSUME NEW T \in SUBSET Nat, T # {}
    PROVE  \E x \in T : \A y \in T : x <= y
  <1>. DEFINE R == StrictSubsetOrdering(Nat)
              S == FiniteSubsetsOf(Nat)
              U == {0 .. x : x \in T}
  <1>1. IsWellFoundedOn(R, S)
    BY FS_StrictSubsetOrderingWellFounded
  <1>2. U \subseteq S
    <2>1. \A x \in T : IsFiniteSet(0 .. x)
      BY FS_Interval
    <2>. QED  BY <2>1 DEF FiniteSubsetsOf
  <1>3. U # {}
    OBVIOUS
  <1>4. PICK u \in U : \A v \in U : ~ (<<v, u>> \in R)
    <2>. HIDE DEF R, S, U
    <2>. QED  BY <1>1, <1>2, <1>3, WFMin
  <1>5. PICK x \in T : u = 0 .. x
    OBVIOUS
  <1>6. ASSUME NEW y \in T, y < x  PROVE FALSE
    <2>1. 0 .. y \in U
      OBVIOUS
    <2>2. 0 .. y \subseteq 0 .. x /\ 0 .. y # 0 .. x /\ 0 .. x \subseteq Nat
      <3>1. x \in 0 .. x /\ ~ x \in 0 .. y
        BY <1>6
      <3>. QED  BY <1>6, <3>1
    <2>3. <<0 .. y, u>> \in R
      BY <2>2, <1>5 DEF StrictSubsetOrdering
    <2>. QED  BY <2>1, <2>3, <1>4
  <1>. QED  BY <1>6


\* The parts of the ledger are natural numbers.
LEMMA HeldParts ==
    ASSUME NEW T, NEW q \in Seq(T), NEW d \in Seq(T), NEW u \in Seq(T), NEW m, NEW w,
           NEW st, NEW r
    PROVE  /\ Count(q, r) \in Nat /\ Count(d, r) \in Nat /\ Count(u, r) \in Nat
           /\ Unit(m, r) \in {0, 1} /\ Unit(w, r) \in {0, 1}
           /\ IsFiniteSet(SlotsOf(st, r)) /\ Cardinality(SlotsOf(st, r)) \in Nat
           /\ Held(q, d, u, m, w, st, r) \in Nat
  <1>1. Count(q, r) \in Nat /\ Count(d, r) \in Nat /\ Count(u, r) \in Nat
    BY CountType
  <1>2. IsFiniteSet(SlotsOf(st, r)) /\ Cardinality(SlotsOf(st, r)) \in Nat
    <2>1. IsFiniteSet(Slot)
      BY ServerAssumption, FS_Interval DEF Slot
    <2>2. SlotsOf(st, r) \in SUBSET Slot
      BY DEF SlotsOf
    <2>3. IsFiniteSet(SlotsOf(st, r))
      BY <2>1, <2>2, FS_Subset
    <2>. QED  BY <2>3, FS_CardinalityType
  <1>3. Unit(m, r) \in {0, 1} /\ Unit(w, r) \in {0, 1}
    BY DEF Unit
  <1>4. Held(q, d, u, m, w, st, r) \in Nat
    <2>. DEFINE a == Count(q, r)
                b == Count(d, r)
                c == Count(u, r)
                e == Unit(m, r)
                f == Unit(w, r)
                g == Cardinality(SlotsOf(st, r))
    <2>1. a \in Nat /\ b \in Nat /\ c \in Nat /\ e \in Nat /\ f \in Nat /\ g \in Nat
      BY <1>1, <1>2, <1>3
    <2>2. Held(q, d, u, m, w, st, r) = a + b + c + e + f + g
      BY DEF Held
    <2>. HIDE DEF a, b, c, e, f, g
    <2>. QED  BY <2>1, <2>2
  <1>. QED  BY <1>1, <1>2, <1>3, <1>4

\* A request has at most two different answers.
LEMMA AnswerParts ==
    ASSUME NEW rs \in SUBSET Result, NEW r
    PROVE  IsFiniteSet(AnswersIn(rs, r)) /\ Cardinality(AnswersIn(rs, r)) \in Nat
  <1>. DEFINE ok == [id |-> r, kind |-> "ok"]
              error == [id |-> r, kind |-> "error"]
  <1>1. AnswersIn(rs, r) \in SUBSET ({ok} \cup {error})
    BY DEF AnswersIn, Result
  <1>. HIDE DEF ok, error
  <1>2. IsFiniteSet({ok} \cup {error})
    BY FS_Singleton, FS_Union
  <1>3. IsFiniteSet(AnswersIn(rs, r))
    BY <1>1, <1>2, FS_Subset
  <1>. QED  BY <1>3, FS_CardinalityType

\* The parts in a state of the server.
LEMMA Parts ==
    ASSUME Posted, NEW r
    PROVE  /\ Count(queue, r) \in Nat /\ Count(deferred, r) \in Nat
           /\ Count(unhandled, r) \in Nat
           /\ Unit(mhand, r) \in {0, 1} /\ Unit(whand, r) \in {0, 1}
           /\ IsFiniteSet(SlotsOf(slotTask, r)) /\ Cardinality(SlotsOf(slotTask, r)) \in Nat
           /\ HeldNow(r) \in Nat
           /\ IsFiniteSet(AnswersIn(results, r)) /\ Cardinality(AnswersIn(results, r)) \in Nat
  <1>1. /\ queue \in Seq(Tasks(Gone)) /\ deferred \in Seq(Tasks(Gone))
        /\ unhandled \in Seq(Tasks(Gone)) /\ results \in SUBSET Result
    BY DEF Posted
  <1>. QED  BY <1>1, HeldParts, AnswerParts, Zenon DEF HeldNow

\* The same in the next state.
LEMMA PartsNext ==
    ASSUME Posted', NEW r
    PROVE  /\ Count(queue', r) \in Nat /\ Count(deferred', r) \in Nat
           /\ Count(unhandled', r) \in Nat
           /\ Unit(mhand', r) \in {0, 1} /\ Unit(whand', r) \in {0, 1}
           /\ Cardinality(SlotsOf(slotTask', r)) \in Nat
           /\ HeldNow(r)' \in Nat
           /\ IsFiniteSet(AnswersIn(results', r)) /\ Cardinality(AnswersIn(results', r)) \in Nat
  <1>. DEFINE T == Tasks(Gone')
  <1>1. /\ queue' \in Seq(T) /\ deferred' \in Seq(T)
        /\ unhandled' \in Seq(T) /\ results' \in SUBSET Result
    BY DEF Posted
  <1>. HIDE DEF T
  <1>2. HeldNow(r)' = Held(queue', deferred', unhandled', mhand', whand', slotTask', r)
    BY DEF HeldNow
  <1>. QED  BY <1>1, <1>2, HeldParts, AnswerParts, Zenon

\* Copies and answers are what NoTaskLost counts.
LEMMA TotalIs ==
    ASSUME Posted, NEW r \in Req
    PROVE  Copies(r) + Cardinality(Answers(r)) = Total(r)
  <1>1. Cardinality(InHands(r)) = Unit(mhand, r) + Unit(whand, r)
    <2>. DEFINE M == IF Here(mhand, r) THEN {"main"} ELSE {}
                W == IF Here(whand, r) THEN {"worker"} ELSE {}
    <2>1. InHands(r) = M \cup W /\ M \cap W = {}
      BY DEF InHands
    <2>2. /\ IsFiniteSet(M) /\ Cardinality(M) = Unit(mhand, r)
          /\ IsFiniteSet(W) /\ Cardinality(W) = Unit(whand, r)
      BY FS_Singleton, FS_EmptySet DEF Unit
    <2>. HIDE DEF M, W
    <2>3. Cardinality(M \cup W) = Cardinality(M) + Cardinality(W) - Cardinality(M \cap W)
      BY <2>2, FS_Union
    <2>4. Cardinality(M \cap W) = 0
      BY <2>1, FS_EmptySet
    <2>. QED  BY <2>1, <2>2, <2>3, <2>4 DEF Unit
  <1>2. SlotsOf(slotTask, r) = OnSlots(r) /\ AnswersIn(results, r) = Answers(r)
    BY DEF SlotsOf, OnSlots, AnswersIn, Answers
  <1>. DEFINE a == Count(queue, r)
              b == Count(deferred, r)
              c == Count(unhandled, r)
              e == Unit(mhand, r)
              f == Unit(whand, r)
              g == Cardinality(OnSlots(r))
  <1>3. a \in Nat /\ b \in Nat /\ c \in Nat /\ e \in Nat /\ f \in Nat /\ g \in Nat
    BY <1>2, Parts
  <1>4. Copies(r) = a + b + c + (e + f) + g
    BY <1>1 DEF Copies, Count
  <1>5. HeldNow(r) = a + b + c + e + f + g
    BY <1>2 DEF HeldNow, Held
  <1>. HIDE DEF a, b, c, e, f, g
  <1>6. Copies(r) = HeldNow(r)
    BY <1>3, <1>4, <1>5
  <1>. QED  BY <1>2, <1>6 DEF Total

-----------------------------------------------------------------------------
(* What the operations do to the ledger *)

\* A step of the server leaves the ledger of a request in order.
Moved(r) ==
    /\ Total(r) = 0 => Total(r)' = 0
    /\ r \in waiting /\ Total(r) = 1 => Total(r)' = 1
    /\ AnswersIn(results', r) # {} => AnswersIn(results, r) # {} \/ r \in waiting

\* A step that no client takes part in.
LEMMA SameClients ==
    ASSUME Accounts, UNCHANGED <<client, waiting>>, \A r \in Req : Moved(r)
    PROVE  Accounts'
  <1>1. waiting' = {r \in Req : client'[r] = "waiting"}
    BY DEF Accounts
  <1>2. ASSUME NEW r \in Req, client'[r] \in {"new", "waking", "ready"}
        PROVE  Total(r)' = 0
    BY <1>2 DEF Accounts, Moved
  <1>3. ASSUME NEW r \in waiting'
        PROVE  Total(r)' = 1
    BY <1>1, <1>3 DEF Accounts, Moved
  <1>4. NoResultLeaked'
    <2>. SUFFICES ASSUME NEW r \in Req, AnswersIn(results', r) # {}
                  PROVE  client[r] \in {"waiting", "leaving"}
      BY DEF NoResultLeaked, Answers, AnswersIn
    <2>1. AnswersIn(results, r) # {} \/ r \in waiting
      BY DEF Moved
    <2>. QED  BY <2>1 DEF Accounts, NoResultLeaked, Answers, AnswersIn
  <1>. QED  BY <1>1, <1>2, <1>3, <1>4 DEF Accounts

\* Tasks change place and nothing is answered.
LEMMA Redistributed ==
    ASSUME results' = results, NEW r, HeldNow(r)' = HeldNow(r)
    PROVE  Moved(r)
  BY DEF Moved, Total

\* send keeps an answer only for an id that is waiting.
LEMMA Sent ==
    ASSUME results \subseteq Result, waiting \subseteq Req, NEW o, NEW kind \in {"ok", "error"},
           send(o, kind)
    PROVE  /\ results' \subseteq Result
           /\ \A r \in Req : r # o \/ r \notin waiting =>
                  AnswersIn(results', r) = AnswersIn(results, r)
           /\ o \in waiting =>
                  AnswersIn(results', o) = AnswersIn(results, o) \cup {[id |-> o, kind |-> kind]}
  <1>. DEFINE new == [id |-> o, kind |-> kind]
  <1>1. CASE o \in waiting
    <2>1. results' = results \cup {new} /\ new.id = o /\ new \in Result
      BY <1>1 DEF send, Result
    <2>. HIDE DEF new
    <2>2. \A r : AnswersIn(results', r) = AnswersIn(results, r) \cup (IF r = o THEN {new} ELSE {})
      BY <2>1 DEF AnswersIn
    <2>. QED  BY <1>1, <2>1, <2>2 DEF new
  <1>2. CASE o \notin waiting
    BY <1>2 DEF send
  <1>. QED  BY <1>1, <1>2

\* A copy of the task is given up for the answer.
LEMMA Answered ==
    ASSUME Posted, Posted', Accounts, NEW o, NEW kind \in {"ok", "error"}, send(o, kind),
           NEW r \in Req, HeldNow(r)' = HeldNow(r) - (IF r = o THEN 1 ELSE 0)
    PROVE  Moved(r)
  <1>1. results \subseteq Result /\ waiting \subseteq Req
    BY DEF Posted, Accounts
  <1>2. /\ HeldNow(r) \in Nat /\ HeldNow(r)' \in Nat
        /\ IsFiniteSet(AnswersIn(results, r)) /\ Cardinality(AnswersIn(results, r)) \in Nat
    <2>1. HeldNow(r)' \in Nat
      BY PartsNext
    <2>. QED  BY <2>1, Parts
  <1>3. CASE r # o \/ r \notin waiting
    <2>1. AnswersIn(results', r) = AnswersIn(results, r)
      BY <1>1, <1>3, Sent
    <2>2. CASE r # o
      <3>1. HeldNow(r)' = HeldNow(r)
        BY <1>2, <2>2
      <3>. QED  BY <2>1, <3>1 DEF Moved, Total
    <2>3. CASE r = o
      <3>1. HeldNow(r) >= 1
        BY <1>2, <2>3
      <3>2. Total(r) # 0
        BY <1>2, <3>1 DEF Total
      <3>. QED  BY <1>3, <2>1, <2>3, <3>2 DEF Moved
    <2>. QED  BY <2>2, <2>3
  <1>4. CASE r = o /\ r \in waiting
    <2>1. HeldNow(r) >= 1 /\ HeldNow(r)' = HeldNow(r) - 1
      BY <1>2, <1>4
    <2>2. Total(r) # 0
      BY <1>2, <2>1 DEF Total
    <2>3. ASSUME Total(r) = 1
          PROVE  Total(r)' = 1
      <3>1. HeldNow(r)' = 0 /\ Cardinality(AnswersIn(results, r)) = 0
        BY <1>2, <2>1, <2>3 DEF Total
      <3>2. AnswersIn(results, r) = {}
        BY <1>2, <3>1, FS_EmptySet
      <3>3. AnswersIn(results', r) = {[id |-> o, kind |-> kind]}
        BY <1>1, <1>4, <3>2, Sent
      <3>4. Cardinality(AnswersIn(results', r)) = 1
        BY <3>3, FS_Singleton
      <3>. QED  BY <3>1, <3>4 DEF Total
    <2>. QED  BY <1>4, <2>2, <2>3 DEF Moved
  <1>. QED  BY <1>3, <1>4

\* One of the deferred tasks, if there is any, moves to the front of the queue.
LEMMA PopDeferred ==
    ASSUME NEW T, queue \in Seq(T), deferred \in Seq(T), NEW s, pop_deferred_task(s)
    PROVE  /\ queue' \in Seq(T) /\ deferred' \in Seq(T)
           /\ \A r : /\ Count(queue', r) + Count(deferred', r)
                          = Count(queue, r) + Count(deferred, r)
                     /\ Count(queue', r) >= Count(queue, r)
  <1>1. CASE deferred = <<>>
    <2>1. queue' = queue /\ deferred' = deferred
      BY <1>1 DEF pop_deferred_task
    <2>2. \A r : Count(queue, r) \in Nat
      BY CountType
    <2>. QED  BY <2>1, <2>2
  <1>2. CASE deferred # <<>>
    <2>. DEFINE Names(i) == deferred[i].type = "COMPLETION" /\ WantsOf[deferred[i].id] = s
                First(i) == Names(i) /\ \A j \in 1 .. i - 1 : ~ Names(j)
                named == {i \in DOMAIN deferred : Names(i)}
                k == IF \E i \in DOMAIN deferred : Names(i)
                     THEN CHOOSE i \in DOMAIN deferred : First(i) ELSE 1
    <2>1. DOMAIN deferred = 1 .. Len(deferred) /\ Len(deferred) \in Nat /\ Len(deferred) # 0
      BY <1>2, EmptySeq
    <2>2. /\ queue' = <<deferred[k]>> \o queue
          /\ deferred' = SubSeq(deferred, 1, k - 1) \o SubSeq(deferred, k + 1, Len(deferred))
      BY <1>2 DEF pop_deferred_task
    <2>3. k \in DOMAIN deferred
      <3>1. CASE named # {}
        <4>1. named \in SUBSET Nat
          BY <2>1
        <4>2. PICK i \in named : \A j \in named : i <= j
          BY <3>1, <4>1, LeastNatural
        <4>3. i \in DOMAIN deferred /\ First(i)
          BY <2>1, <4>2
        <4>. HIDE DEF First
        <4>. QED  BY <3>1, <4>3
      <3>2. CASE named = {}
        BY <2>1, <3>2
      <3>. QED  BY <3>1, <3>2
    <2>. HIDE DEF k
    <2>. DEFINE rest == SubSeq(deferred, 1, k - 1) \o SubSeq(deferred, k + 1, Len(deferred))
    <2>4. ASSUME NEW r
          PROVE  /\ deferred[k] \in T /\ rest \in Seq(T)
                 /\ Count(deferred, r) = Count(rest, r) + Unit(deferred[k], r)
      BY <2>3, CountPick
    <2>5. ASSUME NEW r
          PROVE  /\ <<deferred[k]>> \o queue \in Seq(T)
                 /\ Count(<<deferred[k]>> \o queue, r) = Count(queue, r) + Unit(deferred[k], r)
      BY <2>4, CountPush
    <2>6. ASSUME NEW r
          PROVE  /\ Count(queue', r) + Count(deferred', r) = Count(queue, r) + Count(deferred, r)
                 /\ Count(queue', r) >= Count(queue, r)
      <3>1. Count(queue, r) \in Nat /\ Count(rest, r) \in Nat /\ Unit(deferred[k], r) \in {0, 1}
        BY <2>4, CountType DEF Unit
      <3>2. /\ Count(queue', r) = Count(queue, r) + Unit(deferred[k], r)
            /\ Count(deferred, r) = Count(rest, r) + Unit(deferred[k], r)
            /\ deferred' = rest
        BY <2>2, <2>4, <2>5
      <3>. HIDE DEF rest
      <3>. QED  BY <3>1, <3>2
    <2>. QED  BY <2>2, <2>4, <2>5, <2>6
  <1>. QED  BY <1>1, <1>2

\* A slot is given up.
LEMMA Released ==
    ASSUME slotTask \in [Slot -> Req \cup {NoReq}], NEW s \in Slot,
           slotTask' = [slotTask EXCEPT ![s] = NoReq]
    PROVE  /\ slotTask' \in [Slot -> Req \cup {NoReq}]
           /\ Busy' \subseteq Busy
           /\ \A r \in Req : Cardinality(SlotsOf(slotTask', r))
                = Cardinality(SlotsOf(slotTask, r)) - (IF r = slotTask[s] THEN 1 ELSE 0)
  <1>1. slotTask' \in [Slot -> Req \cup {NoReq}] /\ Busy' \subseteq Busy
    BY DEF Busy, is_processing
  <1>2. ASSUME NEW r \in Req
        PROVE  Cardinality(SlotsOf(slotTask', r))
                 = Cardinality(SlotsOf(slotTask, r)) - (IF r = slotTask[s] THEN 1 ELSE 0)
    <2>1. IsFiniteSet(SlotsOf(slotTask, r)) /\ Cardinality(SlotsOf(slotTask, r)) \in Nat
      <3>1. <<>> \in Seq({})
        OBVIOUS
      <3>. QED  BY <3>1, HeldParts
    <2>2. r # NoReq
      BY ServerAssumption
    <2>3. SlotsOf(slotTask', r) = SlotsOf(slotTask, r) \ {s}
      BY <2>2 DEF SlotsOf
    <2>4. Cardinality(SlotsOf(slotTask, r) \ {s})
            = IF s \in SlotsOf(slotTask, r) THEN Cardinality(SlotsOf(slotTask, r)) - 1
                                            ELSE Cardinality(SlotsOf(slotTask, r))
      BY <2>1, FS_RemoveElement
    <2>5. s \in SlotsOf(slotTask, r) <=> r = slotTask[s]
      BY DEF SlotsOf
    <2>6. CASE r = slotTask[s]
      BY <2>3, <2>4, <2>5, <2>6
    <2>7. CASE r # slotTask[s]
      <3>1. \A n \in Nat : n - 0 = n
        OBVIOUS
      <3>2. Cardinality(SlotsOf(slotTask', r)) = Cardinality(SlotsOf(slotTask, r))
        BY <2>3, <2>4, <2>5, <2>7
      <3>. QED  BY <2>1, <2>7, <3>1, <3>2, Zenon
    <2>. QED  BY <2>6, <2>7
  <1>. QED  BY <1>1, <1>2

\* A task enters an idle slot.
LEMMA Taken ==
    ASSUME slotTask \in [Slot -> Req \cup {NoReq}], NEW s \in Slot, slotTask[s] = NoReq,
           NEW o \in Req \cup {NoReq}, slotTask' = [slotTask EXCEPT ![s] = o]
    PROVE  /\ slotTask' \in [Slot -> Req \cup {NoReq}]
           /\ \A r \in Req : Cardinality(SlotsOf(slotTask', r))
                = Cardinality(SlotsOf(slotTask, r)) + (IF r = o THEN 1 ELSE 0)
  <1>1. slotTask' \in [Slot -> Req \cup {NoReq}]
    OBVIOUS
  <1>2. ASSUME NEW r \in Req
        PROVE  Cardinality(SlotsOf(slotTask', r))
                 = Cardinality(SlotsOf(slotTask, r)) + (IF r = o THEN 1 ELSE 0)
    <2>1. IsFiniteSet(SlotsOf(slotTask, r)) /\ Cardinality(SlotsOf(slotTask, r)) \in Nat
      <3>1. <<>> \in Seq({})
        OBVIOUS
      <3>. QED  BY <3>1, HeldParts
    <2>2. r # NoReq
      BY ServerAssumption
    <2>3. SlotsOf(slotTask', r) = IF r = o THEN SlotsOf(slotTask, r) \cup {s}
                                  ELSE SlotsOf(slotTask, r)
      BY <2>2 DEF SlotsOf
    <2>4. s \notin SlotsOf(slotTask, r)
      BY <2>2 DEF SlotsOf
    <2>5. Cardinality(SlotsOf(slotTask, r) \cup {s}) = Cardinality(SlotsOf(slotTask, r)) + 1
      BY <2>1, <2>4, FS_AddElement
    <2>. QED  BY <2>1, <2>3, <2>5
  <1>. QED  BY <1>1, <1>2

\* An empty hand, a CANCEL and a NEXT_RESPONSE are no copy of a request's task.
LEMMA NoCopy ==
    ASSUME NEW r \in Req
    PROVE  /\ Unit(NoTask, r) = 0 /\ Unit(NextResponse, r) = 0
           /\ \A o : Unit(CancelOf(o), r) = 0
  BY ServerAssumption DEF Unit, Here, NoTask, NextResponse, CancelOf

\* The main loop pops a task.
LEMMA MainPopLedger ==
    ASSUME Posted, Hands, Accounts, MainPop
    PROVE  Posted' /\ Accounts'
  <1>1. /\ mpc = "process" /\ mhand = NoTask /\ UNCHANGED <<client, waiting, results>>
        /\ UNCHANGED <<deferred, unhandled, whand, slotTask, at>>
    BY DEF MainPop, Hands, cvars, wvars, svars
  <1>2. CASE queue = <<>>
    <2>1. UNCHANGED <<mhand, queue>>
      BY <1>2 DEF MainPop
    <2>2. Posted'
      BY <1>1, <2>1 DEF Posted, Gone
    <2>3. \A r \in Req : Moved(r)
      BY <1>1, <2>1, Redistributed DEF HeldNow
    <2>. QED  BY <1>1, <2>2, <2>3, SameClients
  <1>3. CASE queue # <<>>
    <2>1. mhand' = Head(queue) /\ queue' = Tail(queue)
      BY <1>3 DEF MainPop
    <2>2. ASSUME NEW r
          PROVE  /\ mhand' \in Tasks(Gone) /\ queue' \in Seq(Tasks(Gone))
                 /\ Count(queue, r) = Count(queue', r) + Unit(mhand', r)
      <3>1. queue \in Seq(Tasks(Gone))
        BY DEF Posted
      <3>. QED  BY <1>3, <2>1, <3>1, CountTail
    <2>3. Posted'
      BY <1>1, <2>2 DEF Posted, Gone
    <2>4. ASSUME NEW r \in Req
          PROVE  Moved(r)
      <3>1. Count(queue, r) = Count(queue', r) + Unit(mhand', r) /\ Unit(mhand, r) = 0
        BY <1>1, <2>2, NoCopy
      <3>2. HeldNow(r)' = HeldNow(r)
        BY <1>1, <2>3, <3>1, Parts, PartsNext DEF HeldNow, Held
      <3>. QED  BY <1>1, <3>2, Redistributed
    <2>. QED  BY <1>1, <2>3, <2>4, SameClients
  <1>. QED  BY <1>2, <1>3

\* A task that has to wait: from the hand to the deferred list.
LEMMA DeferLedger ==
    ASSUME Posted, Accounts, defer(mhand), mhand' = NoTask,
           UNCHANGED <<client, waiting, results, whand, slotTask, at>>
    PROVE  Posted' /\ Accounts'
  <1>1. /\ deferred' = Append(deferred, mhand) /\ UNCHANGED <<queue, unhandled>>
    BY DEF defer
  <1>2. ASSUME NEW r
        PROVE  /\ deferred' \in Seq(Tasks(Gone))
               /\ Count(deferred', r) = Count(deferred, r) + Unit(mhand, r)
    <2>1. deferred \in Seq(Tasks(Gone)) /\ mhand \in Tasks(Gone)
      BY DEF Posted
    <2>. QED  BY <1>1, <2>1, CountAppend
  <1>3. NoTask \in Tasks(Gone)
    BY DEF NoTask, Tasks, Task
  <1>4. Posted'
    BY <1>1, <1>2, <1>3 DEF Posted, Gone
  <1>5. ASSUME NEW r \in Req
        PROVE  Moved(r)
    <2>1. Count(deferred', r) = Count(deferred, r) + Unit(mhand, r) /\ Unit(mhand', r) = 0
      BY <1>2, NoCopy
    <2>2. /\ Count(queue', r) = Count(queue, r) /\ Count(unhandled', r) = Count(unhandled, r)
          /\ Unit(whand', r) = Unit(whand, r) /\ SlotsOf(slotTask', r) = SlotsOf(slotTask, r)
      BY <1>1
    <2>3. HeldNow(r)' = HeldNow(r)
      BY <1>4, <2>1, <2>2, Parts, PartsNext DEF HeldNow, Held
    <2>. QED  BY <2>3, Redistributed
  <1>. QED  BY <1>4, <1>5, SameClients

\* A task is answered from the hand of the main loop.
LEMMA HandLedger ==
    ASSUME Posted, Accounts, mhand.type # "CANCEL",
           NEW kind \in {"ok", "error"}, send(mhand.id, kind), mhand' = NoTask,
           UNCHANGED <<client, waiting, qvars, whand, slotTask, at>>
    PROVE  Posted' /\ Accounts'
  <1>1. results \subseteq Result /\ waiting \subseteq Req
    BY DEF Posted, Accounts
  <1>2. results' \subseteq Result
    BY <1>1, Sent
  <1>3. NoTask \in Tasks(Gone)
    BY DEF NoTask, Tasks, Task
  <1>4. Posted'
    BY <1>2, <1>3 DEF Posted, Gone, qvars
  <1>5. ASSUME NEW r \in Req
        PROVE  Moved(r)
    <2>1. Unit(mhand, r) = (IF r = mhand.id THEN 1 ELSE 0) /\ Unit(mhand', r) = 0
      BY NoCopy DEF Unit, Here
    <2>2. HeldNow(r)' = HeldNow(r) - (IF r = mhand.id THEN 1 ELSE 0)
      <3>1. HeldNow(r) = HeldNow(r)' + Unit(mhand, r)
        BY <1>4, <2>1, Parts, PartsNext DEF HeldNow, Held, qvars
      <3>. QED  BY <1>4, <2>1, <3>1, Parts, PartsNext
    <2>. QED  BY <1>4, <2>2, Answered
  <1>. QED  BY <1>4, <1>5, SameClients

\* A task enters a slot.
LEMMA LaunchLedger ==
    ASSUME Posted, Accounts, Launch
    PROVE  Posted' /\ Accounts'
  <1>1. /\ mhand.type = "COMPLETION" /\ mhand' = NoTask
        /\ UNCHANGED <<client, waiting, results, queue, deferred, unhandled, whand, at>>
    BY DEF Launch, Handled, InHand, qvars, cvars, wvars
  <1>2. PICK s \in IdleChoice : slotTask' = [slotTask EXCEPT ![s] = mhand.id]
    BY DEF Launch
  <1>3. s \in Slot /\ slotTask[s] = NoReq
    <2>1. mhand \in Task
      BY DEF Posted, Tasks
    <2>2. mhand.id \in Req
      BY <1>1, <2>1 DEF Posted, Tasks, Task
    <2>3. WantsOf[mhand.id] \in Slot \cup {NoSlot}
      BY <2>2, ServerAssumption
    <2>. QED  BY <1>2, <2>3 DEF IdleChoice, Busy, is_processing
  <1>4. mhand.id \in Req \cup {NoReq} /\ slotTask \in [Slot -> Req \cup {NoReq}]
    BY DEF Posted, Tasks, Task
  <1>5. slotTask' \in [Slot -> Req \cup {NoReq}]
    BY <1>2, <1>3, <1>4, Taken
  <1>6. NoTask \in Tasks(Gone)
    BY DEF NoTask, Tasks, Task
  <1>7. Posted'
    BY <1>1, <1>5, <1>6 DEF Posted, Gone
  <1>8. ASSUME NEW r \in Req
        PROVE  Moved(r)
    <2>1. Unit(mhand, r) = (IF r = mhand.id THEN 1 ELSE 0) /\ Unit(mhand', r) = 0
      BY <1>1, NoCopy DEF Unit, Here
    <2>2. Cardinality(SlotsOf(slotTask', r)) = Cardinality(SlotsOf(slotTask, r)) + Unit(mhand, r)
      <3>1. Cardinality(SlotsOf(slotTask', r))
              = Cardinality(SlotsOf(slotTask, r)) + (IF r = mhand.id THEN 1 ELSE 0)
        BY <1>2, <1>3, <1>4, Taken
      <3>. QED  BY <2>1, <3>1, Zenon
    <2>3. HeldNow(r)' = HeldNow(r)
      BY <1>1, <1>7, <2>1, <2>2, Parts, PartsNext DEF HeldNow, Held
    <2>. QED  BY <1>1, <2>3, Redistributed
  <1>. QED  BY <1>1, <1>7, <1>8, SameClients

\* CANCEL: the client whose slot is given up is gone.
LEMMA CancelLedger ==
    ASSUME Posted, Accounts, HandleCancel
    PROVE  Posted' /\ Accounts'
  <1>1. /\ mhand.type = "CANCEL" /\ mhand' = NoTask
        /\ UNCHANGED <<client, waiting, results, unhandled, whand, at>>
    BY DEF HandleCancel, Handled, InHand, cvars, wvars
  <1>2. mhand.id \in Req /\ mhand.id \notin waiting
    <2>1. mhand.id \in Gone
      BY <1>1 DEF Posted, Tasks
    <2>. QED  BY <2>1 DEF Gone, Accounts
  <1>3. NoTask \in Tasks(Gone)
    BY DEF NoTask, Tasks, Task
  <1>4. /\ queue \in Seq(Tasks(Gone)) /\ deferred \in Seq(Tasks(Gone))
        /\ slotTask \in [Slot -> Req \cup {NoReq}]
    BY DEF Posted
  <1>5. CASE UNCHANGED <<slotTask, queue, deferred>>
    <2>1. Posted'
      BY <1>1, <1>3, <1>5 DEF Posted, Gone
    <2>2. ASSUME NEW r \in Req
          PROVE  Moved(r)
      <3>1. Unit(mhand, r) = 0 /\ Unit(mhand', r) = 0
        BY <1>1, NoCopy DEF Unit, Here
      <3>. QED  BY <1>1, <1>5, <3>1, Redistributed DEF HeldNow, Held
    <2>. QED  BY <1>1, <2>1, <2>2, SameClients
  <1>6. ASSUME NEW s \in Slot, slotTask[s] = mhand.id, release(s)
        PROVE  Posted' /\ Accounts'
    <2>1. slotTask' = [slotTask EXCEPT ![s] = NoReq] /\ pop_deferred_task(s)
      BY <1>6 DEF release
    <2>2. slotTask' \in [Slot -> Req \cup {NoReq}]
      BY <1>4, <2>1, Released
    <2>3. queue' \in Seq(Tasks(Gone)) /\ deferred' \in Seq(Tasks(Gone))
      BY <1>4, <2>1, PopDeferred
    <2>4. Posted'
      BY <1>1, <1>3, <2>2, <2>3 DEF Posted, Gone
    <2>5. ASSUME NEW r \in Req
          PROVE  Moved(r)
      <3>1. Unit(mhand, r) = 0 /\ Unit(mhand', r) = 0
        BY <1>1, NoCopy DEF Unit, Here
      <3>2. Count(queue', r) + Count(deferred', r) = Count(queue, r) + Count(deferred, r)
        BY <1>4, <2>1, PopDeferred
      <3>3. Cardinality(SlotsOf(slotTask', r))
              = Cardinality(SlotsOf(slotTask, r)) - (IF r = slotTask[s] THEN 1 ELSE 0)
        BY <1>4, <2>1, Released
      <3>4. CASE r # mhand.id
        <4>1. Cardinality(SlotsOf(slotTask', r)) = Cardinality(SlotsOf(slotTask, r))
          BY <1>6, <3>3, <3>4, Parts
        <4>2. HeldNow(r)' = HeldNow(r)
          BY <1>1, <2>4, <3>1, <3>2, <4>1, Parts, PartsNext DEF HeldNow, Held
        <4>. QED  BY <1>1, <4>2, Redistributed
      <3>5. CASE r = mhand.id
        <4>1. Cardinality(SlotsOf(slotTask, r)) >= 1
          BY <1>6, <2>4, <3>3, <3>5, Parts, PartsNext
        <4>2. HeldNow(r) >= 1
          BY <4>1, Parts DEF HeldNow, Held
        <4>3. Total(r) # 0
          BY <4>2, Parts DEF Total
        <4>. QED  BY <1>1, <1>2, <3>5, <4>3 DEF Moved
      <3>. QED  BY <3>4, <3>5
    <2>. QED  BY <1>1, <2>4, <2>5, SameClients
  <1>. QED  BY <1>5, <1>6 DEF HandleCancel

\* Nothing of the ledger changes.
LEMMA QuietLedger ==
    ASSUME Posted, Accounts, at' \in Slot,
           UNCHANGED <<client, waiting, results, queue, deferred, unhandled, mhand, whand,
                       slotTask>>
    PROVE  Posted' /\ Accounts'
  <1>1. Posted'
    BY DEF Posted, Gone
  <1>2. \A r \in Req : Moved(r)
    BY Redistributed DEF HeldNow
  <1>. QED  BY <1>1, <1>2, SameClients

\* Every handler of the main loop.
LEMMA HandleLedger ==
    ASSUME Posted, Accounts, Handle
    PROVE  Posted' /\ Accounts'
  <1>1. CASE HandleWithoutContext
    <2>1. UNCHANGED <<client, waiting, results, queue, deferred, unhandled, mhand, whand,
                      slotTask, at>>
      BY <1>1 DEF HandleWithoutContext, qvars, wvars, svars, cvars
    <2>. QED  BY <2>1, QuietLedger DEF Posted
  <1>2. CASE DeferNoSlot \/ DeferBusySlot \/ DeferResize
    <2>1. /\ defer(mhand) /\ mhand' = NoTask
          /\ UNCHANGED <<client, waiting, results, whand, slotTask, at>>
      BY <1>2 DEF DeferNoSlot, DeferBusySlot, DeferResize, Handled, wvars, svars, cvars
    <2>. QED  BY <2>1, DeferLedger
  <1>3. CASE LaunchFails \/ RejectResize \/ ResizeFails
    <2>1. /\ mhand.type # "CANCEL" /\ send(mhand.id, "error") /\ mhand' = NoTask
          /\ UNCHANGED <<client, waiting, qvars, whand, slotTask, at>>
      BY <1>3 DEF LaunchFails, RejectResize, ResizeFails, Handled, InHand, wvars, svars
    <2>. QED  BY <2>1, HandLedger
  <1>4. CASE Resize
    <2>1. /\ mhand.type # "CANCEL" /\ send(mhand.id, "ok") /\ mhand' = NoTask
          /\ UNCHANGED <<client, waiting, qvars, whand, slotTask, at>>
      BY <1>4 DEF Resize, Handled, InHand, wvars, svars
    <2>. QED  BY <2>1, HandLedger
  <1>5. CASE HandleSlotAction
    <2>1. /\ mhand.type # "CANCEL" /\ mhand' = NoTask
          /\ UNCHANGED <<client, waiting, whand, slotTask, at>>
      BY <1>5 DEF HandleSlotAction, Handled, InHand, SlotKinds, wvars
    <2>2. \/ defer(mhand) /\ UNCHANGED results
          \/ UNCHANGED qvars /\ \E kind \in {"ok", "error"} : send(mhand.id, kind)
      BY <1>5 DEF HandleSlotAction
    <2>3. CASE defer(mhand) /\ UNCHANGED results
      BY <2>1, <2>3, DeferLedger
    <2>4. CASE UNCHANGED qvars /\ \E kind \in {"ok", "error"} : send(mhand.id, kind)
      BY <2>1, <2>4, HandLedger
    <2>. QED  BY <2>2, <2>3, <2>4
  <1>6. CASE HandleAtOnce
    <2>1. /\ mhand.type # "CANCEL" /\ mhand' = NoTask
          /\ UNCHANGED <<client, waiting, qvars, whand, slotTask, at>>
      BY <1>6 DEF HandleAtOnce, Handled, InHand, ReadKinds, wvars, svars
    <2>2. CASE mhand.id # NoReq
      <3>1. send(mhand.id, "ok")
        BY <1>6, <2>2 DEF HandleAtOnce
      <3>. QED  BY <2>1, <3>1, HandLedger
    <2>3. CASE mhand.id = NoReq
      <3>1. results' = results
        BY <1>6, <2>3 DEF HandleAtOnce
      <3>2. NoTask \in Tasks(Gone)
        BY DEF NoTask, Tasks, Task
      <3>3. Posted'
        BY <2>1, <3>1, <3>2 DEF Posted, Gone, qvars
      <3>4. ASSUME NEW r \in Req
            PROVE  Moved(r)
        <4>1. Unit(mhand, r) = 0 /\ Unit(mhand', r) = 0
          BY <2>1, <2>3, NoCopy, ServerAssumption DEF Unit, Here
        <4>2. HeldNow(r)' = HeldNow(r)
          BY <2>1, <4>1 DEF HeldNow, Held, qvars
        <4>. QED  BY <3>1, <4>2, Redistributed
      <3>. QED  BY <2>1, <3>3, <3>4, SameClients
    <2>. QED  BY <2>2, <2>3
  <1>. QED
    BY <1>1, <1>2, <1>3, <1>4, <1>5, <1>6, LaunchLedger, CancelLedger DEF Handle

\* A slot's task is answered and the slot released.
LEMMA FinishLedger ==
    ASSUME Posted, Accounts, NEW kind \in {"ok", "error"}, send(slotTask[at], kind), release(at),
           at' \in Slot, UNCHANGED <<client, waiting, unhandled, mhand, whand>>
    PROVE  Posted' /\ Accounts'
  <1>1. /\ queue \in Seq(Tasks(Gone)) /\ deferred \in Seq(Tasks(Gone)) /\ at \in Slot
        /\ slotTask \in [Slot -> Req \cup {NoReq}]
        /\ results \subseteq Result /\ waiting \subseteq Req
    BY DEF Posted, Accounts
  <1>2. slotTask' = [slotTask EXCEPT ![at] = NoReq] /\ pop_deferred_task(at)
    BY DEF release
  <1>3. slotTask' \in [Slot -> Req \cup {NoReq}]
    BY <1>1, <1>2, Released
  <1>4. queue' \in Seq(Tasks(Gone)) /\ deferred' \in Seq(Tasks(Gone))
    BY <1>1, <1>2, PopDeferred
  <1>5. results' \subseteq Result
    BY <1>1, Sent
  <1>6. Posted'
    BY <1>3, <1>4, <1>5 DEF Posted, Gone
  <1>7. ASSUME NEW r \in Req
        PROVE  Moved(r)
    <2>1. Count(queue', r) + Count(deferred', r) = Count(queue, r) + Count(deferred, r)
      BY <1>1, <1>2, PopDeferred
    <2>2. Cardinality(SlotsOf(slotTask', r))
            = Cardinality(SlotsOf(slotTask, r)) - (IF r = slotTask[at] THEN 1 ELSE 0)
      BY <1>1, <1>2, Released
    <2>. DEFINE one == IF r = slotTask[at] THEN 1 ELSE 0
    <2>3. /\ Unit(mhand', r) = Unit(mhand, r) /\ Unit(whand', r) = Unit(whand, r)
          /\ Count(unhandled', r) = Count(unhandled, r) /\ one \in {0, 1}
      OBVIOUS
    <2>. HIDE DEF one
    <2>4. HeldNow(r)' = HeldNow(r) - one
      <3>1. Cardinality(SlotsOf(slotTask', r)) = Cardinality(SlotsOf(slotTask, r)) - one
        BY <2>2 DEF one
      <3>. QED  BY <1>6, <2>1, <2>3, <3>1, Parts, PartsNext DEF HeldNow, Held
    <2>. QED  BY <1>6, <2>4, Answered DEF one
  <1>. QED  BY <1>6, <1>7, SameClients

\* update_slots and the decode.
LEMMA UpdateLedger ==
    ASSUME Posted, Hands, Accounts, Update
    PROVE  Posted' /\ Accounts'
  <1>1. /\ at \in Slot /\ (at + 1) % NSlots \in Slot /\ 0 \in Slot
        /\ queue \in Seq(Tasks(Gone)) /\ unhandled \in Seq(Tasks(Gone))
    BY ServerAssumption DEF Posted, Slot
  <1>2. CASE UpdateSlots
    <2>1. UNCHANGED <<client, waiting, results, deferred, unhandled, mhand, whand, slotTask, at>>
      BY <1>2 DEF UpdateSlots, wvars, svars, cvars
    <2>2. CASE UNCHANGED queue
      BY <1>1, <2>1, <2>2, QuietLedger
    <2>3. CASE queue' = Append(queue, NextResponse)
      <3>1. NextResponse \in Tasks(Gone)
        BY DEF NextResponse, Tasks, Task
      <3>2. ASSUME NEW r
            PROVE  /\ queue' \in Seq(Tasks(Gone))
                   /\ Count(queue', r) = Count(queue, r) + Unit(NextResponse, r)
        BY <1>1, <2>3, <3>1, CountAppend
      <3>3. Posted'
        BY <2>1, <3>2 DEF Posted, Gone
      <3>4. ASSUME NEW r \in Req
            PROVE  Moved(r)
        <4>1. Count(queue', r) = Count(queue, r)
          BY <3>2, NoCopy, Parts
        <4>2. HeldNow(r)' = HeldNow(r)
          BY <2>1, <4>1 DEF HeldNow, Held
        <4>. QED  BY <2>1, <4>2, Redistributed
      <3>. QED  BY <2>1, <3>3, <3>4, SameClients
    <2>. QED  BY <1>2, <2>2, <2>3 DEF UpdateSlots
  <1>3. CASE PreThrows \/ BeginYield \/ DecodeDone \/ try_clear_idle_slots
    <2>1. /\ UNCHANGED <<client, waiting, results, queue, deferred, unhandled, mhand, whand,
                         slotTask>>
          /\ at' \in Slot
      BY <1>1, <1>3 DEF PreThrows, BeginYield, DecodeDone, try_clear_idle_slots, qvars, wvars,
                        svars, cvars
    <2>. QED  BY <2>1, QuietLedger
  <1>4. CASE Join
    <2>1. /\ UNCHANGED <<client, waiting, results, deferred, mhand, whand, slotTask, at>>
          /\ queue' = unhandled \o queue /\ unhandled' = <<>>
      BY <1>4 DEF Join, wvars, svars, cvars
    <2>2. ASSUME NEW r
          PROVE  /\ queue' \in Seq(Tasks(Gone)) /\ unhandled' \in Seq(Tasks(Gone))
                 /\ Count(queue', r) = Count(unhandled, r) + Count(queue, r)
                 /\ Count(unhandled', r) = 0
      <3>1. <<>> \in Seq(Tasks(Gone)) /\ Count(<<>>, r) = 0
        BY EmptySeq, CountOne, Zenon
      <3>2. unhandled \o queue \in Seq(Tasks(Gone))
        BY <1>1
      <3>3. Count(unhandled \o queue, r) = Count(unhandled, r) + Count(queue, r)
        BY <1>1, CountConcat
      <3>. QED  BY <2>1, <3>1, <3>2, <3>3
    <2>3. Posted'
      BY <2>1, <2>2 DEF Posted, Gone
    <2>4. ASSUME NEW r \in Req
          PROVE  Moved(r)
      <3>1. HeldNow(r)' = HeldNow(r)
        BY <2>1, <2>2, <2>3, Parts, PartsNext DEF HeldNow, Held
      <3>. QED  BY <2>1, <3>1, Redistributed
    <2>. QED  BY <2>1, <2>3, <2>4, SameClients
  <1>5. CASE PreSlot \/ PostSlot \/ abort_all_slots
    <2>1. at' \in Slot /\ UNCHANGED <<mhand, whand>>
      BY <1>1, <1>5 DEF PreSlot, PostSlot, abort_all_slots, Visit, wvars
    <2>2. \/ UNCHANGED <<client, waiting, results, queue, deferred, unhandled, slotTask>>
          \/ /\ \E kind \in {"ok", "error"} : send(slotTask[at], kind)
             /\ release(at) /\ UNCHANGED <<client, waiting, unhandled>>
      BY <1>5 DEF PreSlot, PostSlot, abort_all_slots, Finish, qvars, svars, cvars
    <2>. QED  BY <2>1, <2>2, QuietLedger, FinishLedger
  <1>. QED  BY <1>2, <1>3, <1>4, <1>5 DEF Update

\* The worker.
LEMMA WorkerLedger ==
    ASSUME Posted, Hands, Accounts, Worker
    PROVE  Posted' /\ Accounts'
  <1>1. /\ at \in Slot /\ queue \in Seq(Tasks(Gone)) /\ unhandled \in Seq(Tasks(Gone))
        /\ whand \in Tasks(Gone) /\ results \subseteq Result /\ waiting \subseteq Req
    BY DEF Posted, Accounts
  <1>2. NoTask \in Tasks(Gone)
    BY DEF NoTask, Tasks, Task
  <1>3. CASE WorkerStart \/ WorkerCheck \/ WorkerWait
    <2>1. UNCHANGED <<client, waiting, results, queue, deferred, unhandled, mhand, whand,
                      slotTask, at>>
      BY <1>3 DEF WorkerStart, WorkerCheck, WorkerWait, WorkerVars, Hands, qvars, mvars, svars,
                  cvars
    <2>. QED  BY <1>1, <2>1, QuietLedger
  <1>4. CASE WorkerPop
    <2>1. /\ whand = NoTask
          /\ UNCHANGED <<client, waiting, results, deferred, unhandled, mhand, slotTask, at>>
      BY <1>4 DEF WorkerPop, Hands, mvars, svars, cvars
    <2>2. CASE queue = <<>>
      <3>1. UNCHANGED <<queue, whand>>
        BY <1>4, <2>1, <2>2 DEF WorkerPop, WorkerVars
      <3>. QED  BY <1>1, <2>1, <3>1, QuietLedger
    <2>3. CASE queue # <<>>
      <3>1. whand' = Head(queue) /\ queue' = Tail(queue)
        BY <1>4, <2>3 DEF WorkerPop, WorkerVars
      <3>2. ASSUME NEW r
            PROVE  /\ whand' \in Tasks(Gone) /\ queue' \in Seq(Tasks(Gone))
                   /\ Count(queue, r) = Count(queue', r) + Unit(whand', r)
        BY <1>1, <2>3, <3>1, CountTail
      <3>3. Posted'
        BY <2>1, <3>2 DEF Posted, Gone
      <3>4. ASSUME NEW r \in Req
            PROVE  Moved(r)
        <4>1. Count(queue, r) = Count(queue', r) + Unit(whand', r) /\ Unit(whand, r) = 0
          BY <2>1, <3>2, NoCopy
        <4>2. HeldNow(r)' = HeldNow(r)
          BY <2>1, <3>3, <4>1, Parts, PartsNext DEF HeldNow, Held
        <4>. QED  BY <2>1, <4>2, Redistributed
      <3>. QED  BY <2>1, <3>3, <3>4, SameClients
    <2>. QED  BY <2>2, <2>3
  <1>5. CASE WorkerHandle /\ whand.type \in ReadKinds
    <2>1. /\ whand' = NoTask /\ send(whand.id, "ok")
          /\ UNCHANGED <<client, waiting, queue, deferred, unhandled, mhand, slotTask, at>>
      BY <1>5 DEF WorkerHandle, WorkerVars, mvars, svars
    <2>2. results' \subseteq Result
      BY <1>1, <2>1, Sent
    <2>3. Posted'
      BY <1>2, <2>1, <2>2 DEF Posted, Gone
    <2>4. ASSUME NEW r \in Req
          PROVE  Moved(r)
      <3>1. Unit(whand, r) = (IF r = whand.id THEN 1 ELSE 0) /\ Unit(whand', r) = 0
        BY <1>5, <2>1, NoCopy DEF Unit, Here, ReadKinds
      <3>2. HeldNow(r)' = HeldNow(r) - (IF r = whand.id THEN 1 ELSE 0)
        <4>1. HeldNow(r) = HeldNow(r)' + Unit(whand, r)
          BY <2>1, <2>3, <3>1, Parts, PartsNext DEF HeldNow, Held
        <4>. QED  BY <2>3, <3>1, <4>1, Parts, PartsNext
      <3>. QED  BY <2>1, <2>3, <3>2, Answered
    <2>. QED  BY <2>1, <2>3, <2>4, SameClients
  <1>6. CASE WorkerHandle /\ whand.type \notin ReadKinds
    <2>1. /\ whand' = NoTask /\ unhandled' = Append(unhandled, whand)
          /\ UNCHANGED <<client, waiting, results, queue, deferred, mhand, slotTask, at>>
      BY <1>6 DEF WorkerHandle, WorkerVars, mvars, svars
    <2>2. ASSUME NEW r
          PROVE  /\ unhandled' \in Seq(Tasks(Gone))
                 /\ Count(unhandled', r) = Count(unhandled, r) + Unit(whand, r)
      BY <1>1, <2>1, CountAppend
    <2>3. Posted'
      BY <1>2, <2>1, <2>2 DEF Posted, Gone
    <2>4. ASSUME NEW r \in Req
          PROVE  Moved(r)
      <3>1. Unit(whand', r) = 0
        BY <2>1, NoCopy
      <3>2. /\ Count(queue', r) = Count(queue, r) /\ Count(deferred', r) = Count(deferred, r)
            /\ Unit(mhand', r) = Unit(mhand, r) /\ SlotsOf(slotTask', r) = SlotsOf(slotTask, r)
        BY <2>1
      <3>3. HeldNow(r)' = HeldNow(r)
        <4>. DEFINE a == Count(queue, r)
                    b == Count(deferred, r)
                    c == Count(unhandled, r)
                    e == Unit(mhand, r)
                    f == Unit(whand, r)
                    g == Cardinality(SlotsOf(slotTask, r))
        <4>1. HeldNow(r) = a + b + c + e + f + g
          BY DEF HeldNow, Held
        <4>2. HeldNow(r)' = a + b + (c + f) + e + 0 + g
          BY <2>2, <3>1, <3>2 DEF HeldNow, Held
        <4>3. a \in Nat /\ b \in Nat /\ c \in Nat /\ e \in Nat /\ f \in Nat /\ g \in Nat
          BY Parts
        <4>. HIDE DEF a, b, c, e, f, g
        <4>. QED  BY <4>1, <4>2, <4>3
      <3>. QED  BY <2>1, <3>3, Redistributed
    <2>. QED  BY <2>1, <2>3, <2>4, SameClients
  <1>. QED  BY <1>3, <1>4, <1>5, <1>6 DEF Worker

\* Tasks stay posted while more clients leave.
LEMMA TasksMonotone ==
    ASSUME NEW g, NEW h, g \subseteq h
    PROVE  Tasks(g) \subseteq Tasks(h) /\ \A q \in Seq(Tasks(g)) : q \in Seq(Tasks(h))
  <1>1. Tasks(g) \subseteq Tasks(h)
    BY DEF Tasks
  <1>. QED  BY <1>1, SeqMonotonic

\* One client goes from one place to another; what the others have is untouched.
LEMMA OneClient ==
    ASSUME Posted', Accounts, NEW r \in Req, NEW place \in Places,
           client \in [Req -> Places], client' = [client EXCEPT ![r] = place],
           waiting' = (IF place = "waiting" THEN waiting \cup {r} ELSE waiting \ {r}),
           \A o \in Req \ {r} : /\ Total(o)' = Total(o)
                                /\ AnswersIn(results', o) = AnswersIn(results, o),
           place \in {"new", "waking", "ready"} => Total(r)' = 0,
           place = "waiting" => Total(r)' = 1,
           AnswersIn(results', r) # {} => place \in {"waiting", "leaving"}
    PROVE  Accounts'
  <1>1. /\ client'[r] = place
        /\ \A o \in Req \ {r} : client'[o] = client[o]
    OBVIOUS
  <1>2. waiting' = {o \in Req : client'[o] = "waiting"}
    BY <1>1 DEF Accounts
  <1>3. ASSUME NEW o \in Req, client'[o] \in {"new", "waking", "ready"}
        PROVE  Total(o)' = 0
    BY <1>1, <1>3 DEF Accounts
  <1>4. ASSUME NEW o \in waiting'
        PROVE  Total(o)' = 1
    <2>1. o \in Req /\ client'[o] = "waiting"
      BY <1>2, <1>4
    <2>2. CASE o = r
      BY <1>1, <2>1, <2>2
    <2>3. CASE o # r
      BY <1>1, <2>1, <2>3 DEF Accounts
    <2>. QED  BY <2>2, <2>3
  <1>5. NoResultLeaked'
    <2>. SUFFICES ASSUME NEW o \in Req, AnswersIn(results', o) # {}
                  PROVE  client'[o] \in {"waiting", "leaving"}
      BY DEF NoResultLeaked, Answers, AnswersIn
    <2>1. CASE o = r
      BY <1>1, <2>1
    <2>2. CASE o # r
      BY <1>1, <2>2 DEF Accounts, NoResultLeaked, Answers, AnswersIn
    <2>. QED  BY <2>1, <2>2
  <1>. QED  BY <1>2, <1>3, <1>4, <1>5 DEF Accounts

\* The HTTP threads.
LEMMA ClientLedger ==
    ASSUME Posted, Accounts, NEW r \in Req, CheckAwake(r) \/ Client(r) \/ Disconnect(r)
    PROVE  Posted' /\ Accounts'
  <1>0. /\ UNCHANGED <<mhand, whand, slotTask, at>>
        /\ client \in [Req -> Places] /\ queue \in Seq(Tasks(Gone)) /\ results \subseteq Result
        /\ waiting = {o \in Req : client[o] = "waiting"}
    BY ClientsLeaveThreads DEF Posted, Accounts, mvars, wvars, svars
  <1>1. CASE CheckAwake(r) \/ Awakened(r) \/ Disconnect(r) \/ ReceiveOk(r) \/ ReceiveError(r)
    <2>1. UNCHANGED <<queue, deferred, unhandled>>
      BY <1>1 DEF CheckAwake, Awakened, Disconnect, ReceiveOk, ReceiveError, qvars
    <2>2. PICK place \in Places \ {"new", "waiting", "gone"} :
            client' = [client EXCEPT ![r] = place]
      BY <1>1 DEF CheckAwake, Awakened, Disconnect, ReceiveOk, ReceiveError, Places
    <2>3. client[r] # "gone" /\ client[r] # place
      BY <1>0, <1>1, <2>2 DEF CheckAwake, Awakened, Disconnect, ReceiveOk, ReceiveError
    <2>4. Gone' = Gone
      BY <1>0, <2>2, <2>3 DEF Gone
    <2>5. results' \subseteq results
      BY <1>1 DEF CheckAwake, Awakened, Disconnect, ReceiveOk, ReceiveError
    <2>6. client' \in [Req -> Places]
      BY <1>0, <2>2
    <2>7. Posted'
      BY <1>0, <2>1, <2>4, <2>5, <2>6 DEF Posted
    <2>8. \A o \in Req : HeldNow(o)' = HeldNow(o)
      BY <1>0, <2>1 DEF HeldNow
    <2>9. \A o \in Req \ {r} : AnswersIn(results', o) = AnswersIn(results, o)
      BY <1>1 DEF AnswersIn, CheckAwake, Awakened, Disconnect, ReceiveOk, ReceiveError
    <2>10. \A o \in Req \ {r} : Total(o)' = Total(o)
      BY <2>8, <2>9 DEF Total
    <2>11. waiting' = waiting \ {r}
      BY <1>0, <1>1, <2>2 DEF CheckAwake, Awakened, Disconnect, ReceiveOk, ReceiveError
    <2>12. CASE CheckAwake(r) \/ Awakened(r)
      <3>1. client[r] \in {"new", "waking"} /\ results' = results
        BY <2>12 DEF CheckAwake, Awakened
      <3>2. Total(r) = 0 /\ Total(r)' = 0
        BY <2>8, <3>1 DEF Accounts, Total
      <3>3. AnswersIn(results', r) = {}
        BY <3>1 DEF Accounts, NoResultLeaked, Answers, AnswersIn
      <3>. QED  BY <1>0, <2>2, <2>7, <2>9, <2>10, <2>11, <3>2, <3>3, OneClient
    <2>13. CASE Disconnect(r) \/ ReceiveError(r)
      <3>1. client' = [client EXCEPT ![r] = "leaving"]
        BY <2>13 DEF Disconnect, ReceiveError
      <3>. QED  BY <1>0, <2>7, <2>9, <2>10, <2>11, <3>1, OneClient DEF Places
    <2>14. CASE ReceiveOk(r)
      <3>. DEFINE ok == [id |-> r, kind |-> "ok"]
      <3>1. /\ client' = [client EXCEPT ![r] = "done"] /\ r \in waiting
            /\ ok \in AnswersIn(results, r) /\ results' = results \ {ok}
        BY <1>0, <2>14 DEF ReceiveOk, AnswersIn
      <3>. HIDE DEF ok
      <3>2. Total(r) = 1
        BY <3>1 DEF Accounts
      <3>3. /\ HeldNow(r) \in Nat /\ IsFiniteSet(AnswersIn(results, r))
            /\ Cardinality(AnswersIn(results, r)) \in Nat
        BY Parts
      <3>4. Cardinality(AnswersIn(results, r)) # 0
        BY <3>1, <3>3, FS_EmptySet
      <3>5. Cardinality(AnswersIn(results, r)) = 1
        BY <3>2, <3>3, <3>4 DEF Total
      <3>6. AnswersIn(results, r) = {ok}
        BY <3>1, <3>3, <3>5, FS_Singleton
      <3>7. AnswersIn(results', r) = {}
        BY <3>1, <3>6 DEF AnswersIn
      <3>. QED  BY <1>0, <2>7, <2>9, <2>10, <2>11, <3>1, <3>7, OneClient DEF Places
    <2>. QED  BY <1>1, <2>12, <2>13, <2>14
  <1>2. CASE post_task(r)
    <2>1. /\ client[r] = "ready" /\ client' = [client EXCEPT ![r] = "waiting"]
          /\ waiting' = waiting \cup {r} /\ UNCHANGED <<deferred, unhandled, results>>
      BY <1>2 DEF post_task
    <2>2. PICK k \in KindsOf[r] : queue' = Append(queue, [type |-> k, id |-> r])
      BY <1>2 DEF post_task
    <2>. DEFINE t == [type |-> k, id |-> r]
    <2>3. k \in Kinds
      BY <2>2, ServerAssumption
    <2>4. t \in Tasks(Gone) /\ Unit(t, r) = 1 /\ \A o \in Req \ {r} : Unit(t, o) = 0
      BY <2>3, ServerAssumption DEF Tasks, Task, Unit, Here, Kinds, SlotKinds, ReadKinds
    <2>5. Gone' = Gone /\ client' \in [Req -> Places]
      BY <1>0, <2>1 DEF Gone, Places
    <2>. HIDE DEF t
    <2>6. ASSUME NEW o
          PROVE  queue' \in Seq(Tasks(Gone)) /\ Count(queue', o) = Count(queue, o) + Unit(t, o)
      BY <1>0, <2>2, <2>4, CountAppend DEF t
    <2>7. Posted'
      BY <1>0, <2>1, <2>5, <2>6 DEF Posted
    <2>8. \A o \in Req : HeldNow(o)' = HeldNow(o) + Unit(t, o)
      <3>. TAKE o \in Req
      <3>. DEFINE a == Count(queue, o)
                  b == Count(deferred, o)
                  c == Count(unhandled, o)
                  e == Unit(mhand, o)
                  f == Unit(whand, o)
                  g == Cardinality(SlotsOf(slotTask, o))
                  n == Unit(t, o)
      <3>1. HeldNow(o) = a + b + c + e + f + g
        BY DEF HeldNow, Held
      <3>2. HeldNow(o)' = (a + n) + b + c + e + f + g
        BY <1>0, <2>1, <2>6 DEF HeldNow, Held
      <3>3. /\ a \in Nat /\ b \in Nat /\ c \in Nat /\ e \in Nat /\ f \in Nat /\ g \in Nat
            /\ n \in Nat
        BY Parts DEF Unit
      <3>. HIDE DEF a, b, c, e, f, g, n
      <3>4. HeldNow(o)' = HeldNow(o) + n
        BY <3>1, <3>2, <3>3
      <3>. QED  BY <3>4 DEF n
    <2>9. \A o \in Req \ {r} : /\ Total(o)' = Total(o)
                               /\ AnswersIn(results', o) = AnswersIn(results, o)
      <3>. TAKE o \in Req \ {r}
      <3>1. HeldNow(o)' = HeldNow(o)
        BY <2>4, <2>8, Parts
      <3>. QED  BY <2>1, <3>1 DEF Total
    <2>10. Total(r)' = 1
      <3>1. Total(r) = 0
        BY <2>1 DEF Accounts
      <3>2. HeldNow(r) \in Nat /\ Cardinality(AnswersIn(results, r)) \in Nat
        BY Parts
      <3>3. HeldNow(r) = 0 /\ Cardinality(AnswersIn(results, r)) = 0
        BY <3>1, <3>2 DEF Total
      <3>. QED  BY <2>1, <2>4, <2>8, <3>3 DEF Total
    <2>. QED  BY <1>0, <2>1, <2>7, <2>9, <2>10, OneClient DEF Places
  <1>3. CASE stop(r)
    <2>1. /\ client[r] = "leaving" /\ client' = [client EXCEPT ![r] = "gone"]
          /\ results' = {res \in results : res.id # r} /\ waiting' = waiting
          /\ queue' = <<CancelOf(r)>> \o erase_task(queue, r)
          /\ deferred' = erase_task(deferred, r) /\ unhandled' = erase_task(unhandled, r)
      BY <1>3 DEF stop, cleanup_pending_task
    <2>2. r \notin waiting /\ waiting' = waiting \ {r}
      BY <1>0, <2>1
    <2>3. Gone' = Gone \cup {r} /\ client' \in [Req -> Places]
      BY <1>0, <2>1 DEF Gone, Places
    <2>. DEFINE T == Tasks(Gone')
    <2>4. /\ queue \in Seq(T) /\ deferred \in Seq(T) /\ unhandled \in Seq(T)
          /\ mhand \in T /\ whand \in T
      BY <2>3, TasksMonotone DEF Posted
    <2>5. CancelOf(r) \in T
      BY <2>3, ServerAssumption DEF Tasks, Task, CancelOf
    <2>. HIDE DEF T
    <2>6. ASSUME NEW q \in Seq(T)
          PROVE  /\ erase_task(q, r) \in Seq(T)
                 /\ \A o \in Req \ {r} : Count(erase_task(q, r), o) = Count(q, o)
      BY CountErase
    <2>7. queue' \in Seq(T)
      <3>1. erase_task(queue, r) \in Seq(T)
        BY <2>4, <2>6
      <3>. QED  BY <2>1, <2>5, <3>1, CountPush
    <2>8. results' \subseteq Result
      BY <1>0, <2>1
    <2>9. Posted'
      BY <1>0, <2>1, <2>3, <2>4, <2>6, <2>7, <2>8 DEF Posted, T
    <2>10. \A o \in Req \ {r} : HeldNow(o)' = HeldNow(o)
      <3>. TAKE o \in Req \ {r}
      <3>1. /\ Count(deferred', o) = Count(deferred, o)
            /\ Count(unhandled', o) = Count(unhandled, o)
        BY <2>1, <2>4, <2>6
      <3>2. Count(queue', o) = Count(queue, o)
        <4>1. erase_task(queue, r) \in Seq(T) /\ Count(erase_task(queue, r), o) = Count(queue, o)
          BY <2>4, <2>6
        <4>2. Count(queue', o) = Count(erase_task(queue, r), o) + Unit(CancelOf(r), o)
          BY <2>1, <2>5, <4>1, CountPush
        <4>3. Unit(CancelOf(r), o) = 0
          BY NoCopy
        <4>. QED  BY <4>1, <4>2, <4>3, Parts
      <3>. QED  BY <1>0, <3>1, <3>2 DEF HeldNow, Held
    <2>11. \A o \in Req \ {r} : AnswersIn(results', o) = AnswersIn(results, o)
      BY <2>1 DEF AnswersIn
    <2>12. \A o \in Req \ {r} : Total(o)' = Total(o)
      BY <2>10, <2>11 DEF Total
    <2>13. AnswersIn(results', r) = {}
      BY <2>1 DEF AnswersIn
    <2>. QED  BY <1>0, <2>1, <2>2, <2>9, <2>11, <2>12, <2>13, OneClient DEF Places
  <1>. QED  BY <1>1, <1>2, <1>3 DEF Client

\* erase on an empty deque.
LEMMA EraseEmpty ==
    ASSUME NEW r
    PROVE  erase_task(<<>>, r) = <<>>
  <1>1. <<>> \in Seq({})
    OBVIOUS
  <1>2. erase_task(<<>>, r) \in Seq({})
    BY <1>1, CountErase
  <1>3. \A q \in Seq({}) : q = <<>>
    BY EmptySeq
  <1>. QED  BY <1>2, <1>3

\* Hands are emptied and what is set aside is put back.
LEMMA HandsNext ==
    ASSUME Hands, HandOver, [Next]_vars
    PROVE  Hands'
  <1>. USE DEF Hands
  <1>1. CASE Handle
    <2>1. /\ mpc = "handle"
          /\ mpc' = "crashed" \/ (mpc' = "process" /\ mhand' = NoTask)
          /\ UNCHANGED <<wpc, whand>>
      BY <1>1 DEF Handle, HandleWithoutContext, DeferNoSlot, DeferBusySlot, Launch, LaunchFails,
             HandleCancel, HandleSlotAction, HandleAtOnce, DeferResize, RejectResize, Resize,
             ResizeFails, Handled, InHand, wvars
    <2>2. unhandled' = unhandled
      BY <1>1 DEF Handle, HandleWithoutContext, DeferNoSlot, DeferBusySlot, Launch, LaunchFails,
             HandleCancel, HandleSlotAction, HandleAtOnce, DeferResize, RejectResize, Resize,
             ResizeFails, defer, qvars
    <2>. QED  BY <2>1, <2>2
  <1>2. CASE Update
    <2>1. mpc \notin {"handle", "crashed"} /\ UNCHANGED <<mhand, wpc, whand>>
      BY <1>2 DEF Update, UpdateSlots, PreSlot, PreThrows, BeginYield, DecodeDone, Join, PostSlot,
             try_clear_idle_slots, abort_all_slots, Visit, wvars
    <2>2. CASE Join
      BY <2>1, <2>2 DEF Join
    <2>3. CASE BeginYield \/ DecodeDone
      BY <2>1, <2>3 DEF BeginYield, DecodeDone, qvars
    <2>4. CASE UpdateSlots \/ PreThrows \/ try_clear_idle_slots
      BY <2>1, <2>4 DEF UpdateSlots, PreThrows, try_clear_idle_slots, qvars
    <2>5. CASE PreSlot \/ PostSlot \/ abort_all_slots
      <3>1. mpc \in {"pre", "post", "abort"} /\ mpc' \in {"pre", "post", "abort", "yield", "wait"}
        BY <2>5 DEF PreSlot, PostSlot, abort_all_slots, Visit
      <3>2. unhandled' = unhandled
        BY <2>5 DEF PreSlot, PostSlot, abort_all_slots, Finish, qvars
      <3>. QED  BY <2>1, <3>1, <3>2
    <2>. QED  BY <1>2, <2>2, <2>3, <2>4, <2>5 DEF Update
  <1>3. CASE Worker
    <2>1. mpc \in {"decode", "join"} /\ UNCHANGED <<mpc, mhand>>
      BY <1>3 DEF Worker, WorkerStart, WorkerPop, WorkerHandle, WorkerCheck, WorkerWait,
                  HandOver, mvars
    <2>2. wpc' # "hand" => whand' = NoTask
      BY <1>3 DEF Worker, WorkerStart, WorkerPop, WorkerHandle, WorkerCheck, WorkerWait, WorkerVars
    <2>. QED  BY <2>1, <2>2
  <1>4. CASE MainPop \/ MainWait \/ WakeUp \/ FallAsleep
    BY <1>4 DEF MainPop, MainWait, WakeUp, FallAsleep, qvars, wvars
  <1>5. ASSUME NEW r \in Req, CheckAwake(r) \/ Client(r) \/ Disconnect(r)
        PROVE  Hands'
    <2>1. UNCHANGED <<mpc, mhand, wpc, whand>>
      BY <1>5, ClientsLeaveThreads DEF mvars, wvars
    <2>2. unhandled = <<>> => unhandled' = <<>>
      BY <1>5, EraseEmpty
      DEF CheckAwake, Client, Awakened, post_task, ReceiveOk, ReceiveError, stop, Disconnect,
          cleanup_pending_task, qvars
    <2>. QED  BY <2>1, <2>2
  <1>6. CASE UNCHANGED vars
    BY <1>6 DEF vars, qvars, mvars, wvars
  <1>. QED  BY <1>1, <1>2, <1>3, <1>4, <1>5, <1>6 DEF Next, Main

\* The NEXT_RESPONSE of a busy slot is not lost, wherever the worker or a client
\* that leaves meets it.
LEMMA DrivenNext ==
    ASSUME Posted, Hands, HandOver, Driven, [Next]_vars
    PROVE  Driven'
  <1>0. /\ queue \in Seq(Tasks(Gone)) /\ deferred \in Seq(Tasks(Gone))
        /\ unhandled \in Seq(Tasks(Gone))
        /\ whand \in Tasks(Gone) /\ slotTask \in [Slot -> Req \cup {NoReq}] /\ at \in Slot
        /\ Count(queue, NoReq) \in Nat /\ Count(unhandled, NoReq) \in Nat
        /\ Unit(whand, NoReq) \in {0, 1}
    BY Parts DEF Posted
  <1>1. CASE Handle \/ MainPop \/ MainWait \/ WakeUp
    <2>1. mpc' \notin Rounds \cup {"asleep"}
      BY <1>1 DEF Handle, HandleWithoutContext, DeferNoSlot, DeferBusySlot, Launch, LaunchFails,
             HandleCancel, HandleSlotAction, HandleAtOnce, DeferResize, RejectResize, Resize,
             ResizeFails, Handled, MainPop, MainWait, WakeUp, Rounds
    <2>. QED  BY <2>1 DEF Driven
  <1>2. CASE Busy' \subseteq Busy /\ mpc \in Rounds /\ mpc' \in Rounds
               /\ Pulse(queue, unhandled, wpc, whand)' >= Pulse(queue, unhandled, wpc, whand)
               /\ Pulse(queue, unhandled, wpc, whand)' \in Int
    <2>1. Pulse(queue, unhandled, wpc, whand) \in Nat
      BY <1>0 DEF Pulse
    <2>2. mpc' # "asleep"
      BY <1>2 DEF Rounds
    <2>3. ASSUME Busy' # {}
          PROVE  Pulse(queue, unhandled, wpc, whand)' >= 1
      <3>1. Pulse(queue, unhandled, wpc, whand) >= 1
        BY <1>2, <2>3 DEF Driven
      <3>. HIDE DEF Driven
      <3>. QED  BY <1>2, <2>1, <3>1
    <2>. QED  BY <2>2, <2>3 DEF Driven
  <1>3. CASE UpdateSlots
    <2>1. slotTask' = slotTask /\ unhandled' = unhandled /\ wpc' = wpc /\ whand' = whand
      BY <1>3 DEF UpdateSlots, wvars, svars
    <2>2. Busy' = Busy
      BY <2>1 DEF Busy, is_processing
    <2>3. CASE Busy = {}
      BY <1>3, <2>2, <2>3 DEF Driven, UpdateSlots
    <2>4. CASE Busy # {}
      <3>1. queue' = Append(queue, NextResponse) /\ mpc' = "pre"
        BY <1>3, <2>4 DEF UpdateSlots
      <3>2. NextResponse \in Tasks(Gone) /\ Unit(NextResponse, NoReq) = 1
        BY DEF NextResponse, Tasks, Task, Unit, Here
      <3>3. Count(queue', NoReq) = Count(queue, NoReq) + 1
        BY <1>0, <3>1, <3>2, CountAppend
      <3>4. Pulse(queue', unhandled', wpc', whand') >= 1
        BY <1>0, <2>1, <3>3 DEF Pulse
      <3>. QED  BY <3>1, <3>4 DEF Driven
    <2>. QED  BY <2>3, <2>4
  <1>4. CASE PreThrows \/ BeginYield \/ DecodeDone \/ try_clear_idle_slots
    <2>1. UNCHANGED <<slotTask, queue, unhandled, wpc, whand>> /\ mpc \in Rounds /\ mpc' \in Rounds
      BY <1>4 DEF PreThrows, BeginYield, DecodeDone, try_clear_idle_slots, qvars, wvars, svars,
                  Rounds
    <2>2. Busy' = Busy /\ Pulse(queue, unhandled, wpc, whand)' = Pulse(queue, unhandled, wpc, whand)
      BY <2>1 DEF Busy, is_processing, Pulse
    <2>3. mpc' # "asleep"
      BY <2>1 DEF Rounds
    <2>. QED  BY <2>1, <2>2, <2>3 DEF Driven
  <1>5. CASE Join
    <2>1. /\ UNCHANGED <<slotTask, wpc, whand>> /\ queue' = unhandled \o queue /\ unhandled' = <<>>
          /\ mpc \in Rounds /\ mpc' \in Rounds
      BY <1>5 DEF Join, wvars, svars, Rounds
    <2>2. Busy' = Busy
      BY <2>1 DEF Busy, is_processing
    <2>3. /\ Count(queue', NoReq) = Count(unhandled, NoReq) + Count(queue, NoReq)
          /\ Count(unhandled', NoReq) = 0
      <3>1. Count(<<>>, NoReq) = 0
        BY CountOne, Zenon
      <3>2. Count(unhandled \o queue, NoReq) = Count(unhandled, NoReq) + Count(queue, NoReq)
        BY <1>0, CountConcat
      <3>. QED  BY <2>1, <3>1, <3>2
    <2>4. Pulse(queue, unhandled, wpc, whand)' = Pulse(queue, unhandled, wpc, whand)
      BY <1>0, <2>1, <2>3 DEF Pulse
    <2>5. mpc' # "asleep"
      BY <2>1 DEF Rounds
    <2>. QED  BY <2>1, <2>2, <2>4, <2>5 DEF Driven
  <1>6. CASE PreSlot \/ PostSlot \/ abort_all_slots
    <2>1. /\ UNCHANGED <<unhandled, wpc, whand>> /\ mpc \in Rounds /\ mpc' \in Rounds
      BY <1>6 DEF PreSlot, PostSlot, abort_all_slots, Visit, Finish, qvars, wvars, Rounds
    <2>2. UNCHANGED <<slotTask, queue>> \/ release(at)
      BY <1>6 DEF PreSlot, PostSlot, abort_all_slots, Finish, qvars, svars
    <2>3. /\ Busy' \subseteq Busy
          /\ Count(queue', NoReq) >= Count(queue, NoReq) /\ Count(queue', NoReq) \in Nat
      <3>1. CASE UNCHANGED <<slotTask, queue>>
        BY <1>0, <3>1 DEF Busy, is_processing
      <3>2. CASE release(at)
        <4>1. slotTask' = [slotTask EXCEPT ![at] = NoReq] /\ pop_deferred_task(at)
          BY <3>2 DEF release
        <4>2. Busy' \subseteq Busy
          BY <1>0, <4>1, Released
        <4>3. queue' \in Seq(Tasks(Gone)) /\ Count(queue', NoReq) >= Count(queue, NoReq)
          BY <1>0, <4>1, PopDeferred
        <4>. QED  BY <4>2, <4>3, CountType
      <3>. QED  BY <2>2, <3>1, <3>2
    <2>4. /\ Pulse(queue, unhandled, wpc, whand)' >= Pulse(queue, unhandled, wpc, whand)
          /\ Pulse(queue, unhandled, wpc, whand)' \in Int
      BY <1>0, <2>1, <2>3 DEF Pulse
    <2>. QED  BY <1>2, <2>1, <2>3, <2>4
  <1>7. CASE FallAsleep
    <2>1. mpc = "wait" /\ queue = <<>> /\ mpc' = "asleep" /\ slotTask' = slotTask
      BY <1>7 DEF FallAsleep
    <2>2. unhandled = <<>> /\ wpc = "idle"
      BY <2>1 DEF Hands, HandOver
    <2>3. Pulse(queue, unhandled, wpc, whand) = 0
      <3>1. Count(<<>>, NoReq) = 0
        BY CountOne, Zenon
      <3>. QED  BY <2>1, <2>2, <3>1 DEF Pulse
    <2>4. Busy = {} /\ Busy' = Busy
      BY <2>1, <2>3 DEF Driven, Rounds, Busy, is_processing
    <2>. QED  BY <2>1, <2>4 DEF Driven, Rounds
  <1>8. CASE Worker
    <2>1. /\ mpc \in {"decode", "join"} /\ UNCHANGED <<mpc, slotTask>>
      BY <1>8 DEF Worker, WorkerStart, WorkerPop, WorkerHandle, WorkerCheck, WorkerWait,
                  HandOver, mvars, svars
    <2>2. Busy' = Busy /\ mpc \in Rounds /\ mpc' \in Rounds
      BY <2>1 DEF Busy, is_processing, Rounds
    <2>3. Pulse(queue, unhandled, wpc, whand)' = Pulse(queue, unhandled, wpc, whand)
      <3>1. CASE WorkerStart \/ WorkerCheck \/ WorkerWait
        BY <3>1 DEF WorkerStart, WorkerCheck, WorkerWait, WorkerVars, qvars, Pulse
      <3>2. CASE WorkerPop
        <4>1. wpc = "run" /\ unhandled' = unhandled
          BY <3>2 DEF WorkerPop
        <4>2. CASE queue = <<>>
          BY <3>2, <4>1, <4>2 DEF WorkerPop, WorkerVars, Pulse
        <4>3. CASE queue # <<>>
          <5>1. wpc' = "hand" /\ whand' = Head(queue) /\ queue' = Tail(queue)
            BY <3>2, <4>3 DEF WorkerPop, WorkerVars
          <5>2. /\ Tail(queue) \in Seq(Tasks(Gone))
                /\ Count(queue, NoReq) = Count(Tail(queue), NoReq) + Unit(Head(queue), NoReq)
            BY <1>0, <4>3, CountTail
          <5>3. Count(queue', NoReq) \in Nat /\ Unit(whand', NoReq) \in {0, 1}
            BY <5>1, <5>2, CountType DEF Unit
          <5>. QED  BY <1>0, <4>1, <5>1, <5>2, <5>3 DEF Pulse
        <4>. QED  BY <4>2, <4>3
      <3>3. CASE WorkerHandle
        <4>1. wpc = "hand" /\ wpc' = "run" /\ queue' = queue
          BY <3>3 DEF WorkerHandle, WorkerVars
        <4>2. CASE whand.type \in ReadKinds
          <5>1. Unit(whand, NoReq) = 0
            BY <1>0, <4>2 DEF Unit, Here, Tasks, ReadKinds
          <5>2. unhandled' = unhandled
            BY <3>3, <4>2 DEF WorkerHandle
          <5>. QED  BY <1>0, <4>1, <5>1, <5>2 DEF Pulse
        <4>3. CASE whand.type \notin ReadKinds
          <5>1. unhandled' = Append(unhandled, whand)
            BY <3>3, <4>3 DEF WorkerHandle
          <5>2. Count(unhandled', NoReq) = Count(unhandled, NoReq) + Unit(whand, NoReq)
            BY <1>0, <5>1, CountAppend
          <5>. QED  BY <1>0, <4>1, <5>2 DEF Pulse
        <4>. QED  BY <4>2, <4>3
      <3>. QED  BY <1>8, <3>1, <3>2, <3>3 DEF Worker
    <2>4. mpc' # "asleep"
      BY <2>1
    <2>. QED  BY <2>2, <2>3, <2>4 DEF Driven
  <1>9. ASSUME NEW r \in Req, CheckAwake(r) \/ Client(r) \/ Disconnect(r)
        PROVE  Driven'
    <2>1. UNCHANGED <<mpc, wpc, whand, slotTask>>
      BY <1>9, ClientsLeaveThreads DEF mvars, wvars, svars
    <2>2. Busy' = Busy
      BY <2>1 DEF Busy, is_processing
    <2>3. /\ Count(unhandled', NoReq) = Count(unhandled, NoReq)
          /\ Count(queue', NoReq) >= Count(queue, NoReq) /\ Count(queue', NoReq) \in Nat
      <3>1. CASE UNCHANGED qvars
        BY <1>0, <3>1 DEF qvars
      <3>2. CASE post_task(r)
        <4>1. /\ unhandled' = unhandled
              /\ \E k \in KindsOf[r] : queue' = Append(queue, [type |-> k, id |-> r])
          BY <3>2 DEF post_task
        <4>2. PICK t : queue' = Append(queue, t)
          BY <4>1
        <4>. DEFINE U == Tasks(Gone) \cup {t}
        <4>3. queue \in Seq(U) /\ t \in U
          BY <1>0, SeqMonotonic
        <4>. HIDE DEF U
        <4>4. /\ Count(queue', NoReq) = Count(queue, NoReq) + Unit(t, NoReq)
              /\ Unit(t, NoReq) \in {0, 1}
          BY <4>2, <4>3, CountAppend DEF Unit
        <4>. QED  BY <1>0, <4>1, <4>4
      <3>3. CASE stop(r)
        <4>1. /\ queue' = <<CancelOf(r)>> \o erase_task(queue, r)
              /\ unhandled' = erase_task(unhandled, r)
          BY <3>3 DEF stop, cleanup_pending_task
        <4>2. NoReq # r
          BY ServerAssumption
        <4>3. /\ Count(unhandled', NoReq) = Count(unhandled, NoReq)
              /\ erase_task(queue, r) \in Seq(Tasks(Gone))
              /\ Count(erase_task(queue, r), NoReq) = Count(queue, NoReq)
          BY <1>0, <4>1, <4>2, CountErase
        <4>. DEFINE U == Tasks(Gone) \cup {CancelOf(r)}
        <4>4. erase_task(queue, r) \in Seq(U) /\ CancelOf(r) \in U
          BY <4>3, SeqMonotonic
        <4>. HIDE DEF U
        <4>5. /\ Count(queue', NoReq)
                   = Count(erase_task(queue, r), NoReq) + Unit(CancelOf(r), NoReq)
              /\ Unit(CancelOf(r), NoReq) \in {0, 1}
          BY <4>1, <4>4, CountPush DEF Unit
        <4>. QED  BY <1>0, <4>3, <4>5
      <3>. QED
        BY <1>9, <3>1, <3>2, <3>3
        DEF CheckAwake, Client, Awakened, ReceiveOk, ReceiveError, Disconnect
    <2>4. ASSUME mpc' \in Rounds, Busy' # {}
          PROVE  Pulse(queue, unhandled, wpc, whand)' >= 1
      <3>1. Pulse(queue, unhandled, wpc, whand) >= 1
        BY <2>1, <2>2, <2>4 DEF Driven
      <3>2. Pulse(queue, unhandled, wpc, whand)' >= Pulse(queue, unhandled, wpc, whand)
        BY <1>0, <2>1, <2>3 DEF Pulse
      <3>3. /\ Pulse(queue, unhandled, wpc, whand)' \in Int
            /\ Pulse(queue, unhandled, wpc, whand) \in Int
        BY <1>0, <2>1, <2>3 DEF Pulse
      <3>. QED  BY <3>1, <3>2, <3>3
    <2>. QED  BY <2>1, <2>2, <2>4 DEF Driven
  <1>10. CASE UNCHANGED vars
    BY <1>10 DEF vars, qvars, mvars, wvars, svars, Driven, Busy, is_processing
  <1>. QED
    BY <1>1, <1>3, <1>4, <1>5, <1>6, <1>7, <1>8, <1>9, <1>10 DEF Next, Main, Update

\* The inductive invariant of the server's bookkeeping.
LedgerInv == Posted /\ Hands /\ HandOver /\ Driven /\ Accounts

\* The empty server.
LEMMA LedgerInit == Init => LedgerInv
  <1>. SUFFICES ASSUME Init PROVE LedgerInv
    OBVIOUS
  <1>1. /\ NoTask \in Tasks(Gone) /\ 0 \in Slot
        /\ <<>> \in Seq(Tasks(Gone)) /\ results = {}
    BY ServerAssumption DEF Init, NoTask, Tasks, Task, Slot
  <1>2. Posted
    BY <1>1 DEF Init, Posted, Places
  <1>3. Hands /\ HandOver /\ Driven
    BY DEF Init, Hands, HandOver, Driven, Rounds
  <1>4. ASSUME NEW r \in Req
        PROVE  Total(r) = 0
    <2>1. Count(<<>>, r) = 0
      BY CountOne, Zenon
    <2>2. Unit(NoTask, r) = 0
      BY NoCopy
    <2>3. SlotsOf(slotTask, r) = {} /\ AnswersIn(results, r) = {}
      BY <1>1, ServerAssumption DEF Init, SlotsOf, AnswersIn
    <2>4. Cardinality({}) = 0
      BY FS_EmptySet
    <2>5. /\ queue = <<>> /\ deferred = <<>> /\ unhandled = <<>>
          /\ mhand = NoTask /\ whand = NoTask
      BY DEF Init
    <2>6. HeldNow(r) = 0 + 0 + 0 + 0 + 0 + 0
      BY <2>1, <2>2, <2>3, <2>4, <2>5, Zenon DEF HeldNow, Held
    <2>7. Total(r) = HeldNow(r) + 0
      BY <2>3, <2>4, Zenon DEF Total
    <2>. QED  BY <2>6, <2>7
  <1>5. Accounts
    BY <1>4 DEF Init, Accounts, NoResultLeaked, Answers
  <1>. QED  BY <1>2, <1>3, <1>5 DEF LedgerInv

\* Every step of every thread keeps the ledger.
LEMMA LedgerNext ==
    ASSUME LedgerInv, [Next]_vars
    PROVE  LedgerInv'
  <1>1. Posted /\ Hands /\ HandOver /\ Driven /\ Accounts
    BY DEF LedgerInv
  <1>2. HandOver' /\ Hands' /\ Driven'
    BY <1>1, HandOverNext, HandsNext, DrivenNext
  <1>3. CASE Handle \/ Update \/ Worker \/ MainPop
    BY <1>1, <1>2, <1>3, HandleLedger, UpdateLedger, WorkerLedger, MainPopLedger DEF LedgerInv
  <1>4. CASE \E r \in Req : CheckAwake(r) \/ Client(r) \/ Disconnect(r)
    BY <1>1, <1>2, <1>4, ClientLedger DEF LedgerInv
  <1>5. CASE MainWait \/ FallAsleep \/ UNCHANGED vars
    <2>1. UNCHANGED <<client, waiting, results, queue, deferred, unhandled, mhand, whand,
                      slotTask, at>>
      BY <1>5 DEF MainWait, FallAsleep, vars, qvars, mvars, wvars, svars, cvars
    <2>2. at' \in Slot
      BY <1>1, <2>1 DEF Posted
    <2>. QED  BY <1>1, <1>2, <2>1, <2>2, QuietLedger DEF LedgerInv
  <1>6. CASE WakeUp
    <2>1. /\ mpc = "asleep" /\ slotTask' = [s \in Slot |-> NoReq]
          /\ UNCHANGED <<client, waiting, results, queue, deferred, unhandled, mhand, whand, at>>
      BY <1>6 DEF WakeUp, qvars, wvars, cvars
    <2>2. slotTask' = slotTask
      <3>1. Busy = {} /\ slotTask \in [Slot -> Req \cup {NoReq}]
        BY <1>1, <2>1 DEF Driven, Posted
      <3>2. \A s \in Slot : slotTask[s] = NoReq
        BY <3>1 DEF Busy, is_processing
      <3>. QED  BY <2>1, <3>1, <3>2
    <2>3. at' \in Slot
      BY <1>1, <2>1 DEF Posted
    <2>. QED  BY <1>1, <1>2, <2>1, <2>2, <2>3, QuietLedger DEF LedgerInv
  <1>. QED  BY <1>3, <1>4, <1>5, <1>6 DEF Next, Main

\* A client that waits has exactly one copy of its task in the server or exactly
\* one answer, for every number of requests and slots: posting, deferring,
\* declining in the worker, putting back, launching, aborting, resizing, sleeping
\* and the cancels of other clients neither lose nor duplicate it.
THEOREM ServerNoTaskLost == Spec => []NoTaskLost
  <1>1. LedgerInv => NoTaskLost
    <2>. SUFFICES ASSUME LedgerInv, NEW r \in waiting
                  PROVE  Copies(r) + Cardinality(Answers(r)) = 1
      BY DEF NoTaskLost
    <2>1. r \in Req /\ Posted /\ Total(r) = 1
      BY DEF LedgerInv, Accounts
    <2>. QED  BY <2>1, TotalIs
  <1>. QED  BY <1>1, LedgerInit, LedgerNext, PTL DEF Spec

\* An answer is kept only for a reader that will still collect or discard it: one
\* answer at most is ever there for a client, so that none is left behind by a
\* client that received its result, or left while it was being sent.
THEOREM ServerNoResultLeaked == Spec => []NoResultLeaked
  <1>1. LedgerInv => NoResultLeaked
    BY DEF LedgerInv, Accounts
  <1>. QED  BY <1>1, LedgerInit, LedgerNext, PTL DEF Spec

\* The loop never waits, or sleeps, over a busy slot: the NEXT_RESPONSE posted by
\* update_slots comes back to the queue even when the worker met it during the
\* yield or a cancel erased its neighbours.
THEOREM ServerBusySlotDriven == Spec => []BusySlotDriven
  <1>1. LedgerInv => BusySlotDriven
    <2>. SUFFICES ASSUME LedgerInv, mpc \in {"wait", "asleep"}, Busy # {}, queue = <<>>
                  PROVE  FALSE
      BY DEF BusySlotDriven
    <2>1. mpc = "wait" /\ Pulse(queue, unhandled, wpc, whand) >= 1
      BY DEF LedgerInv, Driven, Rounds
    <2>2. unhandled = <<>> /\ wpc = "idle"
      BY <2>1 DEF LedgerInv, Hands, HandOver
    <2>3. Count(<<>>, NoReq) = 0
      BY CountOne, Zenon
    <2>4. Pulse(queue, unhandled, wpc, whand) = 0
      BY <2>2, <2>3 DEF Pulse
    <2>. QED  BY <2>1, <2>4
  <1>. QED  BY <1>1, LedgerInit, LedgerNext, PTL DEF Spec
=============================================================================
