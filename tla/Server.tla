------------------------------- MODULE Server -------------------------------
(***************************************************************************)
(* The task queue, the slots and the live context resize of the engine     *)
(* server (engine/tools/server/server-queue.cpp, server-context.cpp).      *)
(*                                                                         *)
(* HTTP threads post tasks and wait for results.  The main loop pops tasks *)
(* and runs update_slots; while a decode is running it yields the queue to *)
(* a worker thread, which answers read-only tasks and sets the others      *)
(* aside.  A task that finds no slot is deferred until a slot is released. *)
(* Steps are the regions between two acquisitions of mutex_tasks.          *)
(***************************************************************************)
EXTENDS Naturals, Sequences, FiniteSets

CONSTANTS Req,        \* requests, each one task of one HTTP thread
          KindsOf,    \* the server_task_types it may have
          WantsOf,    \* task.id_slot, or NoSlot for -1
          ActsOn,     \* slot_action.id_slot of a slot task, else NoSlot
          NSlots,     \* n_parallel
          Leavers,    \* requests whose client may disconnect
          SleepOn,    \* --sleep-idle-seconds given
          MayFail,    \* a decode may throw, a prompt or a rebuild may fail
          ClearIdle,  \* cache_idle_slots with a unified KV buffer
          MaxTokens,  \* bound: tokens a completion generates
          NoReq, NoSlot

Slot == 0 .. NSlots - 1
SlotKinds == {"SLOT_SAVE", "SLOT_RESTORE", "SLOT_ERASE"}
ReadKinds == {"METRICS", "SLOT_GET"}
Kinds == {"COMPLETION", "CTX_RESIZE", "KV_POLICY"} \cup SlotKinds \cup ReadKinds

ASSUME ServerAssumption ==
    /\ NSlots \in Nat \ {0}
    /\ MaxTokens \in Nat \ {0}
    /\ KindsOf \in [Req -> SUBSET Kinds]
    /\ WantsOf \in [Req -> Slot \cup {NoSlot}]
    /\ ActsOn \in [Req -> Slot \cup {NoSlot}]
    /\ Leavers \subseteq Req
    /\ SleepOn \in BOOLEAN
    /\ MayFail \in BOOLEAN
    /\ ClearIdle \in BOOLEAN
    /\ NoReq \notin Req
    /\ NoSlot \notin Slot

VARIABLES
    queue, deferred, unhandled,       \* the three deques of server_queue
    mpc, mhand, at, threw,            \* main loop: place, task in hand, slot iterator
    busy, yielding, wpc, whand,       \* worker_t and the worker's task in hand
    slotTask, left, prompt, slotCtx,  \* slots: task, tokens to go, prompt, ctx_tgt
    ctx,                              \* the target context: a generation, 0 if none
    client, waiting, results,         \* HTTP threads and server_response
    sleeping, reqStop

qvars == <<queue, deferred, unhandled>>
mvars == <<mpc, mhand, at, threw>>
wvars == <<busy, yielding, wpc, whand>>
svars == <<slotTask, left, prompt, slotCtx, ctx>>
cvars == <<client, waiting, results>>
zvars == <<sleeping, reqStop>>
vars  == <<qvars, mvars, wvars, svars, cvars, zvars>>

Task == [type : Kinds \cup {"CANCEL", "NEXT_RESPONSE"}, id : Req \cup {NoReq}]
NoTask == [type |-> "NEXT_RESPONSE", id |-> NoReq]
CancelOf(r) == [type |-> "CANCEL", id |-> r]
NextResponse == [type |-> "NEXT_RESPONSE", id |-> NoReq]

Generations == 0 .. 1 + Cardinality(Req)
NoPrompt == [of |-> NoReq, ctx |-> 0]
Prompt == [of : Req \cup {NoReq}, ctx : Generations]

is_processing(s) == slotTask[s] # NoReq
Busy == {s \in Slot : is_processing(s)}

Init ==
    /\ queue = <<>> /\ deferred = <<>> /\ unhandled = <<>>
    /\ mpc = "process" /\ mhand = NoTask /\ at = 0 /\ threw = FALSE
    /\ busy = FALSE /\ yielding = FALSE /\ wpc = "idle" /\ whand = NoTask
    /\ slotTask = [s \in Slot |-> NoReq]
    /\ left = [s \in Slot |-> 0]
    /\ prompt = [s \in Slot |-> NoPrompt]
    /\ slotCtx = [s \in Slot |-> 1]
    /\ ctx = 1
    /\ client = [r \in Req |-> "new"]
    /\ waiting = {} /\ results = {}
    /\ sleeping = FALSE /\ reqStop = FALSE

-----------------------------------------------------------------------------
(* server_response *)

\* Mutant: a result is queued whether or not anybody waits for it.
send_Unchecked(r, kind) == results' = results \cup {[id |-> r, kind |-> kind]}

\* A result is kept only for an id somebody waits for.
send(r, kind) ==
    results' = IF r \in waiting THEN results \cup {[id |-> r, kind |-> kind]} ELSE results

(* server_queue *)

\* A copy of the request's task; its CANCEL is a task of its own.
Here(t, r) == t.id = r /\ t.type # "CANCEL"

\* erase(remove_if(...)): the copies of the target go, the others keep their order.
erase_task(q, r) ==
    LET kept == {i \in DOMAIN q : ~ Here(q[i], r)}
        Rank(i) == Cardinality({j \in kept : j <= i})
    IN  [n \in 1 .. Cardinality(kept) |-> q[CHOOSE i \in kept : Rank(i) = n]]

\* post() of a CANCEL at the front: every pending copy of its target is erased.
cleanup_pending_task(r) ==
    /\ queue' = <<CancelOf(r)>> \o erase_task(queue, r)
    /\ deferred' = erase_task(deferred, r)
    /\ unhandled' = erase_task(unhandled, r)

\* One deferred task, the first that names the slot or else the first, moves
\* to the front of the queue.
pop_deferred_task(s) ==
    IF deferred = <<>> THEN UNCHANGED <<queue, deferred>>
    ELSE LET Names(i) == deferred[i].type = "COMPLETION" /\ WantsOf[deferred[i].id] = s
             k == IF \E i \in DOMAIN deferred : Names(i)
                  THEN CHOOSE i \in DOMAIN deferred :
                           Names(i) /\ \A j \in 1 .. i - 1 : ~ Names(j)
                  ELSE 1
         IN  /\ queue' = <<deferred[k]>> \o queue
             /\ deferred' = SubSeq(deferred, 1, k - 1) \o SubSeq(deferred, k + 1, Len(deferred))

defer(t) == deferred' = Append(deferred, t) /\ UNCHANGED <<queue, unhandled>>

\* server_slot::release: the slot keeps its prompt and wakes one deferred task.
release(s) ==
    /\ slotTask' = [slotTask EXCEPT ![s] = NoReq]
    /\ left' = [left EXCEPT ![s] = 0]
    /\ pop_deferred_task(s)

-----------------------------------------------------------------------------
(* HTTP threads *)

\* wait_until_no_sleep, called when the response object is built.
CheckAwake(r) ==
    /\ client[r] = "new"
    /\ client' = [client EXCEPT ![r] = IF sleeping THEN "waking" ELSE "ready"]
    /\ reqStop' = (sleeping \/ reqStop)
    /\ UNCHANGED <<qvars, mvars, wvars, svars, waiting, results, sleeping>>

Awakened(r) ==
    /\ client[r] = "waking" /\ ~ sleeping
    /\ client' = [client EXCEPT ![r] = "ready"]
    /\ UNCHANGED <<qvars, mvars, wvars, svars, waiting, results, zvars>>

\* server_response_reader::post_task: the id is registered, then the task queued.
post_task(r) ==
    /\ client[r] = "ready"
    /\ client' = [client EXCEPT ![r] = "waiting"]
    /\ waiting' = waiting \cup {r}
    /\ \E k \in KindsOf[r] : queue' = Append(queue, [type |-> k, id |-> r])
    /\ UNCHANGED <<deferred, unhandled, mvars, wvars, svars, results, zvars>>

\* next() returns the final result; the reader's destructor unregisters the id.
ReceiveOk(r) ==
    LET res == [id |-> r, kind |-> "ok"]
    IN  /\ client[r] = "waiting" /\ res \in results
        /\ client' = [client EXCEPT ![r] = "done"]
        /\ results' = results \ {res}
        /\ waiting' = waiting \ {r}
        /\ UNCHANGED <<qvars, mvars, wvars, svars, zvars>>

\* next() on an error result goes through stop() as well.
ReceiveError(r) ==
    LET res == [id |-> r, kind |-> "error"]
    IN  /\ client[r] = "waiting" /\ res \in results
        /\ client' = [client EXCEPT ![r] = "leaving"]
        /\ results' = results \ {res}
        /\ waiting' = waiting \ {r}
        /\ UNCHANGED <<qvars, mvars, wvars, svars, zvars>>

\* The polling client finds its connection closed: stop() first unregisters.
Disconnect(r) ==
    /\ r \in Leavers /\ client[r] = "waiting"
    /\ client' = [client EXCEPT ![r] = "leaving"]
    /\ waiting' = waiting \ {r}
    /\ UNCHANGED <<qvars, mvars, wvars, svars, results, zvars>>

\* stop(), second half: pending results go, a CANCEL is put at the front.
stop(r) ==
    /\ client[r] = "leaving"
    /\ client' = [client EXCEPT ![r] = "gone"]
    /\ results' = {res \in results : res.id # r}
    /\ cleanup_pending_task(r)
    /\ UNCHANGED <<mvars, wvars, svars, waiting, zvars>>

-----------------------------------------------------------------------------
(* The main loop: process_new_tasks(false) and process_single_task *)

\* Pop one task and unlock, or go on to update_slots when there is none.
MainPop ==
    /\ mpc = "process"
    /\ IF queue = <<>>
       THEN /\ mpc' = "update"
            /\ UNCHANGED <<mhand, queue>>
       ELSE /\ mpc' = "handle" /\ mhand' = Head(queue)
            /\ queue' = Tail(queue)
    /\ UNCHANGED <<at, threw, deferred, unhandled, wvars, svars, cvars, zvars>>

\* What every handler ends with: the next task is popped.
Handled == mpc' = "process" /\ mhand' = NoTask /\ UNCHANGED <<at, threw, wvars, zvars>>

InHand(kinds) == mpc = "handle" /\ mhand.type \in kinds

\* A task that touches the context after a failed rebuild: the outcome of the
\* dangling pointer is abstracted to the loss of the process.
HandleWithoutContext ==
    /\ InHand(SlotKinds \cup {"COMPLETION", "KV_POLICY", "CTX_RESIZE"}) /\ ctx = 0
    /\ mpc' = "crashed"
    /\ UNCHANGED <<mhand, at, threw, qvars, wvars, svars, cvars, zvars>>

\* get_available_slot returns nullptr: no slot is named and none is idle.
DeferNoSlot ==
    /\ InHand({"COMPLETION"}) /\ ctx # 0
    /\ WantsOf[mhand.id] = NoSlot /\ Busy = Slot
    /\ defer(mhand) /\ Handled
    /\ UNCHANGED <<svars, cvars>>

\* get_available_slot updates the prompt cache with the slot it chose: nothing
\* cached was closer, another prompt was loaded, or the slot was cleared.
CacheUpdate(s) ==
    prompt' \in {prompt, [prompt EXCEPT ![s] = [of |-> mhand.id, ctx |-> ctx]],
                [prompt EXCEPT ![s] = NoPrompt]}

\* The named slot is busy; the cache update has been done on it all the same.
DeferBusySlot ==
    LET s == WantsOf[mhand.id]
    IN  /\ InHand({"COMPLETION"}) /\ ctx # 0
        /\ s # NoSlot /\ is_processing(s)
        /\ CacheUpdate(s)
        /\ defer(mhand) /\ Handled
        /\ UNCHANGED <<slotTask, left, slotCtx, ctx, cvars>>

IdleChoice == IF WantsOf[mhand.id] # NoSlot THEN {WantsOf[mhand.id]} \ Busy ELSE Slot \ Busy

\* launch_slot_with_task on an idle slot, chosen by similarity or age, and the
\* saving (and clearing) of the slots that stay idle.
Launch ==
    /\ InHand({"COMPLETION"}) /\ ctx # 0
    /\ \E s \in IdleChoice, n \in 1 .. MaxTokens :
          /\ slotTask' = [slotTask EXCEPT ![s] = mhand.id]
          /\ left' = [left EXCEPT ![s] = n]
          /\ prompt' = [i \in Slot |->
                           IF i = s THEN [of |-> mhand.id, ctx |-> ctx]
                           ELSE IF ClearIdle /\ i \notin Busy THEN NoPrompt ELSE prompt[i]]
    /\ Handled
    /\ UNCHANGED <<qvars, slotCtx, ctx, cvars>>

\* The slot is found but the launch fails: the task is dropped with an error.
LaunchFails ==
    /\ MayFail
    /\ InHand({"COMPLETION"}) /\ ctx # 0
    /\ \E s \in IdleChoice : CacheUpdate(s)
    /\ send(mhand.id, "error") /\ Handled
    /\ UNCHANGED <<qvars, slotTask, left, slotCtx, ctx, client, waiting>>

\* CANCEL: the slot that runs the target is released.
HandleCancel ==
    /\ InHand({"CANCEL"})
    /\ IF \E s \in Slot : slotTask[s] = mhand.id
       THEN \E s \in Slot : slotTask[s] = mhand.id /\ release(s)
       ELSE UNCHANGED <<slotTask, left, queue, deferred>>
    /\ Handled
    /\ UNCHANGED <<unhandled, prompt, slotCtx, ctx, cvars>>

\* Save, restore or erase of a slot: deferred while the slot is busy.
HandleSlotAction ==
    LET s == ActsOn[mhand.id]
        After == IF mhand.type = "SLOT_SAVE" THEN {prompt[s]}
                 ELSE IF mhand.type = "SLOT_ERASE" THEN {NoPrompt}
                 ELSE {NoPrompt, [of |-> mhand.id, ctx |-> ctx]}
    IN  /\ InHand(SlotKinds) /\ ctx # 0
        /\ IF is_processing(s)
           THEN defer(mhand) /\ UNCHANGED <<prompt, results>>
           ELSE \E p \in After :
                   /\ prompt' = [prompt EXCEPT ![s] = p]
                   /\ send(mhand.id, IF mhand.type = "SLOT_RESTORE" /\ p = NoPrompt
                                     THEN "error" ELSE "ok")
                   /\ UNCHANGED qvars
        /\ Handled
        /\ UNCHANGED <<slotTask, left, slotCtx, ctx, client, waiting>>

\* Metrics, slot listing and KV policy are answered at once; NEXT_RESPONSE does
\* nothing.
HandleAtOnce ==
    /\ InHand(ReadKinds \cup {"KV_POLICY", "NEXT_RESPONSE"})
    /\ mhand.type = "KV_POLICY" => ctx # 0
    /\ IF mhand.id = NoReq THEN UNCHANGED results ELSE send(mhand.id, "ok")
    /\ Handled
    /\ UNCHANGED <<qvars, svars, client, waiting>>

DeferResize ==
    /\ InHand({"CTX_RESIZE"}) /\ Busy # {} /\ ctx # 0
    /\ defer(mhand) /\ Handled
    /\ UNCHANGED <<svars, cvars>>

\* A size out of range or equal to the present one.
RejectResize ==
    /\ MayFail
    /\ InHand({"CTX_RESIZE"}) /\ Busy = {} /\ ctx # 0
    /\ send(mhand.id, "error") /\ Handled
    /\ UNCHANGED <<qvars, svars, client, waiting>>

\* Mutant: a slot whose state could not be spooled keeps its prompt.
Resize_KeepUnsaved ==
    /\ InHand({"CTX_RESIZE"}) /\ Busy = {} /\ ctx # 0
    /\ ctx' = ctx + 1
    /\ \E lost \in SUBSET Slot :
          prompt' = [s \in Slot |-> IF s \in lost THEN prompt[s] ELSE NoPrompt]
    /\ slotCtx' = [s \in Slot |-> ctx']
    /\ send(mhand.id, "ok") /\ Handled
    /\ UNCHANGED <<qvars, slotTask, left, client, waiting>>

\* CTX_RESIZE with every slot idle: spool and clear each prompt, free the
\* contexts, rebuild at the new size, rebind the slots.
Resize ==
    /\ InHand({"CTX_RESIZE"}) /\ Busy = {} /\ ctx # 0
    /\ ctx' = ctx + 1
    /\ prompt' = [s \in Slot |-> NoPrompt]
    /\ slotCtx' = [s \in Slot |-> ctx']
    /\ send(mhand.id, "ok") /\ Handled
    /\ UNCHANGED <<qvars, slotTask, left, client, waiting>>

\* The rebuild fails: no context, and the slots still point to the freed one.
ResizeFails ==
    /\ MayFail
    /\ InHand({"CTX_RESIZE"}) /\ Busy = {} /\ ctx # 0
    /\ ctx' = 0
    /\ prompt' = [s \in Slot |-> NoPrompt]
    /\ send(mhand.id, "error") /\ Handled
    /\ UNCHANGED <<qvars, slotTask, left, slotCtx, client, waiting>>

-----------------------------------------------------------------------------
(* update_slots, on the main thread *)

\* Nothing to do when all slots are idle; otherwise NEXT_RESPONSE is posted so
\* that the loop comes back, and pre_decode visits the slots.
UpdateSlots ==
    /\ mpc = "update"
    /\ IF Busy = {}
       THEN mpc' = "wait" /\ UNCHANGED queue
       ELSE mpc' = "pre" /\ queue' = Append(queue, NextResponse)
    /\ UNCHANGED <<mhand, at, threw, deferred, unhandled, wvars, svars, cvars, zvars>>

\* The visit of slot number at ends its task with a result of this kind.
Finish(kind) ==
    /\ send(slotTask[at], kind)
    /\ release(at)
    /\ UNCHANGED <<unhandled, prompt, slotCtx, ctx, client, waiting>>

\* One turn of a loop over the slots; next is where the loop leads.
Visit(place, next) ==
    /\ mpc = place
    /\ at' = (at + 1) % NSlots
    /\ mpc' = IF at' = 0 THEN next ELSE place
    /\ UNCHANGED <<mhand, threw, wvars, zvars>>

\* pre_decode builds the batch; a prompt that cannot be run is refused.
PreSlot ==
    /\ Visit("pre", "yield")
    /\ \/ MayFail /\ is_processing(at) /\ Finish("error")
       \/ UNCHANGED <<qvars, svars, cvars>>

\* An exception out of pre_decode, or out of the decode, ends every busy task.
PreThrows ==
    /\ MayFail /\ mpc = "pre" /\ mpc' = "abort" /\ at' = 0
    /\ UNCHANGED <<mhand, threw, qvars, wvars, svars, cvars, zvars>>

\* yield_to_queue hands the queue to the worker and starts the decode.
BeginYield ==
    /\ mpc = "yield"
    /\ IF Busy = {}
       THEN mpc' = "wait" /\ UNCHANGED <<busy, yielding>>
       ELSE mpc' = "decode" /\ busy' = TRUE /\ yielding' = TRUE
    /\ UNCHANGED <<mhand, at, threw, wpc, whand, qvars, svars, cvars, zvars>>

DecodeDone ==
    /\ mpc = "decode" /\ mpc' = "join"
    /\ yielding' = FALSE
    /\ threw' \in {FALSE, MayFail}
    /\ UNCHANGED <<mhand, at, busy, wpc, whand, qvars, svars, cvars, zvars>>

\* Mutant: an exception of the decode leaves before the tasks are put back.
Join_ThrowFirst ==
    /\ mpc = "join" /\ ~ busy
    /\ IF threw THEN UNCHANGED queue ELSE queue' = unhandled \o queue
    /\ unhandled' = <<>>
    /\ mpc' = (IF threw THEN "abort" ELSE "post") /\ threw' = FALSE
    /\ UNCHANGED <<mhand, at, deferred, wvars, svars, cvars, zvars>>

\* Mutant: the main thread goes on without waiting for the worker.
Join_NoWait ==
    /\ mpc = "join"
    /\ queue' = unhandled \o queue /\ unhandled' = <<>>
    /\ mpc' = (IF threw THEN "abort" ELSE "post") /\ threw' = FALSE
    /\ UNCHANGED <<mhand, at, deferred, wvars, svars, cvars, zvars>>

\* The worker is done: the tasks it set aside return to the front, in order.
Join ==
    /\ mpc = "join" /\ ~ busy
    /\ queue' = unhandled \o queue /\ unhandled' = <<>>
    /\ mpc' = (IF threw THEN "abort" ELSE "post") /\ threw' = FALSE
    /\ UNCHANGED <<mhand, at, deferred, wvars, svars, cvars, zvars>>

\* post_decode samples one token per slot; the last one completes the task.
PostSlot ==
    /\ Visit("post", "wait")
    /\ IF is_processing(at) /\ left[at] = 1 THEN Finish("ok")
       ELSE /\ left' = [left EXCEPT ![at] = IF @ = 0 THEN 0 ELSE @ - 1]
            /\ UNCHANGED <<qvars, slotTask, prompt, slotCtx, ctx, cvars>>

\* The decode found no room in a unified KV buffer: the first idle slot with a
\* prompt is purged and the batch is decoded again.
try_clear_idle_slots ==
    LET idle == {s \in Slot \ Busy : prompt[s] # NoPrompt}
    IN  /\ MayFail /\ ClearIdle
        /\ mpc = "post" /\ at = 0 /\ mpc' = "yield"
        /\ \E s \in idle :
              /\ \A t \in idle : s <= t
              /\ prompt' = [prompt EXCEPT ![s] = NoPrompt]
        /\ UNCHANGED <<mhand, at, threw, qvars, wvars, slotTask, left, slotCtx, ctx, cvars, zvars>>

\* Every busy task ends with an error.  A failed llama_decode clears the
\* prompts as well; an exception from elsewhere leaves them.
abort_all_slots ==
    /\ Visit("abort", "wait")
    /\ IF is_processing(at)
       THEN /\ send(slotTask[at], "error")
            /\ release(at)
            /\ prompt' \in {prompt, [prompt EXCEPT ![at] = NoPrompt]}
            /\ UNCHANGED <<unhandled, slotCtx, ctx, client, waiting>>
       ELSE UNCHANGED <<qvars, svars, cvars>>

MainWait ==
    /\ mpc = "wait" /\ queue # <<>> /\ mpc' = "process"
    /\ UNCHANGED <<mhand, at, threw, qvars, wvars, svars, cvars, zvars>>

\* The idle time has passed with nothing queued: the model is unloaded.
FallAsleep ==
    /\ SleepOn /\ mpc = "wait" /\ queue = <<>>
    /\ mpc' = "asleep" /\ sleeping' = TRUE /\ reqStop' = FALSE
    /\ ctx' = 0
    /\ UNCHANGED <<mhand, at, threw, qvars, wvars, slotTask, left, prompt, slotCtx, cvars>>

\* Only a request to stop sleeping ends the sleep; load_model makes the context
\* and the slots anew.
WakeUp ==
    /\ mpc = "asleep" /\ reqStop
    /\ mpc' = "process" /\ sleeping' = FALSE /\ reqStop' = FALSE
    /\ ctx' = 1
    /\ slotCtx' = [s \in Slot |-> 1]
    /\ slotTask' = [s \in Slot |-> NoReq]
    /\ left' = [s \in Slot |-> 0]
    /\ prompt' = [s \in Slot |-> NoPrompt]
    /\ UNCHANGED <<mhand, at, threw, qvars, wvars, cvars>>

-----------------------------------------------------------------------------
(* The worker: worker_loop with process_new_tasks(true) *)

WorkerVars(place, task) == wpc' = place /\ whand' = task

WorkerStart ==
    /\ wpc = "idle" /\ busy /\ WorkerVars("run", NoTask)
    /\ UNCHANGED <<busy, yielding, qvars, mvars, svars, cvars, zvars>>

WorkerPop ==
    /\ wpc = "run"
    /\ IF queue = <<>>
       THEN WorkerVars("check", NoTask) /\ UNCHANGED queue
       ELSE WorkerVars("hand", Head(queue)) /\ queue' = Tail(queue)
    /\ UNCHANGED <<busy, yielding, deferred, unhandled, mvars, svars, cvars, zvars>>

\* Mutant: a CANCEL is accepted while the decode runs.
WorkerHandle_TakesCancel ==
    /\ wpc = "hand" /\ WorkerVars("run", NoTask)
    /\ IF whand.type = "CANCEL" /\ \E s \in Slot : slotTask[s] = whand.id
       THEN /\ \E s \in Slot : slotTask[s] = whand.id /\ release(s)
            /\ UNCHANGED <<results, unhandled>>
       ELSE /\ IF whand.type \in ReadKinds
               THEN send(whand.id, "ok") /\ UNCHANGED unhandled
               ELSE unhandled' = Append(unhandled, whand) /\ UNCHANGED results
            /\ UNCHANGED <<queue, deferred, slotTask, left>>
    /\ UNCHANGED <<busy, yielding, prompt, slotCtx, ctx, mvars, client, waiting, zvars>>

\* While yielding only the reads are answered; any other task is set aside.
WorkerHandle ==
    /\ wpc = "hand" /\ WorkerVars("run", NoTask)
    /\ IF whand.type \in ReadKinds
       THEN send(whand.id, "ok") /\ UNCHANGED unhandled
       ELSE unhandled' = Append(unhandled, whand) /\ UNCHANGED results
    /\ UNCHANGED <<busy, yielding, queue, deferred, svars, mvars, client, waiting, zvars>>

\* The yield is over: the worker reports it is done.  Otherwise it looks at the
\* queue again, or waits for a task or for the end of the yield.
WorkerCheck ==
    /\ wpc = "check"
    /\ IF ~ yielding THEN WorkerVars("idle", NoTask) /\ busy' = FALSE
       ELSE /\ WorkerVars(IF queue = <<>> THEN "wait" ELSE "run", NoTask)
            /\ UNCHANGED busy
    /\ UNCHANGED <<yielding, qvars, mvars, svars, cvars, zvars>>

\* Mutant: the worker waits for a task only, not for the end of the yield.
WorkerWait_TaskOnly ==
    /\ wpc = "wait" /\ queue # <<>> /\ WorkerVars("run", NoTask)
    /\ UNCHANGED <<busy, yielding, qvars, mvars, svars, cvars, zvars>>

WorkerWait ==
    /\ wpc = "wait" /\ (~ yielding \/ queue # <<>>) /\ WorkerVars("run", NoTask)
    /\ UNCHANGED <<busy, yielding, qvars, mvars, svars, cvars, zvars>>

-----------------------------------------------------------------------------
Handle == \/ HandleWithoutContext \/ DeferNoSlot \/ DeferBusySlot \/ Launch \/ LaunchFails
          \/ HandleCancel \/ HandleSlotAction \/ HandleAtOnce
          \/ DeferResize \/ RejectResize \/ Resize \/ ResizeFails
Update == \/ UpdateSlots \/ PreSlot \/ PreThrows \/ BeginYield \/ DecodeDone \/ Join
          \/ PostSlot \/ try_clear_idle_slots \/ abort_all_slots
Main == MainPop \/ Handle \/ Update \/ MainWait \/ WakeUp
Worker == WorkerStart \/ WorkerPop \/ WorkerHandle \/ WorkerCheck \/ WorkerWait
Client(r) == Awakened(r) \/ post_task(r) \/ ReceiveOk(r) \/ ReceiveError(r) \/ stop(r)

Next == \/ Main \/ Worker \/ FallAsleep
        \/ \E r \in Req : CheckAwake(r) \/ Client(r) \/ Disconnect(r)

\* The two server threads and every HTTP thread keep running; nothing obliges a
\* client to arrive or to leave, or the server to fall asleep.
Fairness == WF_vars(Main) /\ WF_vars(Worker) /\ \A r \in Req : WF_vars(Client(r))

Spec == Init /\ [][Next]_vars /\ Fairness

-----------------------------------------------------------------------------
(* Properties *)

TypeOK ==
    /\ {queue, deferred, unhandled} \subseteq Seq(Task)
    /\ mpc \in {"process", "handle", "update", "pre", "yield", "decode", "join", "post", "abort",
                "wait", "asleep", "crashed"}
    /\ {mhand, whand} \subseteq Task
    /\ at \in Slot
    /\ {threw, busy, yielding, sleeping, reqStop} \subseteq BOOLEAN
    /\ wpc \in {"idle", "run", "hand", "check", "wait"}
    /\ slotTask \in [Slot -> Req \cup {NoReq}]
    /\ left \in [Slot -> 0 .. MaxTokens]
    /\ prompt \in [Slot -> Prompt]
    /\ slotCtx \in [Slot -> Generations]
    /\ ctx \in Generations
    /\ client \in [Req -> {"new", "waking", "ready", "waiting", "leaving", "done", "gone"}]
    /\ waiting \subseteq Req
    /\ results \subseteq [id : Req, kind : {"ok", "error"}]

In(q, r) == {i \in DOMAIN q : Here(q[i], r)}
InHands(r) == {h \in {"main", "worker"} : Here(IF h = "main" THEN mhand ELSE whand, r)}
OnSlots(r) == {s \in Slot : slotTask[s] = r}
\* How many copies of the task the server holds.
Copies(r) == Cardinality(In(queue, r)) + Cardinality(In(deferred, r)) + Cardinality(In(unhandled, r))
             + Cardinality(InHands(r)) + Cardinality(OnSlots(r))
Answers(r) == {res \in results : res.id = r}

\* A client that waits has exactly one copy of its task in the server or exactly
\* one answer in the result queue: deferring, declining, putting back, aborting
\* and resizing neither lose nor duplicate a task.
NoTaskLost == \A r \in waiting : Copies(r) + Cardinality(Answers(r)) = 1

\* A result is queued only for a reader that will still collect or discard it:
\* a client that leaves while its result is being sent leaves nothing behind.
NoResultLeaked == \A r \in Req : Answers(r) # {} => client[r] \in {"waiting", "leaving"}

\* The loop never waits, or sleeps, over a busy slot: the NEXT_RESPONSE posted by
\* update_slots is still queued, even when the worker met it during the yield.
BusySlotDriven == mpc \in {"wait", "asleep"} /\ Busy # {} => queue # <<>>

\* The worker is awake only while the main thread is in yield_to_queue, so what a
\* read-only task reports of the slots is never read while a slot changes.
WorkerConfined == wpc # "idle" => busy /\ mpc \in {"decode", "join"}

\* No slot keeps a prompt or a pointer of a context that was freed by a resize
\* or by sleeping.
PromptInContext ==
    ctx # 0 => \A s \in Slot : slotCtx[s] = ctx /\ (prompt[s] # NoPrompt => prompt[s].ctx = ctx)

\* While the decode runs outside the lock no slot, prompt or context changes
\* under it, whatever tasks the worker meets.
DecodeUndisturbed == [][(mpc \in {"decode", "join"}) => svars' = svars]_vars

\* A client that waits to the end is answered unless its task sits in the deferred
\* list, the server sleeps or the process is lost: neither the hand-over to the
\* worker nor tasks put at the front nor the cancels of others starve it.
WaitingServed ==
    \A r \in Req \ Leavers :
        (client[r] = "waiting")
            ~> (client[r] # "waiting" \/ In(deferred, r) # {} \/ sleeping \/ mpc = "crashed")

\* "defer until one slot is available" (server-queue.h): when the loop has nothing
\* left to do, a task is still deferred only if some slot is busy.
DeferredUntilSlotFree == mpc = "wait" /\ queue = <<>> /\ deferred # <<>> => Busy # {}

\* "if requested slot is unavailable, we defer this task for processing later"
\* (server-context.cpp): the prompt of a busy slot is that of the task it runs.
BusyPromptKept == \A s \in Slot : is_processing(s) => prompt[s].of = slotTask[s]

\* "Any new incoming task will automatically trigger the model to reload"
\* (tools/server/README.md): the server does not sleep for ever over a task.
SleepEndsForTask == (sleeping /\ queue # <<>>) ~> ~ sleeping

\* "if this is cancel task make sure to clean up pending tasks" (server-queue.cpp):
\* once the CANCEL of a request has been handled, no copy of the request is left.
CancelPending(r) == \/ \E i \in DOMAIN queue : queue[i] = CancelOf(r)
                    \/ \E i \in DOMAIN unhandled : unhandled[i] = CancelOf(r)
                    \/ CancelOf(r) \in {mhand, whand}
CancelledIsDropped == \A r \in Req : client[r] = "gone" /\ ~ CancelPending(r) => Copies(r) = 0
=============================================================================
