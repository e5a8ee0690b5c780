---------------------------- MODULE SessionRouter ----------------------------
(***************************************************************************)
(* The session router of the engine server (route_session and its helpers, *)
(* engine/tools/server/server-context.cpp): it maps X-Session-Id headers   *)
(* onto slots, saves the state of the session it evicts to a file and      *)
(* restores it when the session comes back.                                *)
(*                                                                         *)
(* An HTTP thread routes under mutex_sessions, which it keeps while it     *)
(* waits for the engine to save or restore a slot, and queues its          *)
(* completion only after the mutex is free again.  The engine is the task  *)
(* queue of module Server, reduced to what the router meets: tasks for a   *)
(* busy slot are deferred, and a release wakes one deferred task.          *)
(***************************************************************************)
EXTENDS Naturals, FiniteSets, SequencesExt

CONSTANTS Req,          \* completion requests, one HTTP thread each
          Key,          \* session keys
          KeyOf,        \* the session of a request
          Plain,        \* requests that may come without the session header
          NSlots,       \* n_parallel
          MayFail,      \* a save, a restore or a launch may fail
          OldFiles,     \* sessions that may have a state file of a previous run
          None

Slot == 0 .. NSlots - 1

ASSUME RouterAssumption ==
    /\ NSlots \in Nat /\ NSlots >= 2     \* route_session does nothing below 2
    /\ KeyOf \in [Req -> Key] /\ Plain \subseteq Req
    /\ MayFail \in BOOLEAN /\ OldFiles \subseteq Key
    /\ None \notin Slot \cup Key \cup Req

VARIABLES
    known, resident,   \* sessions: the keys it has, and id_slot of each
    recent,            \* the known keys by last_used, latest first
    claims,            \* slot_sessions: slot -> key
    lock,              \* the thread that holds mutex_sessions
    pc, target, fresh, \* threads: place, slot in hand, state file not (or no longer) used
    queue, deferred,   \* the task deques of the engine
    run,               \* slots: the request they run
    files, broken,     \* slot_save_path: sessions with a state file, those truncated
    wasted             \* history: a wake-up was spent without a release

router == <<known, resident, recent, claims, lock>>
threads == <<pc, target, fresh>>
slots == <<run, files, broken>>
vars == <<router, threads, queue, deferred, slots, wasted>>

Busy == {s \in Slot : run[s] # None}
Task(kind, s, by, k) == [kind |-> kind, slot |-> s, by |-> by, key |-> k, woken |-> FALSE]

-----------------------------------------------------------------------------
(* route_session, under mutex_sessions *)

Thread(r, place, s) == pc' = [pc EXCEPT ![r] = place] /\ target' = [target EXCEPT ![r] = s]

ToFront(k) == <<k>> \o SelectSeq(recent, LAMBDA j : j # k)

\* e.last_used = now for a session the table has.
Touched(k) == IF k \in known THEN ToFront(k) ELSE recent

\* The session of r owns slot s from now on.
Claim(r, s) ==
    LET k == KeyOf[r]
    IN  /\ known' = known \cup {k} /\ recent' = ToFront(k)
        /\ resident' = [resident EXCEPT ![k] = s]
        /\ claims' = [claims EXCEPT ![s] = k]
        /\ Thread(r, "routed", s) /\ lock' = None
        /\ UNCHANGED queue

\* No slot: the request goes on without one, except that a new session that was
\* after its state file first tries for an empty slot.
NoSlotFor(r) ==
    /\ IF KeyOf[r] \notin known /\ ~ fresh'[r]
       THEN Thread(r, "again", None) /\ lock' = r
       ELSE Thread(r, "routed", None) /\ lock' = None
    /\ recent' = Touched(KeyOf[r])
    /\ UNCHANGED <<known, resident, claims, queue>>

\* The thread asks the engine for a slot task and waits, lock in hand.
Ask(r, kind, s, k) ==
    /\ queue' = Append(queue, Task(kind, s, r, k))
    /\ Thread(r, kind, s) /\ lock' = r
    /\ recent' = Touched(KeyOf[r])
    /\ UNCHANGED <<known, resident, claims>>

\* A slot is found: restore the session's file into it, or claim it empty.
UseSlot(r, s) ==
    IF fresh'[r] THEN Claim(r, s) ELSE Ask(r, "RESTORE", s, KeyOf[r])

Unclaimed == {s \in Slot : claims[s] = None}
IndexOf(k) == CHOOSE i \in DOMAIN recent : recent[i] = k
\* s, of the slots in S, is the one of the least recently used session.
Oldest(s, S) == \A t \in S : IndexOf(claims[t]) <= IndexOf(claims[s])

\* route_session_pick_victim up to its wait: an unclaimed slot is taken as it is,
\* otherwise the oldest session among the slots that look idle is saved first.
pick_victim(r) ==
    \/ \E s \in Unclaimed : (\A t \in Unclaimed : s <= t) /\ UseSlot(r, s)
    \/ Unclaimed = {} /\ Busy = Slot /\ NoSlotFor(r)
    \/ /\ Unclaimed = {}
       /\ \E s \in Slot \ Busy : Oldest(s, Slot \ Busy) /\ Ask(r, "SAVE", s, claims[s])

\* Without a session header the request is not routed.
NoSession(r) ==
    /\ r \in Plain /\ pc[r] = "new"
    /\ Thread(r, "routed", None)
    /\ UNCHANGED <<router, fresh, queue, deferred, slots, wasted>>

\* A resident session uses its slot again; a new or an evicted one needs a slot.
route_session(r) ==
    LET k == KeyOf[r]
    IN  /\ pc[r] = "new" /\ lock = None
        /\ IF k \in known /\ resident[k] # None
           THEN Claim(r, resident[k]) /\ UNCHANGED fresh
           ELSE /\ fresh' = [fresh EXCEPT ![r] = k \notin known /\ k \notin files]
                /\ pick_victim(r)
        /\ UNCHANGED <<deferred, slots, wasted>>

RouteAgain(r) ==
    /\ pc[r] = "again"
    /\ fresh' = [fresh EXCEPT ![r] = TRUE]
    /\ pick_victim(r)
    /\ UNCHANGED <<deferred, slots, wasted>>

\* Mutant: the evicted session still counts as resident.
Evict_StaysResident(s) == claims' = [claims EXCEPT ![s] = None] /\ UNCHANGED resident

\* The session of slot s is persisted only, and the slot is nobody's.
Evict(s) ==
    /\ resident' = [resident EXCEPT ![claims[s]] = None]
    /\ claims' = [claims EXCEPT ![s] = None]

\* The save has succeeded: the victim is evicted and the slot is used.
Saved(r) ==
    LET s == target[r]
    IN  /\ pc[r] = "saved"
        /\ Evict(s)
        /\ IF fresh[r]
           THEN Thread(r, "claim", s) /\ UNCHANGED queue
           ELSE /\ queue' = Append(queue, Task("RESTORE", s, r, KeyOf[r]))
                /\ Thread(r, "RESTORE", s)
        /\ UNCHANGED <<known, recent, lock, fresh, deferred, slots, wasted>>

\* Mutant: a failed save does not keep the victim.
SaveFailed_EvictsAnyway(r) ==
    /\ pc[r] = "unsaved"
    /\ Evict(target[r]) /\ Thread(r, "routed", None) /\ lock' = None
    /\ UNCHANGED <<known, recent, fresh, queue, deferred, slots, wasted>>

\* "could not persist: do not destroy resident state".
SaveFailed(r) ==
    /\ pc[r] = "unsaved"
    /\ UNCHANGED fresh /\ NoSlotFor(r)
    /\ UNCHANGED <<deferred, slots, wasted>>

\* The last lines of the routes that got a slot.
ClaimSlot(r) ==
    /\ pc[r] \in {"claim", "restored"}
    /\ Claim(r, target[r])
    /\ UNCHANGED <<fresh, deferred, slots, wasted>>

\* The restore has failed; the slot, emptied, stays unclaimed.
RestoreFailed(r) ==
    /\ pc[r] = "unrestored"
    /\ UNCHANGED fresh /\ NoSlotFor(r)
    /\ UNCHANGED <<deferred, slots, wasted>>

\* The rest of handle_completions_impl: the completion is queued.
PostCompletion(r) ==
    /\ pc[r] = "routed"
    /\ Thread(r, "posted", target[r])
    /\ queue' = Append(queue, Task("COMPLETION", target[r], r, None))
    /\ UNCHANGED <<router, fresh, deferred, slots, wasted>>

-----------------------------------------------------------------------------
(* The engine *)

\* A task is popped for handling; afterwards it is gone or deferred.
Taking(kind) == queue # <<>> /\ Head(queue).kind = kind
Take == queue' = Tail(queue)
defer == Take /\ deferred' = Append(deferred, [Head(queue) EXCEPT !.woken = FALSE])

\* The task ends here: if it was a woken one, no release follows it.
EndWithoutRelease == Take /\ wasted' = (wasted \/ Head(queue).woken) /\ UNCHANGED deferred

DeferTask ==
    LET t == Head(queue)
    IN  /\ queue # <<>>
        /\ IF t.slot = None THEN Busy = Slot ELSE t.slot \in Busy
        /\ defer
        /\ UNCHANGED <<router, threads, slots, wasted>>

\* launch_slot_with_task on the named slot or on any idle one.
Launch ==
    LET t == Head(queue)
    IN  /\ Taking("COMPLETION")
        /\ \E s \in (IF t.slot = None THEN Slot ELSE {t.slot}) \ Busy :
              run' = [run EXCEPT ![s] = t.by]
        /\ Take
        /\ UNCHANGED <<router, threads, deferred, files, broken, wasted>>

LaunchFails ==
    LET t == Head(queue)
    IN  /\ MayFail /\ Taking("COMPLETION")
        /\ (IF t.slot = None THEN Slot ELSE {t.slot}) \ Busy # {}
        /\ Thread(t.by, "done", None)
        /\ EndWithoutRelease
        /\ UNCHANGED <<router, fresh, slots>>

\* A save that fails leaves a truncated file.
SaveSlot ==
    LET t == Head(queue)
    IN  /\ Taking("SAVE") /\ t.slot \notin Busy
        /\ files' = files \cup {t.key}
        /\ \/ Thread(t.by, "saved", t.slot) /\ broken' = broken \ {t.key}
           \/ MayFail /\ Thread(t.by, "unsaved", t.slot) /\ broken' = broken \cup {t.key}
        /\ EndWithoutRelease
        /\ UNCHANGED <<router, fresh, run>>

RestoreSlot ==
    LET t == Head(queue)
    IN  /\ Taking("RESTORE") /\ t.slot \notin Busy
        /\ \/ t.key \notin broken /\ Thread(t.by, "restored", t.slot)
           \/ (MayFail \/ t.key \in broken) /\ Thread(t.by, "unrestored", t.slot)
        /\ EndWithoutRelease
        /\ UNCHANGED <<router, fresh, slots>>

Named(s) == {i \in DOMAIN deferred : deferred[i].kind = "COMPLETION" /\ deferred[i].slot = s}
WakeUp(i) ==
    /\ queue' = <<[deferred[i] EXCEPT !.woken = TRUE]>> \o queue
    /\ deferred' = RemoveAt(deferred, i)

\* Mutant: a release looks only for a task that names the slot.
pop_deferred_task_NamedOnly(s) ==
    \/ Named(s) = {} /\ UNCHANGED <<queue, deferred>>
    \/ \E i \in Named(s) : (\A j \in Named(s) : i <= j) /\ WakeUp(i)

\* The first deferred completion that names the slot, else the first task.
pop_deferred_task(s) ==
    \/ deferred = <<>> /\ UNCHANGED <<queue, deferred>>
    \/ deferred # <<>> /\ Named(s) = {} /\ WakeUp(1)
    \/ \E i \in Named(s) : (\A j \in Named(s) : i <= j) /\ WakeUp(i)

\* A generation ends: the client is answered and the slot released.
Release(s) ==
    /\ s \in Busy
    /\ Thread(run[s], "done", None)
    /\ run' = [run EXCEPT ![s] = None]
    /\ pop_deferred_task(s)
    /\ UNCHANGED <<router, fresh, files, broken, wasted>>

-----------------------------------------------------------------------------
Init ==
    /\ known = {} /\ resident = [k \in Key |-> None] /\ recent = <<>>
    /\ claims = [s \in Slot |-> None] /\ lock = None
    /\ pc = [r \in Req |-> "new"] /\ target = [r \in Req |-> None]
    /\ fresh = [r \in Req |-> FALSE]
    /\ queue = <<>> /\ deferred = <<>>
    /\ run = [s \in Slot |-> None]
    /\ files \in SUBSET OldFiles /\ broken = {}
    /\ wasted = FALSE

Arrive(r) == NoSession(r) \/ route_session(r)
Route(r) == \/ RouteAgain(r) \/ Saved(r) \/ SaveFailed(r) \/ ClaimSlot(r) \/ RestoreFailed(r)
            \/ PostCompletion(r)
Engine == \/ DeferTask \/ Launch \/ LaunchFails \/ SaveSlot \/ RestoreSlot
          \/ \E s \in Slot : Release(s)
Next == \/ Engine
        \/ \E r \in Req : Arrive(r) \/ Route(r)

\* The engine and the HTTP threads run on; no client has to come.
Fairness == WF_vars(Engine) /\ \A r \in Req : WF_vars(Route(r))
Spec == Init /\ [][Next]_vars /\ Fairness

-----------------------------------------------------------------------------
(* Properties *)

Tasks == [kind : {"COMPLETION", "SAVE", "RESTORE"}, slot : Slot \cup {None},
          by : Req, key : Key \cup {None}, woken : BOOLEAN]
TypeOK ==
    /\ known \subseteq Key /\ resident \in [Key -> Slot \cup {None}]
    /\ ToSet(recent) = known /\ claims \in [Slot -> Key \cup {None}]
    /\ lock \in Req \cup {None}
    /\ pc \in [Req -> {"new", "again", "SAVE", "saved", "unsaved", "RESTORE", "restored", "unrestored",
                       "claim", "routed", "posted", "done"}]
    /\ target \in [Req -> Slot \cup {None}] /\ fresh \in [Req -> BOOLEAN]
    /\ {queue, deferred} \subseteq Seq(Tasks)
    /\ run \in [Slot -> Req \cup {None}] /\ files \subseteq Key /\ broken \subseteq files
    /\ wasted \in BOOLEAN

\* The two tables of the router agree whenever the mutex is free: a session is
\* resident in a slot exactly when that slot is its own, so no two sessions are
\* ever sent to one slot, whatever saves and restores failed on the way.
ClaimsAgree ==
    lock = None => \A k \in Key, s \in Slot : (resident[k] = s) <=> (claims[s] = k)

\* A session that lost its slot has a whole state file to come back to, whatever
\* saves and restores failed before: no eviction destroys the only copy.
EvictedIsSaved == \A k \in known : resident[k] = None => k \in files \ broken

\* Every request is answered, although threads wait for the engine with the mutex
\* held, unless a deferred task has used up a wake-up without a release after it.
RequestServed ==
    \A r \in Req : (pc[r] # "new") ~> (pc[r] = "done" \/ wasted)

\* "if requested slot is unavailable, we defer this task for processing later"
\* (server-context.cpp): a request that got to the router is answered.
DeferredIsProcessed == \A r \in Req : (pc[r] # "new") ~> (pc[r] = "done")

\* "never evict mid-generation" (server-context.cpp): a session is not evicted
\* while a request that was sent to its slot is unanswered.
NotEvictedInUse ==
    \A r \in Req : pc[r] \in {"routed", "posted"} /\ target[r] # None /\ lock = None
                      => claims[target[r]] = KeyOf[r]
=============================================================================
