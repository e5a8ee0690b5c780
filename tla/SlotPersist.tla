----------------------------- MODULE SlotPersist -----------------------------
(***************************************************************************)
(* The sidecar of the engine (scripts/lull_slot_persist.py): it replays    *)
(* the checkpoints when it meets a new engine process, saves idle slots    *)
(* from time to time, restarts an engine that no longer answers and        *)
(* bounces one that runs out of memory.                                    *)
(*                                                                         *)
(* The engine is another process: it may die, be started again (Restart=   *)
(* always), hang and serve clients between any two requests of the         *)
(* sidecar, and the sidecar itself may die anywhere.  A pid is a           *)
(* generation number.  The state of a slot is the number of the work that  *)
(* made it, 0 when it is empty; a larger number is newer.                  *)
(***************************************************************************)
EXTENDS Integers, FiniteSets

CONSTANTS NSlots,
          Small,       \* states whose checkpoint has at most 10 MiB
          HangStrikes, \* VITRIOL_HANG_STRIKES
          MayRefuse,   \* an engine may be multimodal and answer 501
          MaxWork, MaxFaults, \* bounds
          None

Slot == 0 .. NSlots - 1

ASSUME SidecarAssumption ==
    /\ NSlots \in Nat \ {0}
    /\ HangStrikes \in Nat \ {0} /\ MayRefuse \in BOOLEAN
    /\ {MaxWork, MaxFaults} \subseteq Nat
    /\ Small \subseteq 1 .. MaxWork
    /\ None \notin Nat \cup (Slot \X (0 .. MaxWork))

VARIABLES
    gen, engine,       \* the engine process: its number; down, loading, up or deaf
    refuses,           \* it answers slot actions with 501
    task, busy, state, \* slots: id_task (0: no task yet), is_processing, KV state
    ids, work,         \* the ids this engine gave out; works so far
    ckpt,              \* slotN.bin: the state in it, None without a file
    identity,          \* .sidecar-identity.json
    pc, todo, back,    \* sidecar: place, slots to visit, where save_idle returns to
    tmp,               \* slotN.tmp.bin of the save in hand: <<slot, state>>
    pid, lastPid,      \* the pid of this round and last_pid
    sig, lastSig, ok,  \* save_idle: signature read, last_sig, nothing failed
    strikes, persist,  \* hang_strikes; PERSIST_OK: unknown or off
    settled, gaveUp,   \* history: last engine replayed or skipped; a wait_health(600) failed
    faults             \* deaths, hangs, bounces, slow loads, failed requests so far

process == <<gen, engine, refuses>>
slots == <<task, busy, state, ids, work>>
files == <<ckpt, identity>>
place == <<pc, todo, back, tmp>>
memory == <<pid, lastPid, sig, lastSig, ok, strikes, persist>>
history == <<settled, gaveUp, faults>>
vars == <<process, slots, files, place, memory, history>>

\* Both loops visit the slots in the order of /slots.
NextSlot(s) == s \in todo /\ \A t \in todo : s <= t

Fault == faults < MaxFaults /\ faults' = faults + 1

-----------------------------------------------------------------------------
(* The engine, its service manager and its clients *)

server_pid == IF engine = "down" THEN None ELSE gen

\* With the process go the slots and the count of the ids.
SlotsGone ==
    /\ task' = [s \in Slot |-> 0] /\ busy' = [s \in Slot |-> FALSE] /\ state' = [s \in Slot |-> 0]
    /\ ids' = 0 /\ UNCHANGED work
Start ==
    /\ gen' = gen + 1 /\ engine' = "loading"
    /\ refuses' \in IF MayRefuse THEN BOOLEAN ELSE {FALSE}
    /\ SlotsGone

Die ==
    /\ engine # "down" /\ Fault /\ engine' = "down" /\ SlotsGone
    /\ UNCHANGED <<gen, refuses, files, place, memory, settled, gaveUp>>
Boot ==
    /\ engine = "down" /\ Start
    /\ UNCHANGED <<files, place, memory, history>>
Ready ==
    /\ engine = "loading" /\ engine' = "up"
    /\ UNCHANGED <<gen, refuses, slots, files, place, memory, history>>
Hang ==
    /\ engine = "up" /\ Fault /\ engine' = "deaf"
    /\ UNCHANGED <<gen, refuses, slots, files, place, memory, settled, gaveUp>>
Recover ==
    /\ engine = "deaf" /\ engine' = "up"
    /\ UNCHANGED <<gen, refuses, slots, files, place, memory, history>>

\* A client's request takes an idle slot; idle slots may be cleared for it
\* (--cache-idle-slots, or a full unified KV cache).
Serve(s) ==
    /\ engine = "up" /\ ~ busy[s] /\ work < MaxWork
    /\ task' = [task EXCEPT ![s] = ids + 1] /\ ids' = ids + 1
    /\ busy' = [busy EXCEPT ![s] = TRUE] /\ work' = work + 1
    /\ \E C \in SUBSET ({t \in Slot : ~ busy[t]} \ {s}) :
          state' = [t \in Slot |-> IF t \in C THEN 0 ELSE IF t = s THEN work + 1 ELSE state[t]]
    /\ UNCHANGED <<process, files, place, memory, history>>
Finish(s) ==
    /\ engine = "up" /\ busy[s] /\ busy' = [busy EXCEPT ![s] = FALSE]
    /\ UNCHANGED <<process, task, state, ids, work, files, place, memory, history>>

-----------------------------------------------------------------------------
(* restore_all *)

Goto(p) == pc' = p /\ UNCHANGED <<todo, back, tmp>>

\* Mutant: the identity of the engine is not compared.
SameEngine_Never == FALSE

\* The engine is the one the sidecar saw last, perhaps in an earlier life.
SameEngine == server_pid # None /\ identity = server_pid

\* The check, and the identity stored before anything is restored.
RestoreBegin ==
    /\ pc = "restore"
    /\ IF persist = "off" \/ SameEngine THEN Goto("restored") /\ UNCHANGED identity
       ELSE /\ Goto("restore_list")
            /\ identity' = IF server_pid = None THEN identity ELSE server_pid
    /\ UNCHANGED <<process, slots, ckpt, memory, history>>

\* GET /slots; slots without a file are passed over.
RestoreList ==
    /\ pc = "restore_list"
    /\ IF engine = "up"
       THEN pc' = "restore_each" /\ todo' = {s \in Slot : ckpt[s] # None} /\ UNCHANGED <<back, tmp>>
       ELSE Goto("restored")
    /\ UNCHANGED <<process, slots, files, memory, history>>

\* POST action=restore: the engine does it when the slot is idle, or refuses, or
\* rejects the file, which empties the slot; or there is no answer in time.
RestoreSlot(s) ==
    /\ pc = "restore_each" /\ NextSlot(s) /\ todo' = todo \ {s}
    /\ \/ /\ engine = "up" /\ ~ refuses /\ ~ busy[s]
          /\ state' = [state EXCEPT ![s] = ckpt[s]]
          /\ UNCHANGED <<persist, faults>>
       \/ engine = "up" /\ refuses /\ persist' = "off" /\ UNCHANGED <<state, faults>>
       \/ /\ engine = "up" /\ ~ refuses /\ ~ busy[s] /\ Fault
          /\ state' = [state EXCEPT ![s] = 0] /\ UNCHANGED persist
       \/ (engine # "up" \/ busy[s]) /\ UNCHANGED <<state, persist, faults>>
    /\ UNCHANGED <<process, task, busy, ids, work, files, pc, back, tmp, pid, lastPid, sig, lastSig, ok,
                   strikes, settled, gaveUp>>

\* The caller: last_sig is cleared; main takes the pid as its baseline.
Restored ==
    /\ pc = "restored" \/ (pc = "restore_each" /\ todo = {})
    /\ lastSig' = None /\ settled' = identity
    /\ IF back = "baseline" THEN lastPid' = server_pid /\ pc' = "tick" /\ back' = "tick"
       ELSE pc' = "memory" /\ UNCHANGED <<lastPid, back>>
    /\ UNCHANGED <<process, slots, files, todo, tmp, pid, sig, ok, strikes, persist, gaveUp, faults>>

-----------------------------------------------------------------------------
(* save_idle *)

\* Mutant: the signature holds what never changes, as the old counters did.
Signature_Frozen == [s \in Slot |-> <<FALSE>>]

\* activity_signature: what /slots shows of a slot, the length only with a task.
Signature ==
    [s \in Slot |-> IF task[s] = 0 THEN <<busy[s]>> ELSE <<busy[s], task[s], state[s] # 0>>]

SaveBegin ==
    /\ pc = "save"
    /\ LET now == IF engine = "up" THEN Signature ELSE None
       IN  IF persist = "off" \/ (now # None /\ now = lastSig) THEN Goto(back) /\ UNCHANGED sig
           ELSE Goto("save_list") /\ sig' = now
    /\ UNCHANGED <<process, slots, files, pid, lastPid, lastSig, ok, strikes, persist, history>>

\* The second GET /slots; busy slots are passed over.
SaveList ==
    /\ pc = "save_list"
    /\ IF engine = "up"
       THEN pc' = "save_each" /\ todo' = {s \in Slot : ~ busy[s]} /\ UNCHANGED <<back, tmp, sig>>
       ELSE Goto(back) /\ sig' = None
    /\ UNCHANGED <<process, slots, files, pid, lastPid, lastSig, ok, strikes, persist, history>>

\* POST action=save: the engine writes slotN.tmp.bin once the slot is idle.
SavePost(s) ==
    /\ pc = "save_each" /\ NextSlot(s)
    /\ engine = "up" /\ ~ refuses /\ ~ busy[s]
    /\ pc' = "replace" /\ todo' = todo \ {s} /\ tmp' = <<s, state[s]>> /\ UNCHANGED back
    /\ UNCHANGED <<process, slots, files, memory, history>>

\* It refuses, fails, or does not answer in time: the old checkpoint stays.
SaveFails(s) ==
    /\ pc = "save_each" /\ NextSlot(s) /\ todo' = todo \ {s} /\ ok' = FALSE
    /\ \/ engine = "up" /\ refuses /\ persist' = "off" /\ UNCHANGED faults
       \/ (engine # "up" \/ busy[s]) /\ UNCHANGED <<persist, faults>>
       \/ engine = "up" /\ ~ refuses /\ Fault /\ UNCHANGED persist
    /\ UNCHANGED <<process, slots, files, pc, back, tmp, pid, lastPid, sig, lastSig, strikes, settled,
                   gaveUp>>

\* Mutant: any file that was written replaces the checkpoint.
Replaces_Always(s, v) == TRUE

\* The clobber guard: an empty state does not replace a checkpoint over 10 MiB.
Replaces(s, v) == v # 0 \/ ckpt[s] \in Small \cup {0, None}

SaveReplace ==
    /\ pc = "replace"
    /\ ckpt' = IF Replaces(tmp[1], tmp[2]) THEN [ckpt EXCEPT ![tmp[1]] = tmp[2]] ELSE ckpt
    /\ pc' = "save_each" /\ tmp' = None
    /\ UNCHANGED <<process, slots, identity, todo, back, memory, history>>

SaveDone ==
    /\ pc = "save_each" /\ todo = {}
    /\ lastSig' = IF ok /\ sig # None THEN sig ELSE lastSig
    /\ sig' = None /\ ok' = TRUE
    /\ Goto(back)
    /\ UNCHANGED <<process, slots, files, pid, lastPid, strikes, persist, history>>

-----------------------------------------------------------------------------
(* main *)

\* wait_health succeeds, at the start or for a new engine.
Healthy ==
    /\ pc \in {"start", "await"} /\ engine = "up" /\ pc' = "restore"
    /\ back' = IF pc = "start" THEN "baseline" ELSE "tick"
    /\ UNCHANGED <<process, slots, files, todo, tmp, memory, history>>

\* wait_health(600) gives up, and with it the replay.  At the start the sidecar
\* exits instead, is started again and waits again, which is to wait on.
HealthTimeout ==
    /\ pc = "await" /\ engine # "up"
    /\ IF engine = "loading" THEN Fault ELSE UNCHANGED faults
    /\ gaveUp' = TRUE /\ Goto("memory")
    /\ UNCHANGED <<process, slots, files, memory, settled>>

\* The pid is not the one of the round before.
NewGeneration ==
    /\ pid' # lastPid
    /\ lastPid' = pid' /\ strikes' = 0
    /\ Goto(IF pid' # None THEN "await" ELSE "memory")

\* Mutant: a deaf engine is left to itself.
SameGeneration_NoRestart ==
    /\ pid' = lastPid
    /\ UNCHANGED <<lastPid, strikes>> /\ Goto("memory")

\* It is: one that does not answer gets a strike, and is restarted after the last.
SameGeneration ==
    /\ pid' = lastPid /\ UNCHANGED lastPid
    /\ strikes' = IF pid' = None THEN strikes ELSE IF engine # "up" THEN strikes + 1 ELSE 0
    /\ Goto(IF pid' # None /\ engine # "up" /\ strikes' >= HangStrikes THEN "restart" ELSE "memory")

Tick ==
    /\ pc = "tick"
    /\ pid' = server_pid
    /\ NewGeneration \/ SameGeneration
    /\ UNCHANGED <<process, slots, files, sig, lastSig, ok, persist, history>>

\* systemctl restart, after the last strike or to bounce; its failure is ignored.
systemctl ==
    /\ pc \in {"restart", "bounce"}
    /\ lastPid' = None
    /\ Goto(IF pc = "restart" THEN "memory" ELSE "interval")
    /\ UNCHANGED <<files, pid, sig, lastSig, ok, strikes, persist, history>>
Restart == systemctl /\ Start
RestartFails == systemctl /\ UNCHANGED <<process, slots>>

\* Memory was short for PROACTIVE_TICKS rounds: checkpoint and restart.
Bounce ==
    /\ pc = "memory" /\ pid # None /\ pid = lastPid /\ Fault
    /\ pc' = "save" /\ back' = "bounce"
    /\ UNCHANGED <<process, slots, files, todo, tmp, memory, settled, gaveUp>>

\* The save interval is over, or not.
SaveDue ==
    /\ pc \in {"memory", "interval"}
    /\ pc' = (IF pid # None THEN "save" ELSE "tick") /\ back' = "tick"
    /\ UNCHANGED <<process, slots, files, todo, tmp, memory, history>>
NotDue ==
    /\ pc \in {"memory", "interval"} /\ pc' = "tick" /\ back' = "tick"
    /\ UNCHANGED <<process, slots, files, todo, tmp, memory, history>>

\* The sidecar dies and is started again: only the files remain.
Crash ==
    /\ pc # "start" /\ Fault
    /\ pc' = "start" /\ todo' = {} /\ back' = "tick" /\ tmp' = None
    /\ pid' = None /\ lastPid' = None /\ sig' = None /\ lastSig' = None
    /\ ok' = TRUE /\ strikes' = 0 /\ persist' = "unknown"
    /\ UNCHANGED <<process, slots, files, settled, gaveUp>>

-----------------------------------------------------------------------------
Init ==
    /\ gen = 1 /\ engine = "loading" /\ refuses \in IF MayRefuse THEN BOOLEAN ELSE {FALSE}
    /\ task = [s \in Slot |-> 0] /\ busy = [s \in Slot |-> FALSE] /\ state = [s \in Slot |-> 0]
    /\ ids = 0 /\ work = 0
    /\ ckpt = [s \in Slot |-> None] /\ identity = None
    /\ pc = "start" /\ todo = {} /\ back = "tick" /\ tmp = None
    /\ pid = None /\ lastPid = None /\ sig = None /\ lastSig = None
    /\ ok = TRUE /\ strikes = 0 /\ persist = "unknown"
    /\ settled = None /\ gaveUp = FALSE /\ faults = 0

Save == \/ SaveBegin \/ SaveList \/ SaveReplace \/ SaveDone
        \/ \E s \in Slot : SavePost(s) \/ SaveFails(s)
Restore == \/ RestoreBegin \/ RestoreList \/ Restored
           \/ \E s \in Slot : RestoreSlot(s)
Main == \/ Healthy \/ HealthTimeout \/ Tick \/ Restart \/ RestartFails \/ Bounce \/ SaveDue \/ NotDue
Sidecar == Save \/ Restore \/ Main
Clients == \E s \in Slot : Serve(s) \/ Finish(s)
Next == Sidecar \/ Crash \/ Die \/ Boot \/ Ready \/ Hang \/ Recover \/ Clients

\* The sidecar runs on, its save interval ends, systemctl does not always fail, and the service manager starts an
\* engine that has died; a hung engine need not recover and no client has to come.
Fairness == WF_vars(Sidecar) /\ SF_vars(SaveDue) /\ SF_vars(Restart) /\ WF_vars(Boot) /\ WF_vars(Ready)
Spec == Init /\ [][Next]_vars /\ Fairness

-----------------------------------------------------------------------------
(* Properties *)

States == 0 .. MaxWork
TypeOK ==
    /\ gen \in Nat \ {0} /\ engine \in {"down", "loading", "up", "deaf"} /\ refuses \in BOOLEAN
    /\ task \in [Slot -> States] /\ busy \in [Slot -> BOOLEAN] /\ state \in [Slot -> States]
    /\ ids \in States /\ work \in States
    /\ ckpt \in [Slot -> States \cup {None}] /\ identity \in 1 .. gen \cup {None}
    /\ pc \in {"start", "await", "restore", "restore_list", "restore_each", "restored", "tick", "restart",
               "memory", "bounce", "interval", "save", "save_list", "save_each", "replace"}
    /\ todo \subseteq Slot /\ back \in {"tick", "baseline", "bounce"}
    /\ tmp \in Slot \X States \cup {None}
    /\ {pid, lastPid, settled} \subseteq 1 .. gen \cup {None}
    /\ ok \in BOOLEAN /\ strikes \in 0 .. HangStrikes /\ persist \in {"unknown", "off"}

\* An engine whose slots were replayed, or found alive by a sidecar that came
\* back, is not replayed again: a restart of the sidecar, a hang that clears up and
\* a restart that failed never put an old checkpoint over a warm session.
ReplayedOnce == pc = "restore_each" => settled # gen

\* A checkpoint gives way only to a newer state, and one over 10 MiB never to an
\* empty one, whatever cleared the slot and wherever engine or sidecar died.
CheckpointAdvances ==
    [][\A s \in Slot : ckpt'[s] # ckpt[s] /\ ckpt[s] # None
          => ckpt'[s] > ckpt[s] \/ (ckpt'[s] = 0 /\ ckpt[s] \in Small)]_vars

\* A slot that stays idle with tokens in it comes to have its state on disk, while
\* the engine answers and saves: the churn guard never mistakes new work for old.
\* (Excepted: a wait_health(600) gave up, so last_sig is of an earlier engine.)
CheckpointCatchesUp ==
    \A s \in Slot :
        <>[](engine = "up" /\ persist = "unknown" /\ ~ refuses /\ ~ busy[s] /\ state[s] # 0 /\ ~ gaveUp)
           => <>[](ckpt[s] = state[s])

\* A sidecar that is past its start gets a hung engine going again, although its
\* restarts may fail and it may be anywhere in a save or a replay.
HangEnds == (engine = "deaf" /\ pc # "start") ~> (engine # "deaf" \/ pc = "start")

\* "server hangs (health-deaf, same PID)", "sidecar forces systemctl --user
\* restart" (docs/OPERATIONS.md): no hung engine stays hung.
HungEngineRestarted == (engine = "deaf") ~> (engine # "deaf")

\* "on every new server instance, before serving traffic" (docs/OPERATIONS.md):
\* no client is served by an engine that was not replayed.
ReplayBeforeTraffic == \A s \in Slot : busy[s] => settled = gen
=============================================================================
