-------------------------- MODULE SlotPersistProofs --------------------------
(***************************************************************************)
(* Theorems about the sidecar: which engine it replays, and what its saves *)
(* and replays do to the checkpoints, for any number of slots, strikes and *)
(* faults.                                                                 *)
(***************************************************************************)
EXTENDS SlotPersist, TLAPS

-----------------------------------------------------------------------------
(* ReplayedOnce *)

\* The generations the sidecar knows of are past or present ones, and the one it
\* has settled is not later than the one it has recorded.
Generations ==
    /\ gen \in Nat
    /\ identity = None \/ (identity \in Nat /\ identity <= gen)
    /\ settled = None \/ (settled \in Nat /\ identity \in Nat /\ settled <= identity)

\* While a replay is on, its engine is not the settled one; between the check and
\* the list the engine may be dead.
Unsettled ==
    /\ pc = "restore_list" => settled # gen \/ engine = "down"
    /\ pc = "restore_each" => settled # gen

ReplayInv == Generations /\ Unsettled

LEMMA NoneIsNoNumber == None \notin Nat
  BY SidecarAssumption

\* A new engine is settled by nobody.
LEMMA StartKeepsReplayInv ==
    ASSUME ReplayInv, Start, UNCHANGED <<identity, settled>>,
           pc' \in {"restore_list", "restore_each"} => pc' = pc
    PROVE  ReplayInv'
  BY NoneIsNoNumber DEF ReplayInv, Generations, Unsettled, Start

\* Steps that leave engine and history alone keep the invariant when they do not
\* enter a replay, or leave one.
LEMMA StayKeepsReplayInv ==
    ASSUME ReplayInv, UNCHANGED <<gen, identity, settled>>,
           pc' \in {"restore_list", "restore_each"} => pc' = pc,
           engine = "down" => engine' = "down"
    PROVE  ReplayInv'
  BY DEF ReplayInv, Generations, Unsettled

LEMMA EngineKeepsReplayInv ==
    ASSUME ReplayInv, Die \/ Boot \/ Ready \/ Hang \/ Recover \/ Clients \/ Crash
    PROVE  ReplayInv'
  <1>1. CASE Boot
    BY <1>1, StartKeepsReplayInv DEF Boot, files, place, history
  <1>2. CASE Die \/ Ready \/ Hang \/ Recover
    BY <1>2, StayKeepsReplayInv DEF Die, Ready, Hang, Recover, files, place, history
  <1>3. CASE Clients
    BY <1>3, StayKeepsReplayInv DEF Clients, Serve, Finish, process, files, place, history
  <1>4. CASE Crash
    BY <1>4, StayKeepsReplayInv DEF Crash, process, files
  <1>. QED  BY <1>1, <1>2, <1>3, <1>4

LEMMA SaveKeepsReplayInv ==
    ASSUME ReplayInv, Save, back \in {"tick", "baseline", "bounce"}
    PROVE  ReplayInv'
  <1>1. UNCHANGED <<gen, engine, identity, settled>>
    BY DEF Save, SaveBegin, SaveList, SaveReplace, SaveDone, SavePost, SaveFails,
           process, files, history
  <1>2. pc' \in {"restore_list", "restore_each"} => pc' = pc
    BY DEF Save, SaveBegin, SaveList, SaveReplace, SaveDone, SavePost, SaveFails, Goto
  <1>. QED  BY <1>1, <1>2, StayKeepsReplayInv

LEMMA RestoreKeepsReplayInv ==
    ASSUME ReplayInv, Restore
    PROVE  ReplayInv'
  <1>1. CASE RestoreBegin
    BY <1>1, NoneIsNoNumber
    DEF RestoreBegin, SameEngine, server_pid, Goto, ReplayInv, Generations, Unsettled, process, history
  <1>2. CASE RestoreList
    BY <1>2 DEF RestoreList, Goto, ReplayInv, Generations, Unsettled, process, files, history
  <1>3. ASSUME NEW s \in Slot, RestoreSlot(s)  PROVE ReplayInv'
    BY <1>3, StayKeepsReplayInv DEF RestoreSlot, process, files
  <1>4. CASE Restored
    BY <1>4 DEF Restored, ReplayInv, Generations, Unsettled, process, files
  <1>. QED  BY <1>1, <1>2, <1>3, <1>4 DEF Restore

LEMMA MainKeepsReplayInv ==
    ASSUME ReplayInv, Main
    PROVE  ReplayInv'
  <1>1. CASE Restart
    BY <1>1, StartKeepsReplayInv DEF Restart, systemctl, Goto, files, history
  <1>2. CASE Tick
    BY <1>2, StayKeepsReplayInv DEF Tick, NewGeneration, SameGeneration, Goto, process, files, history
  <1>3. CASE Healthy \/ HealthTimeout \/ RestartFails \/ Bounce \/ SaveDue \/ NotDue
    <2>1. UNCHANGED <<gen, engine, identity, settled>>
      BY <1>3 DEF Healthy, HealthTimeout, RestartFails, systemctl, Bounce, SaveDue, NotDue,
                  process, files, history
    <2>2. pc' \in {"restore_list", "restore_each"} => pc' = pc
      BY <1>3 DEF Healthy, HealthTimeout, RestartFails, systemctl, Bounce, SaveDue, NotDue, Goto
    <2>. QED  BY <2>1, <2>2, StayKeepsReplayInv
  <1>. QED  BY <1>1, <1>2, <1>3 DEF Main

\* save_idle returns to a place of the main loop.
BackOK == back \in {"tick", "baseline", "bounce"}

LEMMA BackStep == BackOK /\ [Next]_vars => BackOK'
  <1>. SUFFICES ASSUME BackOK, [Next]_vars  PROVE BackOK'
    OBVIOUS
  <1>1. CASE Save
    BY <1>1 DEF BackOK, Save, SaveBegin, SaveList, SaveReplace, SaveDone, SavePost, SaveFails, Goto
  <1>2. CASE Restore
    BY <1>2 DEF BackOK, Restore, RestoreBegin, RestoreList, RestoreSlot, Restored, Goto
  <1>3. CASE Main
    BY <1>3 DEF BackOK, Main, Healthy, HealthTimeout, Tick, NewGeneration, SameGeneration, Restart,
                RestartFails, systemctl, Bounce, SaveDue, NotDue, Goto
  <1>4. CASE Die \/ Boot \/ Ready \/ Hang \/ Recover
    BY <1>4 DEF BackOK, Die, Boot, Ready, Hang, Recover, place
  <1>5. CASE Clients
    BY <1>5 DEF BackOK, Clients, Serve, Finish, place
  <1>6. CASE Crash
    BY <1>6 DEF BackOK, Crash
  <1>7. CASE UNCHANGED vars
    BY <1>7 DEF BackOK, vars, place
  <1>. QED  BY <1>1, <1>2, <1>3, <1>4, <1>5, <1>6, <1>7 DEF Next, Sidecar

LEMMA ReplayStep == BackOK /\ ReplayInv /\ [Next]_vars => ReplayInv'
  <1>. SUFFICES ASSUME BackOK, ReplayInv, [Next]_vars  PROVE ReplayInv'
    OBVIOUS
  <1>1. CASE UNCHANGED vars
    BY <1>1, StayKeepsReplayInv DEF vars, process, files, place, history
  <1>. QED
    BY <1>1, EngineKeepsReplayInv, SaveKeepsReplayInv, RestoreKeepsReplayInv, MainKeepsReplayInv
    DEF BackOK, Next, Sidecar

\* Spec implies ReplayedOnce: whatever dies, hangs, recovers or is restarted and in
\* whatever order, restore_all replays no engine it has already settled.
THEOREM SidecarReplayedOnce == Spec => []ReplayedOnce
  <1>1. Init => BackOK /\ ReplayInv
    BY NoneIsNoNumber DEF Init, BackOK, ReplayInv, Generations, Unsettled
  <1>2. ReplayInv => ReplayedOnce
    BY DEF ReplayInv, Unsettled, ReplayedOnce
  <1>. QED  BY <1>1, <1>2, BackStep, ReplayStep, PTL DEF Spec

-----------------------------------------------------------------------------
(* CheckpointAdvances *)

\* States are numbers of works that happened; a file need not be there.
Versions ==
    /\ work \in Nat
    /\ state \in [Slot -> Nat] /\ ckpt \in [Slot -> Nat \cup {None}]
    /\ \A s \in Slot : state[s] <= work /\ (ckpt[s] # None => ckpt[s] <= work)

\* What v is to the checkpoint of s: empty, or not older.
NotOlder(s, v) == v = 0 \/ ckpt[s] = None \/ ckpt[s] <= v

\* A slot is never behind its checkpoint; neither is the file a save has just
\* written, and the slot has not fallen behind that file.
Ahead ==
    /\ \A s \in Slot : NotOlder(s, state[s])
    /\ pc = "replace" => \E s \in Slot, v \in Nat :
          /\ tmp = <<s, v>> /\ v <= work
          /\ NotOlder(s, v) /\ (state[s] = 0 \/ v <= state[s])

\* Only slots with a checkpoint are replayed.
Replayable == pc = "restore_each" => \A s \in todo : s \in Slot /\ ckpt[s] # None

SaveInv == Versions /\ Ahead /\ Replayable

\* Steps that touch neither slots nor checkpoints and begin no replay and no save.
LEMMA StayKeepsSaveInv ==
    ASSUME SaveInv, UNCHANGED <<state, ckpt, work>>,
           pc' = "replace" => pc = "replace" /\ tmp' = tmp,
           pc' = "restore_each" => pc = "restore_each" /\ todo' \subseteq todo
    PROVE  SaveInv'
  BY DEF SaveInv, Versions, Ahead, NotOlder, Replayable

\* A dead engine leaves empty slots, which are behind nothing.
LEMMA SlotsGoneKeepsSaveInv ==
    ASSUME SaveInv, SlotsGone, UNCHANGED ckpt,
           pc' = "replace" => pc = "replace" /\ tmp' = tmp,
           pc' = "restore_each" => pc = "restore_each" /\ todo' = todo
    PROVE  SaveInv'
  BY DEF SaveInv, Versions, Ahead, NotOlder, Replayable, SlotsGone

LEMMA ServeKeepsSaveInv ==
    ASSUME SaveInv, NEW s \in Slot, Serve(s)
    PROVE  SaveInv'
  <1>1. UNCHANGED <<ckpt, pc, tmp, todo>> /\ work' = work + 1
    BY DEF Serve, files, place
  <1>2. PICK C \in SUBSET Slot :
           state' = [t \in Slot |-> IF t \in C THEN 0 ELSE IF t = s THEN work + 1 ELSE state[t]]
    BY DEF Serve
  <1>3. Versions'
    BY <1>1, <1>2 DEF SaveInv, Versions
  <1>4. \A t \in Slot : state'[t] \in {0, state[t]} \/ state'[t] = work + 1
    BY <1>2
  <1>5. \A t \in Slot : NotOlder(t, state[t])'
    BY <1>1, <1>4, NoneIsNoNumber DEF SaveInv, Versions, Ahead, NotOlder
  <1>6. pc' = "replace" => \E t \in Slot, v \in Nat :
           /\ tmp' = <<t, v>> /\ v <= work'
           /\ NotOlder(t, v)' /\ (state'[t] = 0 \/ v <= state'[t])
    <2>. SUFFICES ASSUME pc' = "replace"
                  PROVE  \E t \in Slot, v \in Nat :
                            /\ tmp' = <<t, v>> /\ v <= work'
                            /\ NotOlder(t, v)' /\ (state'[t] = 0 \/ v <= state'[t])
      OBVIOUS
    <2>1. PICK t \in Slot, v \in Nat :
             /\ tmp = <<t, v>> /\ v <= work
             /\ NotOlder(t, v) /\ (state[t] = 0 \/ v <= state[t])
      BY <1>1 DEF SaveInv, Ahead
    <2>2. NotOlder(t, v)' /\ v <= work' /\ tmp' = <<t, v>>
      BY <1>1, <2>1 DEF NotOlder, SaveInv, Versions
    <2>3. state'[t] = 0 \/ v <= state'[t]
      BY <1>4, <2>1 DEF SaveInv, Versions
    <2>. QED  BY <2>2, <2>3
  <1>. QED  BY <1>1, <1>3, <1>5, <1>6 DEF SaveInv, Ahead, Replayable

LEMMA EngineKeepsSaveInv ==
    ASSUME SaveInv, Die \/ Boot \/ Ready \/ Hang \/ Recover \/ Clients \/ Crash
    PROVE  SaveInv'
  <1>1. CASE Die
    BY <1>1, SlotsGoneKeepsSaveInv DEF Die, files, place
  <1>2. CASE Boot
    BY <1>2, SlotsGoneKeepsSaveInv DEF Boot, Start, files, place
  <1>3. CASE Ready \/ Hang \/ Recover
    BY <1>3, StayKeepsSaveInv DEF Ready, Hang, Recover, slots, files, place
  <1>4. CASE Clients
    <2>1. ASSUME NEW s \in Slot, Finish(s)  PROVE SaveInv'
      BY <2>1, StayKeepsSaveInv DEF Finish, files, place
    <2>. QED  BY <1>4, <2>1, ServeKeepsSaveInv DEF Clients
  <1>5. CASE Crash
    BY <1>5, StayKeepsSaveInv DEF Crash, slots, files
  <1>. QED  BY <1>1, <1>2, <1>3, <1>4, <1>5

LEMMA RestoreKeepsSaveInv ==
    ASSUME SaveInv, Restore
    PROVE  SaveInv'
  <1>1. CASE RestoreBegin
    BY <1>1, StayKeepsSaveInv DEF RestoreBegin, Goto, slots
  <1>2. CASE RestoreList
    BY <1>2 DEF RestoreList, Goto, slots, files, SaveInv, Versions, Ahead, NotOlder, Replayable
  <1>3. ASSUME NEW s \in Slot, RestoreSlot(s)  PROVE SaveInv'
    <2>1. /\ pc' = "restore_each" /\ pc = "restore_each" /\ todo' \subseteq todo
          /\ UNCHANGED <<ckpt, work>> /\ s \in todo
      BY <1>3 DEF RestoreSlot, NextSlot, files
    <2>2. state' \in {state, [state EXCEPT ![s] = 0], [state EXCEPT ![s] = ckpt[s]]}
      BY <1>3 DEF RestoreSlot
    <2>3. ckpt[s] \in Nat
      BY <2>1 DEF SaveInv, Versions, Replayable
    <2>4. Versions'
      BY <2>1, <2>2, <2>3, NoneIsNoNumber DEF SaveInv, Versions
    <2>5. Ahead'
      BY <2>1, <2>2, <2>3 DEF SaveInv, Versions, Ahead, NotOlder
    <2>. QED  BY <2>1, <2>4, <2>5 DEF SaveInv, Replayable
  <1>4. CASE Restored
    BY <1>4, StayKeepsSaveInv DEF Restored, slots, files
  <1>. QED  BY <1>1, <1>2, <1>3, <1>4 DEF Restore

LEMMA MainKeepsSaveInv ==
    ASSUME SaveInv, Main
    PROVE  SaveInv'
  <1>1. CASE Restart
    BY <1>1, SlotsGoneKeepsSaveInv DEF Restart, Start, systemctl, Goto, files
  <1>2. CASE Tick
    BY <1>2, StayKeepsSaveInv DEF Tick, NewGeneration, SameGeneration, Goto, slots, files
  <1>3. CASE Healthy \/ HealthTimeout \/ RestartFails \/ Bounce \/ SaveDue \/ NotDue
    BY <1>3, StayKeepsSaveInv
    DEF Healthy, HealthTimeout, RestartFails, systemctl, Bounce, SaveDue, NotDue, Goto, slots, files
  <1>. QED  BY <1>1, <1>2, <1>3 DEF Main

\* A file that replaces the checkpoint is not older, and the slot not behind it.
LEMMA ReplaceKeepsSaveInv ==
    ASSUME SaveInv, SaveReplace
    PROVE  SaveInv'
  <1>1. PICK s \in Slot, v \in Nat :
           /\ tmp = <<s, v>> /\ v <= work
           /\ NotOlder(s, v) /\ (state[s] = 0 \/ v <= state[s])
    BY DEF SaveInv, Ahead, SaveReplace
  <1>2. UNCHANGED <<state, work>> /\ pc' = "save_each"
    BY DEF SaveReplace, slots
  <1>3. ckpt' \in {ckpt, [ckpt EXCEPT ![s] = v]}
    BY <1>1 DEF SaveReplace
  <1>4. Versions'
    BY <1>1, <1>2, <1>3, NoneIsNoNumber DEF SaveInv, Versions
  <1>5. Ahead'
    BY <1>1, <1>2, <1>3, NoneIsNoNumber DEF SaveInv, Versions, Ahead, NotOlder
  <1>. QED  BY <1>2, <1>4, <1>5 DEF SaveInv, Replayable

LEMMA SaveKeepsSaveInv ==
    ASSUME SaveInv, BackOK, Save
    PROVE  SaveInv'
  <1>1. CASE SaveBegin \/ SaveList \/ SaveDone
    BY <1>1, StayKeepsSaveInv DEF SaveBegin, SaveList, SaveDone, Goto, BackOK, slots, files
  <1>2. ASSUME NEW s \in Slot, SaveFails(s)  PROVE SaveInv'
    BY <1>2, StayKeepsSaveInv DEF SaveFails, slots, files
  <1>3. ASSUME NEW s \in Slot, SavePost(s)  PROVE SaveInv'
    BY <1>3 DEF SavePost, slots, files, SaveInv, Versions, Ahead, NotOlder, Replayable
  <1>. QED  BY <1>1, <1>2, <1>3, ReplaceKeepsSaveInv DEF Save

LEMMA SaveInvStep == BackOK /\ SaveInv /\ [Next]_vars => SaveInv'
  <1>. SUFFICES ASSUME BackOK, SaveInv, [Next]_vars  PROVE SaveInv'
    OBVIOUS
  <1>1. CASE UNCHANGED vars
    BY <1>1, StayKeepsSaveInv DEF vars, slots, files, place
  <1>. QED
    BY <1>1, EngineKeepsSaveInv, SaveKeepsSaveInv, RestoreKeepsSaveInv, MainKeepsSaveInv
    DEF Next, Sidecar

\* What a step of the model may do to a checkpoint.
AdvanceStep ==
    \A s \in Slot : ckpt'[s] # ckpt[s] /\ ckpt[s] # None
        => ckpt'[s] > ckpt[s] \/ (ckpt'[s] = 0 /\ ckpt[s] \in Small)

LEMMA NextAdvances == SaveInv /\ [Next]_vars => AdvanceStep
  <1>. SUFFICES ASSUME SaveInv, [Next]_vars  PROVE AdvanceStep
    OBVIOUS
  <1>1. CASE SaveReplace
    <2>1. PICK s \in Slot, v \in Nat : tmp = <<s, v>> /\ NotOlder(s, v)
      BY <1>1 DEF SaveInv, Ahead, SaveReplace
    <2>2. ckpt' = IF Replaces(s, v) THEN [ckpt EXCEPT ![s] = v] ELSE ckpt
      BY <1>1, <2>1 DEF SaveReplace
    <2>. QED  BY <2>1, <2>2 DEF AdvanceStep, Replaces, NotOlder, SaveInv, Versions
  <1>2. CASE ~ SaveReplace
    <2>1. UNCHANGED ckpt
      BY <1>2 DEF Next, Sidecar, Save, SaveBegin, SaveList, SaveDone, SavePost, SaveFails,
             Restore, RestoreBegin, RestoreList, RestoreSlot, Restored,
             Main, Healthy, HealthTimeout, Tick, Restart, RestartFails, systemctl, Bounce, SaveDue, NotDue,
             Crash, Die, Boot, Ready, Hang, Recover, Clients, Serve, Finish, vars, files
    <2>. QED  BY <2>1 DEF AdvanceStep
  <1>. QED  BY <1>1, <1>2

\* Spec implies CheckpointAdvances: no interleaving of saves, replays, deaths and
\* cleared slots puts an older state into slotN.bin, or an empty one over a
\* checkpoint of more than 10 MiB.
THEOREM SidecarCheckpointAdvances == Spec => CheckpointAdvances
  <1>1. Init => BackOK /\ SaveInv
    BY NoneIsNoNumber DEF Init, BackOK, SaveInv, Versions, Ahead, NotOlder, Replayable
  <1>2. SaveInv /\ [Next]_vars => [AdvanceStep]_vars
    BY NextAdvances
  <1>. QED  BY <1>1, <1>2, BackStep, SaveInvStep, PTL DEF Spec, CheckpointAdvances, AdvanceStep
=============================================================================
