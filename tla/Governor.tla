------------------------------ MODULE Governor ------------------------------
(***************************************************************************)
(* The cooperative-VRAM governor (vitriol-governor/src) and the part of    *)
(* the engine it drives.  The governor samples the GPUs once a second,     *)
(* walks the ladder Full -> Relieved -> Resized -> Yielded under sustained *)
(* pressure of a foreign tenant and back to Full after sustained recovery, *)
(* executes the actions its policy returned, and only then persists the    *)
(* policy.  Time stamps of the code are kept here as AGES, capped at       *)
(* AgeCap: the code only ever compares now - stamp with one of its holds,  *)
(* so an age that has reached the largest hold behaves like any older one. *)
(* The clock is assumed not to step back.                                  *)
(***************************************************************************)
EXTENDS Integers, Sequences

CONSTANTS
    ConfirmSecs,     \* confirm_secs: pressure before Relieved
    ResizeHoldSecs,  \* resize_hold_secs: pressure before leaving Relieved upwards
    YieldHoldSecs,   \* yield_hold_secs: pressure before leaving Resized upwards
    RecoverSecs,     \* recover_secs: clear samples before walking back
    MinDwellSecs,    \* min_dwell_secs: spacing of the heavy transitions
    ResizeChoices,   \* the values of resize_enabled to consider
    AgeCap,          \* bound: ages are not counted past this one
    FaultKinds,      \* which faults may happen, see Fault
    MaxFaults        \* bound: how many faults happen in a behaviour

ASSUME HoldsAssumption ==
    /\ ConfirmSecs \in Nat /\ ResizeHoldSecs \in Nat /\ YieldHoldSecs \in Nat
    /\ RecoverSecs \in Nat /\ MinDwellSecs \in Nat /\ AgeCap \in Nat
    /\ ConfirmSecs <= AgeCap /\ ResizeHoldSecs <= AgeCap
    /\ YieldHoldSecs <= AgeCap /\ RecoverSecs <= AgeCap
    /\ MinDwellSecs <= AgeCap

ASSUME FaultsAssumption ==
    /\ ResizeChoices \subseteq BOOLEAN
    /\ FaultKinds \subseteq {"call", "store", "engine", "stop", "crash", "dry"}
    /\ MaxFaults \in Nat

Phases == {"Full", "Relieved", "Resized", "Yielded"}
Profiles == {"full", "yield"}
Levels == {"low", "mid", "high"}   \* below the floor, between, at the ceiling
Effects == {"relieve", "relieve_undo", "resize", "resize_undo", "load_yield",
            "load_full", "restart", "health", "yield_oom"}

None == -1                         \* a streak that is not running
Ages == 0 .. AgeCap
Since == Ages \cup {None}

\* A persisted policy; an age of AgeCap also stands for last_transition = 0.
Policies == [phase : Phases, press_since : Since, clear_since : Since,
             last_transition : Ages]

DefaultPolicy == [phase |-> "Full", press_since |-> None,
                  clear_since |-> None, last_transition |-> AgeCap]

\* What the governor can change of an engine: "broken" is an engine whose
\* context rebuild failed, floor a raised eager-sweep floor, protected the
\* OOM protection its unit gives it.
EngineStates == [state : {"up", "starting", "broken"}, profile : Profiles,
                 n_ctx : {"full", "small"}, floor : BOOLEAN, protected : BOOLEAN]

VARIABLES
    phase,            \* Policy.phase
    press_since,      \* age of Policy.press_since, or None
    clear_since,      \* age of Policy.clear_since, or None
    last_transition,  \* age of Policy.last_transition
    file,             \* the state file, as state::load would read it
    pc,               \* run_tick: sleep between ticks, exec within one; dead: no process
    todo,             \* the effects of the returned actions still to execute
    dry,              \* the process runs with --dry-run
    config,           \* the profile the launcher's configuration names
    engine,           \* the engine process
    weather,          \* what the samples are from now on: mixed, calm or storm
    resize_enabled,   \* resize_enabled of the governor's configuration
    faults,           \* faults so far
    sinceHeavy        \* history: age of the last heavy transition decided

policyVars == <<phase, press_since, clear_since, last_transition, sinceHeavy>>
envVars == <<weather, resize_enabled>>
vars == <<policyVars, file, pc, todo, dry, config, engine, envVars, faults>>

-----------------------------------------------------------------------------
(* Faults: a failed call of execute ("call"), a state file that cannot be  *)
(* written ("store"), an engine that dies and is restarted by its unit     *)
(* ("engine"), a governor that is stopped between ticks ("stop") or dies   *)
(* within one ("crash"), a process started with --dry-run ("dry").         *)
Fault(kind) ==
    /\ kind \in FaultKinds
    /\ faults < MaxFaults
    /\ faults' = faults + 1

-----------------------------------------------------------------------------
(* policy.rs                                                               *)

\* One observation: the levels of the GPUs NVML could read, and whether a
\* foreign tenant is resident.  No level at all: NVML failed, and no tenant.
Samples == {s \in [free : SUBSET Levels, foreign : BOOLEAN] :
              s.free = {} => ~s.foreign}

\* engine_up: /health answers, which it also does with a failed context.
EngineUp == engine.state \in {"up", "broken"}

Pressured(s) == EngineUp /\ s.foreign /\ "low" \in s.free

Cleared(s) == ~s.foreign /\ s.free # {} /\ s.free \subseteq {"high"}

DwellOk == last_transition >= MinDwellSecs

\* check_streak: the streak after one sample, and whether it has held.
Streak(active, since) ==
    IF ~active THEN None ELSE IF since = None THEN 0 ELSE since

Held(active, since, hold) == active /\ Streak(active, since) >= hold

\* Mutant: the streak that caused the transition is kept.
Transition_KeepsStreaks(to, heavy) ==
    /\ phase' = to
    /\ UNCHANGED <<press_since, clear_since>>
    /\ IF heavy THEN last_transition' = 0 /\ sinceHeavy' = 0
                ELSE UNCHANGED <<last_transition, sinceHeavy>>

\* transition: the phase changes, both streaks restart, a heavy one arms
\* the dwell clock.
Transition(to, heavy) ==
    /\ phase' = to
    /\ press_since' = None
    /\ clear_since' = None
    /\ IF heavy THEN last_transition' = 0 /\ sinceHeavy' = 0
                ELSE UNCHANGED <<last_transition, sinceHeavy>>

\* No action is returned: only the streaks move.
Observe(press, clear) ==
    /\ press_since' = press
    /\ clear_since' = clear
    /\ UNCHANGED <<phase, last_transition, sinceHeavy>>
    /\ todo' = <<>>

YieldEffects == <<"load_yield", "restart", "health", "yield_oom">>

\* Mutant: the restore restarts the engine without loading the full profile.
RestoreEffects_NoLoad == <<"restart", "health">>

RestoreEffects == <<"load_full", "restart", "health">>

DecideFull(s) ==
    /\ phase = "Full"
    /\ IF Held(Pressured(s), press_since, ConfirmSecs)
         THEN Transition("Relieved", FALSE) /\ todo' = <<"relieve">>
         ELSE Observe(Streak(Pressured(s), press_since), clear_since)

DecideRelieved(s) ==
    /\ phase = "Relieved"
    /\ IF Held(Cleared(s), clear_since, RecoverSecs)
         THEN Transition("Full", FALSE) /\ todo' = <<"relieve_undo">>
         ELSE IF Held(Pressured(s), press_since, ResizeHoldSecs) /\ DwellOk
         THEN IF resize_enabled
                THEN Transition("Resized", TRUE) /\ todo' = <<"resize">>
                ELSE Transition("Yielded", TRUE) /\ todo' = YieldEffects
         ELSE Observe(Streak(Pressured(s), press_since),
                      Streak(Cleared(s), clear_since))

\* Mutant: the last escalation is missing.
DecideResized_NoYield(s) ==
    /\ phase = "Resized"
    /\ IF Held(Cleared(s), clear_since, RecoverSecs) /\ DwellOk
         THEN /\ Transition("Full", TRUE)
              /\ todo' = <<"resize_undo", "relieve_undo">>
         ELSE Observe(Streak(Pressured(s), press_since),
                      Streak(Cleared(s), clear_since))

DecideResized(s) ==
    /\ phase = "Resized"
    /\ IF Held(Cleared(s), clear_since, RecoverSecs) /\ DwellOk
         THEN /\ Transition("Full", TRUE)
              /\ todo' = <<"resize_undo", "relieve_undo">>
         ELSE IF Held(Pressured(s), press_since, YieldHoldSecs)
         THEN Transition("Yielded", TRUE) /\ todo' = YieldEffects
         ELSE Observe(Streak(Pressured(s), press_since),
                      Streak(Cleared(s), clear_since))

\* Mutant: the recovery streak is evaluated but never kept.
DecideYielded_NoStreak(s) ==
    /\ phase = "Yielded"
    /\ IF Held(Cleared(s), clear_since, RecoverSecs) /\ DwellOk
         THEN Transition("Full", TRUE) /\ todo' = RestoreEffects
         ELSE Observe(press_since, clear_since)

DecideYielded(s) ==
    /\ phase = "Yielded"
    /\ IF Held(Cleared(s), clear_since, RecoverSecs) /\ DwellOk
         THEN Transition("Full", TRUE) /\ todo' = RestoreEffects
         ELSE Observe(press_since, Streak(Cleared(s), clear_since))

Decide(s) == DecideFull(s) \/ DecideRelieved(s) \/ DecideResized(s) \/ DecideYielded(s)

\* The samples the machine may show: any, only clear ones, only pressure.
Seen(s) ==
    /\ weather = "calm" => Cleared(s)
    /\ weather = "storm" => s.foreign /\ "low" \in s.free

\* run_tick up to the returned actions.
Tick ==
    /\ pc = "sleep"
    /\ \E s \in Samples : Seen(s) /\ Decide(s)
    /\ pc' = "exec"
    /\ UNCHANGED <<file, dry, config, engine, envVars, faults>>

-----------------------------------------------------------------------------
(* main.rs execute*, engine.rs, and the engine's answers                   *)

\* A step of execute on the engine or the configuration that succeeded.
Done ==
    /\ todo' = Tail(todo)
    /\ UNCHANGED <<policyVars, file, pc, dry, envVars>>

\* A failed call of execute_yield or execute_restore aborts that action; the
\* phase is not rolled back.
Abort ==
    /\ todo' = <<>>
    /\ UNCHANGED <<policyVars, file, pc, dry, envVars>>

Doing(effects) == pc = "exec" /\ ~dry /\ todo # <<>> /\ Head(todo) \in effects

\* POST /kv-policy: the server (server-context.cpp, SERVER_TASK_TYPE_KV_POLICY)
\* sets the eager-sweep floor.  An error is only logged, so a call that timed
\* out after the server applied it is a success.
KvPolicy ==
    /\ Doing({"relieve", "relieve_undo"})
    /\ Done
    /\ UNCHANGED config
    /\ \/ /\ engine.state = "up"
          /\ engine' = [engine EXCEPT !.floor = (Head(todo) = "relieve")]
          /\ UNCHANGED faults
       \/ engine.state = "up" /\ Fault("call") /\ UNCHANGED engine
       \/ engine.state # "up" /\ UNCHANGED <<engine, faults>>

\* POST /ctx/resize: the server (SERVER_TASK_TYPE_CTX_RESIZE) refuses the
\* window it already has; otherwise it frees the context and builds one of the
\* new size, whose KV cache starts with the floor of the environment (0).  A
\* failed rebuild leaves no model.
CtxResize ==
    LET window == IF Head(todo) = "resize" THEN "small" ELSE "full"
    IN /\ Doing({"resize", "resize_undo"})
       /\ Done
       /\ UNCHANGED config
       /\ \/ /\ engine.state = "up" /\ engine.n_ctx # window
             /\ engine' = [engine EXCEPT !.n_ctx = window, !.floor = FALSE]
             /\ UNCHANGED faults
          \/ /\ engine.state = "up" /\ engine.n_ctx # window
             /\ Fault("call")
             /\ engine' \in {engine, [engine EXCEPT !.state = "broken"]}
          \/ /\ engine.state # "up" \/ engine.n_ctx = window
             /\ UNCHANGED <<engine, faults>>

\* scripts/vitriol config load <profile>
ConfigLoad ==
    /\ Doing({"load_yield", "load_full"})
    /\ UNCHANGED engine
    /\ \/ /\ config' = IF Head(todo) = "load_yield" THEN "yield" ELSE "full"
          /\ Done
          /\ UNCHANGED faults
       \/ Fault("call") /\ Abort /\ UNCHANGED config

\* systemctl restart: the engine is down until EngineReady.  A failing
\* systemctl may or may not have stopped it.
UnitRestart ==
    /\ Doing({"restart"})
    /\ UNCHANGED config
    /\ \/ /\ engine' = [engine EXCEPT !.state = "starting"]
          /\ Done
          /\ UNCHANGED faults
       \/ /\ Fault("call")
          /\ Abort
          /\ engine' \in {engine, [engine EXCEPT !.state = "starting"]}

\* wait_health: healthy in time, or health_timeout_secs passed.
WaitHealth ==
    /\ Doing({"health"})
    /\ UNCHANGED <<config, engine>>
    /\ \/ EngineUp /\ Done /\ UNCHANGED faults
       \/ ~EngineUp /\ Fault("call") /\ Abort

\* apply_yield_oom: every engine pid loses its OOM protection; an error is
\* only logged, and there may be no pid.
YieldOom ==
    /\ Doing({"yield_oom"})
    /\ Done
    /\ UNCHANGED config
    /\ \/ /\ engine' = [engine EXCEPT !.protected = @ /\ ~EngineUp]
          /\ UNCHANGED faults
       \/ Fault("call") /\ UNCHANGED engine

\* Under --dry-run every execute_* returns before its first call.
DryExecute ==
    /\ pc = "exec" /\ dry /\ todo # <<>>
    /\ todo' = <<>>
    /\ UNCHANGED <<policyVars, file, pc, dry, config, engine, envVars, faults>>

Execute == KvPolicy \/ CtxResize \/ ConfigLoad \/ UnitRestart \/ WaitHealth
             \/ YieldOom \/ DryExecute

-----------------------------------------------------------------------------
(* state.rs                                                                *)

\* Mutant: the streaks are skipped when the policy is written.
Persisted_NoStreaks == [phase |-> phase, last_transition |-> last_transition]

Persisted == [phase |-> phase, press_since |-> press_since,
              clear_since |-> clear_since, last_transition |-> last_transition]

\* store: temporary file and rename; an error leaves the old file.
Store ==
    /\ pc = "exec" /\ todo = <<>>
    /\ pc' = "sleep"
    /\ \/ file' = Persisted /\ UNCHANGED faults
       \/ Fault("store") /\ UNCHANGED file
    /\ UNCHANGED <<policyVars, todo, dry, config, engine, envVars>>

\* Mutant: the stamp of the last heavy transition is not read back.
Load_NoStamp ==
    /\ phase' = file.phase
    /\ press_since' = file.press_since
    /\ clear_since' = file.clear_since
    /\ last_transition' = AgeCap

\* load: the whole policy, streaks included, as it was stored.
Load ==
    /\ phase' = file.phase
    /\ press_since' = file.press_since
    /\ clear_since' = file.clear_since
    /\ last_transition' = file.last_transition

\* The process ends between two ticks (a stop, or --once), or dies within one.
Crash ==
    /\ \/ pc = "sleep" /\ Fault("stop")
       \/ pc = "exec" /\ Fault("crash")
    /\ pc' = "dead"
    /\ todo' = <<>>
    /\ UNCHANGED <<policyVars, file, dry, config, engine, envVars>>

\* main: load the state file and enter the loop.
Start ==
    /\ pc = "dead"
    /\ Load
    /\ pc' = "sleep"
    /\ \/ dry' = FALSE /\ UNCHANGED faults
       \/ dry' = TRUE /\ Fault("dry")
    /\ UNCHANGED <<file, todo, config, engine, envVars, sinceHeavy>>

-----------------------------------------------------------------------------
(* The engine unit (Restart=always), the clock and the other GPU tenants   *)

EngineReady ==
    /\ engine.state = "starting"
    /\ engine' = [state |-> "up", profile |-> config, floor |-> FALSE,
                  n_ctx |-> IF config = "full" THEN "full" ELSE "small",
                  protected |-> TRUE]
    /\ UNCHANGED <<policyVars, file, pc, todo, dry, config, envVars, faults>>

EngineDies ==
    /\ EngineUp
    /\ Fault("engine")
    /\ engine' = [engine EXCEPT !.state = "starting"]
    /\ UNCHANGED <<policyVars, file, pc, todo, dry, config, envVars>>

Older(age) == IF age = None \/ age = AgeCap THEN age ELSE age + 1

OlderPolicy(p) == [p EXCEPT !.press_since = Older(@), !.clear_since = Older(@),
                            !.last_transition = Older(@)]

\* One second passes, whatever the governor is doing.
Second ==
    /\ press_since' = Older(press_since)
    /\ clear_since' = Older(clear_since)
    /\ last_transition' = Older(last_transition)
    /\ sinceHeavy' = Older(sinceHeavy)
    /\ file' = OlderPolicy(file)
    /\ UNCHANGED <<phase, pc, todo, dry, config, engine, envVars, faults>>

\* From now on the samples are all clear, or all show a squeezing tenant.
Settle ==
    /\ weather = "mixed"
    /\ weather' \in {"calm", "storm"}
    /\ UNCHANGED <<policyVars, file, pc, todo, dry, config, engine, resize_enabled,
                   faults>>

Init ==
    /\ phase = "Full" /\ press_since = None /\ clear_since = None
    /\ last_transition = AgeCap /\ sinceHeavy = AgeCap
    /\ file = DefaultPolicy
    /\ pc = "sleep" /\ todo = <<>> /\ dry = FALSE
    /\ config = "full"
    /\ engine = [state |-> "starting", profile |-> "full", floor |-> FALSE,
                 n_ctx |-> "full", protected |-> TRUE]
    /\ weather = "mixed"
    /\ resize_enabled \in ResizeChoices
    /\ faults = 0

Governor == Tick \/ Execute \/ Store \/ Start

Next == Governor \/ Crash \/ EngineReady \/ EngineDies \/ Second \/ Settle

Spec == Init /\ [][Next]_vars
\* The loop never stops by itself, the clock runs, systemd brings the engine
\* (Restart=always) and a stopped governor back.
FairSpec ==
    /\ Spec
    /\ WF_vars(Tick) /\ WF_vars(Execute) /\ WF_vars(Store) /\ WF_vars(Start)
    /\ WF_vars(Second) /\ WF_vars(EngineReady)

-----------------------------------------------------------------------------
(* Properties                                                              *)

\* Every variable has its type: what state.rs writes and reads back is a whole
\* policy, whose ages never pass the cap, and the fault count keeps its bound.
TypeOK ==
    /\ phase \in Phases
    /\ press_since \in Since /\ clear_since \in Since
    /\ last_transition \in Ages /\ sinceHeavy \in Ages
    /\ file \in Policies
    /\ pc \in {"sleep", "exec", "dead"}
    /\ todo \in Seq(Effects)
    /\ dry \in BOOLEAN
    /\ config \in Profiles
    /\ engine \in EngineStates
    /\ weather \in {"mixed", "calm", "storm"}
    /\ resize_enabled \in ResizeChoices
    /\ faults \in 0 .. MaxFaults

\* The streaks of a policy: never both running, and a phase that does not
\* sample one of them holds none of it.
Disciplined(p) ==
    /\ p.press_since = None \/ p.clear_since = None
    /\ p.phase = "Full" => p.clear_since = None
    /\ p.phase = "Yielded" => p.press_since = None

\* decide_full never resets clear_since and decide_yielded never resets
\* press_since, yet no evidence gathered in one phase survives into another,
\* in memory or in the state file: a stale streak would make the next walk
\* back or escalation fire on a single sample.
StreakDiscipline == Disciplined(Persisted) /\ Disciplined(file)

\* What the phase says has been done to the engine.
Agree ==
    /\ engine.profile = config
    /\ config = IF phase = "Yielded" THEN "yield" ELSE "full"
    /\ engine.n_ctx = IF phase \in {"Resized", "Yielded"} THEN "small" ELSE "full"
    /\ engine.floor = (phase = "Relieved")
    /\ engine.protected = (phase # "Yielded")

\* As long as no call failed and no process died, the engine between two
\* ticks is exactly what the phase says: each rung of the ladder undoes or
\* overrides what the rung before it did (run_tick, execute).
PhaseAgreesWithEngine == faults = 0 /\ pc = "sleep" => Agree

Heavy == phase' # phase /\ ({phase, phase'} \cap {"Resized", "Yielded"} # {})

\* Two heavy transitions are at least min_dwell_secs apart, across restarts of
\* the governor too; only the escalation from Resized to Yielded is exempt.
HeavyTransitionsDwell ==
    [][(pc = "sleep" /\ pc' = "exec" /\ Heavy)
         => \/ sinceHeavy >= MinDwellSecs
            \/ phase = "Resized" /\ phase' = "Yielded"]_vars

\* When the tenant is gone for good the ladder is walked back to Full, from
\* wherever faults, failed calls and restarts left it.
CalmEndsInFull == <>[](weather = "calm" => phase = "Full")

\* Under lasting pressure the ladder is climbed to its last rung.
StormEndsInYielded == <>[](weather = "storm" => phase = "Yielded")

\* policy.rs, Phase::Full: "No active mitigation."
FullMeansNoMitigation ==
    phase = "Full" /\ pc = "sleep" /\ engine.state = "up"
      => engine.profile = "full" /\ engine.n_ctx = "full" /\ ~engine.floor
=============================================================================
