--------------------------- MODULE GovernorProofs ---------------------------
(***************************************************************************)
(* Theorems about the governor, for every choice of the holds, of the      *)
(* faults and of their number.                                             *)
(***************************************************************************)
EXTENDS Governor, TLAPS

\* check_streak yields a streak: none, or an age within the cap.
LEMMA StreakType ==
    ASSUME NEW active \in BOOLEAN, NEW since \in Since
    PROVE  Streak(active, since) \in Since
  BY HoldsAssumption DEF Streak, Since, Ages, None

\* Growing older keeps an age within the cap, and keeps a missing streak.
LEMMA OlderType ==
    /\ \A a \in Since : Older(a) \in Since
    /\ \A a \in Ages : Older(a) \in Ages
    /\ \A a \in Since : (Older(a) = None) <=> (a = None)
  BY HoldsAssumption DEF Older, Since, Ages, None

\* The conditions of a sample are Boolean.
LEMMA SampleType ==
    ASSUME TypeOK, NEW s \in Samples
    PROVE  Pressured(s) \in BOOLEAN /\ Cleared(s) \in BOOLEAN
  BY DEF Pressured, Cleared, Samples, EngineUp

\* A fault keeps the count within its bound.
LEMMA FaultType ==
    ASSUME TypeOK, NEW kind, Fault(kind)
    PROVE  faults' \in 0 .. MaxFaults
  BY FaultsAssumption DEF TypeOK, Fault

\* Whatever a sample makes decide do, the policy and the actions keep their types.
LEMMA DecideType ==
    ASSUME TypeOK, NEW s \in Samples, Decide(s)
    PROVE  /\ phase' \in Phases
           /\ press_since' \in Since /\ clear_since' \in Since
           /\ last_transition' \in Ages /\ sinceHeavy' \in Ages
           /\ todo' \in Seq(Effects)
  <1>. USE SampleType, HoldsAssumption
  <1>1. /\ Streak(Pressured(s), press_since) \in Since
        /\ Streak(Cleared(s), clear_since) \in Since
    BY StreakType DEF TypeOK
  <1>2. /\ YieldEffects \in Seq(Effects)
        /\ RestoreEffects \in Seq(Effects)
        /\ <<>> \in Seq(Effects)
        /\ <<"relieve">> \in Seq(Effects)
        /\ <<"relieve_undo">> \in Seq(Effects)
        /\ <<"resize">> \in Seq(Effects)
        /\ <<"resize_undo", "relieve_undo">> \in Seq(Effects)
    BY DEF YieldEffects, RestoreEffects, Effects
  <1>3. None \in Since /\ 0 \in Ages
    BY DEF Since, Ages
  <1>4. CASE DecideFull(s)
    BY <1>1, <1>2, <1>3, <1>4 DEF DecideFull, Transition, Observe, TypeOK, Phases
  <1>5. CASE DecideRelieved(s)
    BY <1>1, <1>2, <1>3, <1>5 DEF DecideRelieved, Transition, Observe, TypeOK, Phases
  <1>6. CASE DecideResized(s)
    BY <1>1, <1>2, <1>3, <1>6 DEF DecideResized, Transition, Observe, TypeOK, Phases
  <1>7. CASE DecideYielded(s)
    BY <1>1, <1>2, <1>3, <1>7 DEF DecideYielded, Transition, Observe, TypeOK, Phases
  <1>. QED  BY <1>4, <1>5, <1>6, <1>7 DEF Decide

\* Every step of execute, its failures included, keeps the types.
LEMMA ExecuteType ==
    ASSUME TypeOK, Execute
    PROVE  TypeOK'
  <1>0. <<>> \in Seq(Effects)
    OBVIOUS
  <1>1. Tail(todo) \in Seq(Effects) \/ todo = <<>>
    BY DEF TypeOK
  <1>. USE FaultType
  <1>2. CASE KvPolicy
    <2>1. (Head(todo) = "relieve") \in BOOLEAN
      OBVIOUS
    <2>2. engine' \in EngineStates
      BY <1>2, <2>1 DEF KvPolicy, TypeOK, EngineStates
    <2>3. faults' \in 0 .. MaxFaults
      BY <1>2 DEF KvPolicy, TypeOK
    <2>. QED  BY <1>1, <1>2, <2>2, <2>3 DEF KvPolicy, Doing, Done, TypeOK, policyVars, envVars
  <1>3. CASE CtxResize
    <2>1. engine' \in EngineStates
      BY <1>3 DEF CtxResize, TypeOK, EngineStates
    <2>2. faults' \in 0 .. MaxFaults
      BY <1>3 DEF CtxResize, TypeOK
    <2>. QED  BY <1>1, <1>3, <2>1, <2>2 DEF CtxResize, Doing, Done, TypeOK, policyVars, envVars
  <1>4. CASE ConfigLoad
    <2>1. todo' \in Seq(Effects)
      BY <1>0, <1>1, <1>4 DEF ConfigLoad, Doing, Done, Abort
    <2>2. config' \in Profiles /\ faults' \in 0 .. MaxFaults
      BY <1>4 DEF ConfigLoad, TypeOK, Profiles
    <2>3. UNCHANGED <<policyVars, file, pc, dry, envVars, engine>>
      BY <1>4 DEF ConfigLoad, Done, Abort
    <2>. QED  BY <2>1, <2>2, <2>3 DEF TypeOK, policyVars, envVars
  <1>5. CASE UnitRestart
    <2>1. todo' \in Seq(Effects)
      BY <1>0, <1>1, <1>5 DEF UnitRestart, Doing, Done, Abort
    <2>2. engine' \in EngineStates /\ faults' \in 0 .. MaxFaults
      BY <1>5 DEF UnitRestart, TypeOK, EngineStates
    <2>3. UNCHANGED <<policyVars, file, pc, dry, envVars, config>>
      BY <1>5 DEF UnitRestart, Done, Abort
    <2>. QED  BY <2>1, <2>2, <2>3 DEF TypeOK, policyVars, envVars
  <1>6. CASE WaitHealth
    <2>1. todo' \in Seq(Effects)
      BY <1>0, <1>1, <1>6 DEF WaitHealth, Doing, Done, Abort
    <2>2. faults' \in 0 .. MaxFaults
      BY <1>6 DEF WaitHealth, TypeOK
    <2>3. UNCHANGED <<policyVars, file, pc, dry, envVars, config, engine>>
      BY <1>6 DEF WaitHealth, Done, Abort
    <2>. QED  BY <2>1, <2>2, <2>3 DEF TypeOK, policyVars, envVars
  <1>7. CASE YieldOom
    <2>1. (engine.protected /\ ~EngineUp) \in BOOLEAN
      BY DEF EngineUp
    <2>2. engine' \in EngineStates /\ faults' \in 0 .. MaxFaults
      BY <1>7, <2>1 DEF YieldOom, TypeOK, EngineStates
    <2>. QED  BY <1>1, <1>7, <2>2 DEF YieldOom, Doing, Done, TypeOK, policyVars, envVars
  <1>8. CASE DryExecute
    BY <1>0, <1>8 DEF DryExecute, TypeOK, policyVars, envVars
  <1>. QED  BY <1>2, <1>3, <1>4, <1>5, <1>6, <1>7, <1>8 DEF Execute

\* Every step keeps the variables in their types.
LEMMA NextType ==
    ASSUME TypeOK, [Next]_vars
    PROVE  TypeOK'
  <1>. USE FaultType
  <1>1. CASE Tick
    BY <1>1, DecideType DEF Tick, TypeOK, envVars
  <1>2. CASE Execute
    BY <1>2, ExecuteType
  <1>3. CASE Store
    BY <1>3 DEF Store, Persisted, Policies, TypeOK, policyVars, envVars
  <1>4. CASE Start
    BY <1>4 DEF Start, Load, Policies, TypeOK, policyVars, envVars
  <1>5. CASE Crash
    BY <1>5 DEF Crash, TypeOK, policyVars, envVars
  <1>6. CASE EngineReady
    BY <1>6 DEF EngineReady, TypeOK, EngineStates, policyVars, envVars, Profiles
  <1>7. CASE EngineDies
    BY <1>7 DEF EngineDies, TypeOK, EngineStates, policyVars, envVars
  <1>8. CASE Second
    <2>1. file' \in Policies
      BY <1>8, OlderType DEF Second, OlderPolicy, Policies, TypeOK
    <2>. QED  BY <1>8, <2>1, OlderType DEF Second, TypeOK, policyVars, envVars
  <1>9. CASE Settle
    BY <1>9 DEF Settle, TypeOK, policyVars, envVars
  <1>10. CASE UNCHANGED vars
    BY <1>10 DEF vars, policyVars, envVars, TypeOK
  <1>. QED
    BY <1>1, <1>2, <1>3, <1>4, <1>5, <1>6, <1>7, <1>8, <1>9, <1>10 DEF Next, Governor

\* The default policy and a starting engine are of the right types.
LEMMA InitType == Init => TypeOK
  <1>. SUFFICES ASSUME Init PROVE TypeOK
    OBVIOUS
  <1>1. None \in Since /\ AgeCap \in Ages /\ "Full" \in Phases
    BY HoldsAssumption DEF Since, Ages, Phases
  <1>2. file \in Policies
    BY <1>1 DEF Init, DefaultPolicy, Policies
  <1>3. engine \in EngineStates /\ config \in Profiles
    BY DEF Init, EngineStates, Profiles
  <1>4. todo \in Seq(Effects) /\ faults \in 0 .. MaxFaults
    BY FaultsAssumption DEF Init
  <1>. QED  BY <1>1, <1>2, <1>3, <1>4 DEF Init, TypeOK

\* Type correctness of the governor and of the engine state it drives.
THEOREM GovernorTypeCorrect == Spec => []TypeOK
  <1>. QED  BY InitType, NextType, PTL DEF Spec
-----------------------------------------------------------------------------
(* Streaks                                                                 *)

\* No sample is both pressure and recovery: the two disagree on the tenant.
LEMMA PressureExcludesRecovery ==
    ASSUME NEW s \in Samples
    PROVE  ~(Pressured(s) /\ Cleared(s))
  BY DEF Pressured, Cleared

\* decide leaves at most the streak that the phase it ends in samples.
LEMMA DecideDisciplined ==
    ASSUME TypeOK, StreakDiscipline, NEW s \in Samples, Decide(s)
    PROVE  Disciplined(Persisted)'
  <1>1. ~(Pressured(s) /\ Cleared(s))
    BY PressureExcludesRecovery
  <1>2. \A since : Streak(FALSE, since) = None
    BY DEF Streak
  <1>3. ~Pressured(s) => Streak(Pressured(s), press_since) = None
    BY DEF Streak
  <1>4. ~Cleared(s) => Streak(Cleared(s), clear_since) = None
    BY DEF Streak
  <1>. USE DEF Disciplined, Persisted, StreakDiscipline, Transition, Observe
  <1>5. CASE DecideFull(s)
    BY <1>5 DEF DecideFull
  <1>6. CASE DecideRelieved(s)
    BY <1>1, <1>3, <1>4, <1>6 DEF DecideRelieved
  <1>7. CASE DecideResized(s)
    BY <1>1, <1>3, <1>4, <1>7 DEF DecideResized
  <1>8. CASE DecideYielded(s)
    BY <1>8 DEF DecideYielded
  <1>. QED  BY <1>5, <1>6, <1>7, <1>8 DEF Decide

\* No evidence of one phase survives into another, in memory or in the file,
\* whatever faults happen: StreakDiscipline is inductive given the types.
THEOREM GovernorStreakDiscipline == Spec => []StreakDiscipline
  <1>1. Init => StreakDiscipline
    BY DEF Init, StreakDiscipline, Disciplined, Persisted, DefaultPolicy
  <1>2. TypeOK /\ StreakDiscipline /\ [Next]_vars => StreakDiscipline'
    <2>. SUFFICES ASSUME TypeOK, StreakDiscipline, [Next]_vars
                  PROVE  StreakDiscipline'
      OBVIOUS
    <2>1. CASE Tick
      BY <2>1, DecideDisciplined DEF Tick, StreakDiscipline, Disciplined
    <2>2. CASE Second
      <3>1. /\ file'.phase = file.phase
            /\ file'.press_since = Older(file.press_since)
            /\ file'.clear_since = Older(file.clear_since)
        BY <2>2 DEF Second, OlderPolicy, TypeOK, Policies
      <3>2. /\ file.press_since \in Since /\ file.clear_since \in Since
            /\ press_since \in Since /\ clear_since \in Since
        BY DEF TypeOK, Policies
      <3>. QED
        BY <2>2, <3>1, <3>2, OlderType DEF Second, StreakDiscipline, Disciplined, Persisted
    <2>3. CASE Store
      BY <2>3 DEF Store, StreakDiscipline, Disciplined, Persisted, policyVars
    <2>4. CASE Start
      BY <2>4 DEF Start, Load, StreakDiscipline, Disciplined, Persisted
    <2>5. CASE UNCHANGED <<policyVars, file>>
      BY <2>5 DEF policyVars, StreakDiscipline, Disciplined, Persisted
    <2>6. CASE Execute \/ Crash \/ EngineReady \/ EngineDies \/ Settle \/ UNCHANGED vars
      BY <2>6, <2>5 DEF Execute, KvPolicy, CtxResize, ConfigLoad, UnitRestart, WaitHealth,
         YieldOom, DryExecute, Done, Abort, Crash, EngineReady, EngineDies, Settle, vars
    <2>. QED  BY <2>1, <2>2, <2>3, <2>4, <2>6 DEF Next, Governor
  <1>. QED  BY <1>1, <1>2, GovernorTypeCorrect, PTL DEF Spec

-----------------------------------------------------------------------------
(* Dwell                                                                   *)

\* The stamp in memory, and outside a tick the one in the file, is the age of
\* the last heavy transition that was ever decided.
DwellStampIsTrue ==
    /\ last_transition = sinceHeavy
    /\ pc # "exec" => file.last_transition = sinceHeavy

\* When no tick is lost half-way (no crash within one, no failed store), the
\* heavy transitions keep min_dwell_secs apart across restarts, failed calls
\* and engine deaths.
THEOREM GovernorDwell ==
    ASSUME "crash" \notin FaultKinds, "store" \notin FaultKinds
    PROVE  Spec => HeavyTransitionsDwell
  <1>1. Init => DwellStampIsTrue
    BY DEF Init, DwellStampIsTrue, DefaultPolicy
  <1>2. TypeOK /\ DwellStampIsTrue /\ [Next]_vars => DwellStampIsTrue'
    <2>. SUFFICES ASSUME TypeOK, DwellStampIsTrue, [Next]_vars
                  PROVE  DwellStampIsTrue'
      OBVIOUS
    <2>1. CASE Tick
      <3>1. last_transition' = sinceHeavy'
        BY <2>1 DEF Tick, Decide, DecideFull, DecideRelieved, DecideResized, DecideYielded,
           Transition, Observe, DwellStampIsTrue
      <3>. QED  BY <2>1, <3>1 DEF Tick, DwellStampIsTrue
    <2>2. CASE Second
      <3>1. file'.last_transition = Older(file.last_transition)
        BY <2>2 DEF Second, OlderPolicy, TypeOK, Policies
      <3>. QED  BY <2>2, <3>1 DEF Second, DwellStampIsTrue
    <2>3. CASE Store
      BY <2>3 DEF Store, Fault, DwellStampIsTrue, Persisted, policyVars
    <2>4. CASE Start
      BY <2>4 DEF Start, Load, DwellStampIsTrue
    <2>5. CASE Crash
      BY <2>5 DEF Crash, Fault, DwellStampIsTrue, policyVars
    <2>6. CASE UNCHANGED <<policyVars, file, pc>>
      BY <2>6 DEF policyVars, DwellStampIsTrue
    <2>7. CASE Execute \/ EngineReady \/ EngineDies \/ Settle \/ UNCHANGED vars
      BY <2>7, <2>6 DEF Execute, KvPolicy, CtxResize, ConfigLoad, UnitRestart, WaitHealth,
         YieldOom, DryExecute, Done, Abort, EngineReady, EngineDies, Settle, vars
    <2>. QED  BY <2>1, <2>2, <2>3, <2>4, <2>5, <2>7 DEF Next, Governor
  <1>3. TypeOK /\ DwellStampIsTrue /\ [Next]_vars
          => [(pc = "sleep" /\ pc' = "exec" /\ Heavy)
                => \/ sinceHeavy >= MinDwellSecs
                   \/ phase = "Resized" /\ phase' = "Yielded"]_vars
    <2>. SUFFICES ASSUME TypeOK, DwellStampIsTrue, [Next]_vars,
                         pc = "sleep", pc' = "exec", Heavy
                  PROVE  \/ sinceHeavy >= MinDwellSecs
                         \/ phase = "Resized" /\ phase' = "Yielded"
      OBVIOUS
    <2>1. Tick
      BY DEF Next, Governor, Execute, KvPolicy, CtxResize, ConfigLoad, UnitRestart, WaitHealth,
         YieldOom, DryExecute, Doing, Store, Start, Crash, EngineReady, EngineDies, Second,
         Settle, vars
    <2>2. PICK s \in Samples : Decide(s)
      BY <2>1 DEF Tick
    <2>. QED
      BY <2>2 DEF Decide, DecideFull, DecideRelieved, DecideResized, DecideYielded,
         Transition, Observe, DwellOk, DwellStampIsTrue, Heavy
  <1>. QED
    BY <1>1, <1>2, <1>3, GovernorTypeCorrect, PTL DEF Spec, HeavyTransitionsDwell
-----------------------------------------------------------------------------
(* The phase and the engine                                                *)

\* Engine e, configured by profile c, looks as phase p says; Agree is AsIn(phase).
Looks(e, c, p) ==
    /\ e.profile = c
    /\ c = IF p = "Yielded" THEN "yield" ELSE "full"
    /\ e.n_ctx = IF p \in {"Resized", "Yielded"} THEN "small" ELSE "full"
    /\ e.floor = (p = "Relieved")
    /\ e.protected = (p # "Yielded")
AsIn(p) == Looks(engine, config, p)

\* An engine that was restarted with the yield profile and is still protected.
Fresh(e, c) ==
    /\ e.profile = "yield" /\ c = "yield" /\ e.n_ctx = "small"
    /\ e.floor = FALSE /\ e.protected = TRUE
Restarted == Fresh(engine, config)

\* Phase by phase.
LEMMA LooksIn ==
    ASSUME NEW e, NEW c
    PROVE  /\ Looks(e, c, "Full") <=> /\ e.profile = "full" /\ c = "full" /\ e.n_ctx = "full"
                                      /\ e.floor = FALSE /\ e.protected = TRUE
           /\ Looks(e, c, "Relieved") <=> /\ e.profile = "full" /\ c = "full" /\ e.n_ctx = "full"
                                          /\ e.floor = TRUE /\ e.protected = TRUE
           /\ Looks(e, c, "Resized") <=> /\ e.profile = "full" /\ c = "full" /\ e.n_ctx = "small"
                                         /\ e.floor = FALSE /\ e.protected = TRUE
           /\ Looks(e, c, "Yielded") <=> /\ e.profile = "yield" /\ c = "yield" /\ e.n_ctx = "small"
                                         /\ e.floor = FALSE /\ e.protected = FALSE
  <1>1. /\ ("Full" = "Relieved") = FALSE /\ ("Resized" = "Relieved") = FALSE
        /\ ("Yielded" = "Relieved") = FALSE /\ ("Relieved" = "Relieved") = TRUE
        /\ ("Full" # "Yielded") = TRUE /\ ("Relieved" # "Yielded") = TRUE
        /\ ("Resized" # "Yielded") = TRUE /\ ("Yielded" # "Yielded") = FALSE
    OBVIOUS
  <1>. QED  BY <1>1 DEF Looks

\* Where the engine stands for every list of calls that is still to be made: before
\* the first call it looks as in the phase that was left, after the last one as in
\* the new phase, and a starting engine will look as its configuration says.
Underway ==
    \/ todo = <<>> /\ AsIn(phase)
    \/ todo = <<"relieve">> /\ phase = "Relieved" /\ AsIn("Full")
    \/ todo = <<"relieve_undo">> /\ phase = "Full" /\ (AsIn("Relieved") \/ AsIn("Full"))
    \/ todo = <<"resize">> /\ phase = "Resized" /\ AsIn("Relieved")
    \/ todo = <<"resize_undo", "relieve_undo">> /\ phase = "Full" /\ AsIn("Resized")
    \/ todo = <<"load_yield", "restart", "health", "yield_oom">> /\ phase = "Yielded"
    \/ todo = <<"restart", "health", "yield_oom">> /\ phase = "Yielded" /\ config = "yield"
    \/ /\ todo = <<"health", "yield_oom">> /\ phase = "Yielded" /\ config = "yield"
       /\ engine.state = "up" => Restarted
    \/ todo = <<"yield_oom">> /\ phase = "Yielded" /\ Restarted
    \/ todo = <<"load_full", "restart", "health">> /\ phase = "Full"
    \/ todo = <<"restart", "health">> /\ phase = "Full" /\ config = "full"
    \/ /\ todo = <<"health">> /\ phase = "Full" /\ config = "full"
       /\ engine.state = "up" => AsIn("Full")

\* Without faults the governor is alive and executes what it decides; the engine
\* starts only at the beginning, in phase Full, and while its health is awaited.
FaultFree ==
    /\ pc \in {"sleep", "exec"} /\ dry = FALSE
    /\ pc = "sleep" => todo = <<>>
    /\ engine.state \in {"up", "starting"}
    /\ engine.state = "starting"
         => \/ todo = <<>> /\ phase = "Full"
            \/ todo \in {<<"health">>, <<"health", "yield_oom">>}
    /\ Underway

\* Faults are only counted up.
LEMMA FaultsMonotone ==
    ASSUME TypeOK, [Next]_vars, faults' = 0
    PROVE  faults = 0 /\ ~ \E kind : Fault(kind)
  <1>1. faults \in Nat
    BY FaultsAssumption DEF TypeOK
  <1>2. ~ \E kind : Fault(kind)
    BY <1>1 DEF Fault
  <1>3. UNCHANGED faults
    BY <1>2 DEF Next, Governor, Tick, Execute, KvPolicy, CtxResize, ConfigLoad, UnitRestart,
       WaitHealth, YieldOom, DryExecute, Store, Start, Crash, EngineReady, EngineDies, Second,
       Settle, vars
  <1>. QED  BY <1>2, <1>3

\* decide leaves the engine alone and lists the calls that lead to the new phase;
\* pressure is seen, and the ladder climbed, only while the engine is up.
LEMMA TickFaultFree ==
    ASSUME TypeOK, FaultFree, Tick
    PROVE  FaultFree'
  <1>1. PICK s \in Samples : Decide(s)
    BY DEF Tick
  <1>2. /\ todo = <<>> /\ AsIn(phase) /\ pc' = "exec"
        /\ UNCHANGED <<dry, config, engine>>
    BY DEF Tick, FaultFree, Underway
  <1>3. Pressured(s) => engine.state = "up"
    BY DEF Pressured, EngineUp, FaultFree
  <1>4. engine.state = "starting" => phase = "Full"
    BY <1>2 DEF FaultFree
  <1>5. engine.state \in {"up", "starting"} /\ dry = FALSE
    BY DEF FaultFree
  <1>. USE DEF Transition, Observe
  <1>6. CASE DecideFull(s)
    <2>1. \/ phase' = "Full" /\ todo' = <<>>
          \/ engine.state = "up" /\ phase = "Full" /\ phase' = "Relieved" /\ todo' = <<"relieve">>
      BY <1>3, <1>6 DEF DecideFull, Held
    <2>. QED  BY <1>2, <1>4, <1>5, <1>6, <2>1 DEF DecideFull, FaultFree, Underway, AsIn
  <1>7. CASE DecideRelieved(s)
    <2>1. \/ phase' = "Relieved" /\ todo' = <<>>
          \/ phase' = "Full" /\ todo' = <<"relieve_undo">>
          \/ phase' = "Resized" /\ todo' = <<"resize">>
          \/ phase' = "Yielded" /\ todo' = YieldEffects
      BY <1>7 DEF DecideRelieved
    <2>2. phase = "Relieved" /\ engine.state = "up"
      BY <1>4, <1>5, <1>7 DEF DecideRelieved
    <2>. QED  BY <1>2, <1>5, <2>1, <2>2 DEF FaultFree, Underway, AsIn, YieldEffects
  <1>8. CASE DecideResized(s)
    <2>1. \/ phase' = "Resized" /\ todo' = <<>>
          \/ phase' = "Full" /\ todo' = <<"resize_undo", "relieve_undo">>
          \/ phase' = "Yielded" /\ todo' = YieldEffects
      BY <1>8 DEF DecideResized
    <2>2. phase = "Resized" /\ engine.state = "up"
      BY <1>4, <1>5, <1>8 DEF DecideResized
    <2>. QED  BY <1>2, <1>5, <2>1, <2>2 DEF FaultFree, Underway, AsIn, YieldEffects
  <1>9. CASE DecideYielded(s)
    <2>1. \/ phase' = "Yielded" /\ todo' = <<>>
          \/ phase' = "Full" /\ todo' = RestoreEffects
      BY <1>9 DEF DecideYielded
    <2>2. phase = "Yielded" /\ engine.state = "up"
      BY <1>4, <1>5, <1>9 DEF DecideYielded
    <2>. QED  BY <1>2, <1>5, <2>1, <2>2 DEF FaultFree, Underway, AsIn, RestoreEffects
  <1>. QED  BY <1>1, <1>6, <1>7, <1>8, <1>9 DEF Decide

\* The rest of every list of calls, and which call is the first.
LEMMA CallLists ==
    /\ Tail(<<"relieve">>) = <<>> /\ Tail(<<"relieve_undo">>) = <<>> /\ Tail(<<"resize">>) = <<>>
    /\ Tail(<<"resize_undo", "relieve_undo">>) = <<"relieve_undo">>
    /\ Tail(<<"load_yield", "restart", "health", "yield_oom">>) = <<"restart", "health", "yield_oom">>
    /\ Tail(<<"restart", "health", "yield_oom">>) = <<"health", "yield_oom">>
    /\ Tail(<<"health", "yield_oom">>) = <<"yield_oom">> /\ Tail(<<"yield_oom">>) = <<>>
    /\ Tail(<<"load_full", "restart", "health">>) = <<"restart", "health">>
    /\ Tail(<<"restart", "health">>) = <<"health">> /\ Tail(<<"health">>) = <<>>
    /\ Head(<<"resize">>) = "resize" /\ Head(<<"resize_undo", "relieve_undo">>) = "resize_undo"
    /\ Head(<<"load_yield", "restart", "health", "yield_oom">>) = "load_yield"
    /\ Head(<<"load_full", "restart", "health">>) = "load_full"
  OBVIOUS

\* Each call that succeeds moves the engine to where the rest of the list expects it.
LEMMA ExecuteFaultFree ==
    ASSUME TypeOK, FaultFree, Execute, ~ \E kind : Fault(kind)
    PROVE  FaultFree'
  <1>0. engine \in EngineStates /\ pc = "exec" /\ dry = FALSE /\ todo # <<>>
    BY DEF TypeOK, Execute, KvPolicy, CtxResize, ConfigLoad, UnitRestart, WaitHealth, YieldOom,
       DryExecute, Doing, FaultFree
  <1>1. CASE KvPolicy
    <2>1. \/ todo = <<"relieve">> /\ phase = "Relieved" /\ AsIn("Full")
          \/ todo = <<"relieve_undo">> /\ phase = "Full" /\ (AsIn("Relieved") \/ AsIn("Full"))
      BY <1>1 DEF KvPolicy, Doing, FaultFree, Underway
    <2>2. engine.state = "up"
      BY <2>1 DEF FaultFree
    <2>3. /\ todo' = <<>> /\ engine' = [engine EXCEPT !.floor = (Head(todo) = "relieve")]
          /\ UNCHANGED <<phase, pc, dry, config>>
      BY <1>1, <2>1, <2>2, CallLists DEF KvPolicy, Done, policyVars
    <2>4. (Head(todo) = "relieve") = (phase = "Relieved")
      BY <2>1
    <2>5. /\ engine'.state = "up" /\ engine'.profile = engine.profile
          /\ engine'.n_ctx = engine.n_ctx /\ engine'.protected = engine.protected
          /\ engine'.floor = (phase = "Relieved")
      BY <1>0, <2>2, <2>3, <2>4 DEF EngineStates
    <2>6. AsIn(phase)'
      <3>1. CASE phase = "Relieved"
        BY <2>1, <2>3, <2>5, <3>1, LooksIn DEF AsIn
      <3>2. CASE phase = "Full"
        <4>1. engine'.floor = FALSE
          BY <2>5, <3>2
        <4>. QED  BY <2>1, <2>3, <2>5, <3>2, <4>1, LooksIn DEF AsIn
      <3>. QED  BY <2>1, <3>1, <3>2
    <2>. QED  BY <1>0, <2>3, <2>5, <2>6 DEF FaultFree, Underway
  <1>2. CASE CtxResize
    <2>1. \/ todo = <<"resize">> /\ phase = "Resized" /\ AsIn("Relieved")
          \/ todo = <<"resize_undo", "relieve_undo">> /\ phase = "Full" /\ AsIn("Resized")
      BY <1>2 DEF CtxResize, Doing, FaultFree, Underway
    <2>2. engine.state = "up"
      BY <2>1 DEF FaultFree
    <2>. DEFINE window == IF Head(todo) = "resize" THEN "small" ELSE "full"
    <2>3. engine.n_ctx # window /\ window = IF phase = "Resized" THEN "small" ELSE "full"
      <3>1. CASE todo = <<"resize">> /\ phase = "Resized" /\ AsIn("Relieved")
        BY <3>1, CallLists, LooksIn DEF AsIn
      <3>2. CASE todo = <<"resize_undo", "relieve_undo">> /\ phase = "Full" /\ AsIn("Resized")
        BY <3>2, CallLists, LooksIn DEF AsIn
      <3>. QED  BY <2>1, <3>1, <3>2
    <2>4. /\ todo' = Tail(todo) /\ engine' = [engine EXCEPT !.n_ctx = window, !.floor = FALSE]
          /\ UNCHANGED <<phase, pc, dry, config>>
      BY <1>2, <2>2, <2>3 DEF CtxResize, Done, policyVars
    <2>5. /\ engine'.state = "up" /\ engine'.profile = engine.profile
          /\ engine'.n_ctx = window /\ engine'.protected = engine.protected
          /\ engine'.floor = FALSE
      BY <1>0, <2>2, <2>4 DEF EngineStates
    <2>6. AsIn(phase)'
      BY <2>1, <2>3, <2>4, <2>5, LooksIn DEF AsIn
    <2>7. \/ todo' = <<>>
          \/ todo' = <<"relieve_undo">> /\ phase' = "Full"
      BY <2>1, <2>4, CallLists
    <2>. QED  BY <1>0, <2>4, <2>5, <2>6, <2>7 DEF FaultFree, Underway
  <1>3. CASE ConfigLoad
    <2>1. \/ todo = <<"load_yield", "restart", "health", "yield_oom">> /\ phase = "Yielded"
          \/ todo = <<"load_full", "restart", "health">> /\ phase = "Full"
      BY <1>3 DEF ConfigLoad, Doing, FaultFree, Underway
    <2>2. engine.state = "up"
      BY <2>1 DEF FaultFree
    <2>3. /\ todo' = Tail(todo) /\ config' = IF Head(todo) = "load_yield" THEN "yield" ELSE "full"
          /\ UNCHANGED <<phase, pc, dry, engine>>
      BY <1>3 DEF ConfigLoad, Done, policyVars
    <2>4. \/ todo' = <<"restart", "health", "yield_oom">> /\ phase' = "Yielded" /\ config' = "yield"
          \/ todo' = <<"restart", "health">> /\ phase' = "Full" /\ config' = "full"
      BY <2>1, <2>3, CallLists
    <2>. QED  BY <1>0, <2>2, <2>3, <2>4 DEF FaultFree, Underway
  <1>4. CASE UnitRestart
    <2>1. \/ todo = <<"restart", "health", "yield_oom">> /\ phase = "Yielded" /\ config = "yield"
          \/ todo = <<"restart", "health">> /\ phase = "Full" /\ config = "full"
      BY <1>4 DEF UnitRestart, Doing, FaultFree, Underway
    <2>2. /\ todo' = Tail(todo) /\ engine'.state = "starting"
          /\ UNCHANGED <<phase, pc, dry, config>>
      BY <1>0, <1>4 DEF UnitRestart, Done, policyVars, EngineStates
    <2>3. \/ todo' = <<"health", "yield_oom">> /\ phase' = "Yielded" /\ config' = "yield"
          \/ todo' = <<"health">> /\ phase' = "Full" /\ config' = "full"
      BY <2>1, <2>2, CallLists
    <2>. QED  BY <1>0, <2>2, <2>3 DEF FaultFree, Underway
  <1>5. CASE WaitHealth
    <2>1. \/ /\ todo = <<"health", "yield_oom">> /\ phase = "Yielded"
             /\ engine.state = "up" => Restarted
          \/ /\ todo = <<"health">> /\ phase = "Full"
             /\ engine.state = "up" => AsIn("Full")
      BY <1>5 DEF WaitHealth, Doing, FaultFree, Underway
    <2>2. engine.state = "up"
      BY <1>5 DEF WaitHealth, EngineUp, FaultFree
    <2>3. todo' = Tail(todo) /\ UNCHANGED <<phase, pc, dry, config, engine>>
      BY <1>5 DEF WaitHealth, Done, policyVars
    <2>4. \/ todo' = <<"yield_oom">> /\ phase' = "Yielded" /\ Restarted'
          \/ todo' = <<>> /\ phase' = "Full" /\ AsIn("Full")'
      BY <2>1, <2>2, <2>3, CallLists DEF Restarted, AsIn
    <2>5. todo' = <<>> => AsIn(phase)'
      BY <2>4 DEF AsIn
    <2>. QED  BY <1>0, <2>2, <2>3, <2>4, <2>5 DEF FaultFree, Underway
  <1>6. CASE YieldOom
    <2>1. todo = <<"yield_oom">> /\ phase = "Yielded" /\ Restarted
      BY <1>6 DEF YieldOom, Doing, FaultFree, Underway
    <2>2. engine.state = "up"
      BY <2>1 DEF FaultFree
    <2>3. /\ todo' = <<>> /\ engine' = [engine EXCEPT !.protected = @ /\ ~EngineUp]
          /\ UNCHANGED <<phase, pc, dry, config>>
      BY <1>6, <2>1, CallLists DEF YieldOom, Done, policyVars
    <2>4. (engine.protected /\ ~EngineUp) = FALSE
      BY <2>2 DEF EngineUp
    <2>5. /\ engine'.state = "up" /\ engine'.profile = engine.profile
          /\ engine'.n_ctx = engine.n_ctx /\ engine'.floor = engine.floor
          /\ engine'.protected = FALSE
      BY <1>0, <2>2, <2>3, <2>4 DEF EngineStates
    <2>6. AsIn(phase)'
      BY <2>1, <2>3, <2>5, LooksIn DEF AsIn, Restarted, Fresh
    <2>. QED  BY <1>0, <2>3, <2>5, <2>6 DEF FaultFree, Underway
  <1>7. CASE DryExecute
    BY <1>0, <1>7 DEF DryExecute
  <1>. QED  BY <1>1, <1>2, <1>3, <1>4, <1>5, <1>6, <1>7 DEF Execute

\* As long as no call failed and no process died, the engine between two ticks is
\* exactly what the phase says, for all holds.
THEOREM GovernorPhaseAgrees == Spec => []PhaseAgreesWithEngine
  <1>. DEFINE Inv == faults = 0 => FaultFree
  <1>1. Init => Inv
    <2>. SUFFICES ASSUME Init PROVE FaultFree
      OBVIOUS
    <2>1. AsIn(phase)
      BY LooksIn DEF Init, AsIn
    <2>. QED  BY <2>1 DEF Init, FaultFree, Underway
  <1>2. TypeOK /\ Inv /\ [Next]_vars => Inv'
    <2>. SUFFICES ASSUME TypeOK, Inv, [Next]_vars, faults' = 0
                  PROVE  FaultFree'
      OBVIOUS
    <2>0. faults = 0 /\ FaultFree /\ ~ \E kind : Fault(kind)
      BY FaultsMonotone
    <2>1. CASE Tick
      BY <2>0, <2>1, TickFaultFree
    <2>2. CASE Execute
      BY <2>0, <2>2, ExecuteFaultFree
    <2>3. CASE Store
      BY <2>0, <2>3 DEF Store, FaultFree, Underway, AsIn, policyVars
    <2>4. CASE EngineReady
      <3>1. /\ \/ todo = <<>> /\ phase = "Full" /\ config = "full"
               \/ todo = <<"health">> /\ phase = "Full" /\ config = "full"
               \/ todo = <<"health", "yield_oom">> /\ phase = "Yielded" /\ config = "yield"
            /\ pc \in {"sleep", "exec"} /\ dry = FALSE /\ (pc = "sleep" => todo = <<>>)
        <4>1. CASE todo = <<>> /\ phase = "Full"
          BY <2>0, <4>1, LooksIn DEF FaultFree, Underway, AsIn
        <4>2. CASE todo \in {<<"health">>, <<"health", "yield_oom">>}
          BY <2>0, <4>2 DEF FaultFree, Underway
        <4>. QED  BY <2>0, <2>4, <4>1, <4>2 DEF EngineReady, FaultFree
      <3>2. /\ UNCHANGED <<phase, pc, todo, dry, config>>
            /\ engine'.state = "up" /\ engine'.profile = config /\ engine'.floor = FALSE
            /\ engine'.n_ctx = (IF config = "full" THEN "full" ELSE "small")
            /\ engine'.protected = TRUE
        BY <2>4 DEF EngineReady, policyVars
      <3>3. phase = "Full" => AsIn("Full")' /\ AsIn(phase)'
        BY <3>1, <3>2, LooksIn DEF AsIn
      <3>4. phase = "Yielded" => Restarted'
        BY <3>1, <3>2 DEF Restarted, Fresh
      <3>. QED  BY <3>1, <3>2, <3>3, <3>4 DEF FaultFree, Underway
    <2>5. CASE Start \/ Crash \/ EngineDies
      BY <2>0, <2>5 DEF Start, Crash, EngineDies, FaultFree
    <2>6. CASE UNCHANGED <<phase, pc, todo, dry, config, engine>>
      BY <2>0, <2>6 DEF FaultFree, Underway, AsIn, Restarted
    <2>7. CASE Second \/ Settle \/ UNCHANGED vars
      BY <2>6, <2>7 DEF Second, Settle, vars, policyVars
    <2>. QED  BY <2>1, <2>2, <2>3, <2>4, <2>5, <2>7 DEF Next, Governor
  <1>3. Inv => PhaseAgreesWithEngine
    BY DEF PhaseAgreesWithEngine, Agree, FaultFree, Underway, AsIn, Looks
  <1>. QED  BY <1>1, <1>2, <1>3, GovernorTypeCorrect, PTL DEF Spec
=============================================================================
