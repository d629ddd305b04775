--------------------------- MODULE JobsRuntime_proofs ---------------------------
(***************************************************************************)
(* Theorems about JobsRuntime for every number of executions, mutations    *)
(* and faults: a shutdown never ends before each handler still at work was *)
(* told to abort, a flush that resolves is a barrier, and no call hangs.   *)
(***************************************************************************)
EXTENDS JobsRuntime, TLAPS

\* Beside the types: no tick awaits nothing, and a start that waits has a try left.
Typed ==
    /\ TypeOK
    /\ tick.at = "none" => tick = NoTick
    /\ call["start"].at = "delay" => tries < MaxInitialTicks

\* A shutdown waits in its grace period for every handler at work; when the grace period
\* is over they have all been told to abort.
ShutdownInv ==
    LET s == call["shutdown"]
    IN /\ Pending("shutdown") => draining
       /\ s.at = "grace" => Handling \subseteq s.on
       /\ s.at \in {"aborting", "mutations"} => Handling \subseteq aborted

\* A flush waits phase by phase for what it has to cover: after the stages phase no stage
\* of these is at work, hence no further execution of theirs is started.
FlushInv ==
    LET f == call["flush"]
    IN /\ before \subseteq InProgress
       /\ f.at = "stages" => before \cap Stage \subseteq f.on
       /\ f.at \in {"executions", "tasks", "mutations"} => before \cap Stage = {}
       /\ f.at = "executions" => before \cap Execution \subseteq f.on
       /\ f.at \in {"tasks", "mutations"} => before \cap Execution = {}
       /\ f.at = "mutations" => before \cap Mutation \subseteq f.on

RuntimeInv == Typed /\ ShutdownInv /\ FlushInv

--------------------------------------------------------------------------------
(* The calls.                                                              *)

\* A call keeps its phase and stops to wait for nothing but what is in X.
KeepsWaiting(c, X) ==
    call'[c].at = call[c].at /\ call[c].on \ X \subseteq call'[c].on

\* The statuses of a thing that settles: only those that wait for it notice.
LEMMA SettledForm ==
  ASSUME NEW calls \in [Caller -> Call], NEW x, NEW ok
  PROVE  /\ Settled(calls, x, ok) \in [Caller -> Call]
         /\ \A c \in Caller : /\ Settled(calls, x, ok)[c].at = calls[c].at
                              /\ Settled(calls, x, ok)[c].on = calls[c].on \ {x}
<1>1. \A c \in Caller : calls[c] \in Call
  OBVIOUS
<1> QED BY <1>1 DEF Settled, Call

\* A call that is over waits for nothing.
LEMMA NoCallForm == NoCall \in Call /\ NoCall.at = "none" /\ NoCall.on = {}
BY DEF NoCall, Call, Phase

\* A call that ends tells those who wait for it, and nobody else notices.
LEMMA EndForm ==
  ASSUME call \in [Caller -> Call], NEW c \in Caller, NEW ok,
         call' = Settled([call EXCEPT ![c] = NoCall], c, ok)
  PROVE  /\ call' \in [Caller -> Call]
         /\ call'[c].at = "none" /\ call'[c].on = {}
         /\ \A d \in Caller \ {c} : call'[d].at = call[d].at /\ call'[d].on = call[d].on \ {c}
<1>1. PICK base \in [Caller -> Call] : base = [call EXCEPT ![c] = NoCall]
  BY NoCallForm
<1>2. base[c] = NoCall /\ \A d \in Caller \ {c} : base[d] = call[d]
  BY <1>1
<1>3. call' = Settled(base, c, ok)
  BY <1>1
<1>4. Settled(base, c, ok) \in [Caller -> Call]
  BY SettledForm
<1>5. call' \in [Caller -> Call]
  BY <1>3, <1>4, Zenon
<1>6. \A d \in Caller : call'[d].at = base[d].at
  BY <1>3, SettledForm
<1>7. \A d \in Caller : call'[d].on = base[d].on \ {c}
  BY <1>3, SettledForm
<1> QED BY <1>2, <1>5, <1>6, <1>7, NoCallForm

\* What a phase finds are things.
LEMMA EnterForm ==
  ASSUME TypeOK, NEW c \in Caller, NEW phase \in Phase \ {"none", "delay"}
  PROVE  /\ Enter(c, phase) \in Call /\ Enter(c, phase).at = phase
         /\ Enter(c, phase).on = Found(phase)
<1>1. call[c] \in Call
  BY DEF TypeOK
<1>2. Found(phase) \subseteq Thing
  BY DEF Found, Phase, Thing, TypeOK, ActiveExecutions, ActiveMutations, Handling
<1> QED BY <1>1, <1>2 DEF Enter, Call


--------------------------------------------------------------------------------
(* Types.                                                                  *)

\* The tick that goes on keeps its own types.
LEMMA GoesOnTyped ==
  ASSUME Typed, Ticking, NEW failed \in BOOLEAN,
         NEW pending \in SUBSET Stage, NEW calls \in [Caller -> Call],
         \/ /\ tick' = [tick EXCEPT !.at = Following(tick.at), !.failed = failed]
            /\ stages' = pending \cup {Following(tick.at)} /\ call' = calls
            /\ UNCHANGED failures
         \/ /\ tick' = NoTick /\ stages' = pending
            /\ call' = Settled(calls, "tick", ~failed)
            /\ failures' = (failures \/ (failed /\ tick.byTimer))
  PROVE  /\ tick' \in [at : Stage \cup {"none"}, failed : BOOLEAN, byTimer : BOOLEAN]
         /\ tick'.at = "none" => tick' = NoTick
         /\ stages' \subseteq Stage /\ call' \in [Caller -> Call] /\ failures' \in BOOLEAN
         /\ \A c \in Caller : /\ call'[c].at = calls[c].at
                              /\ calls[c].on \ {"tick"} \subseteq call'[c].on
<1>1. tick \in [at : Stage, failed : BOOLEAN, byTimer : BOOLEAN] /\ failures \in BOOLEAN
  BY DEF Typed, TypeOK, Ticking
<1>2. Following(tick.at) \in Stage
  BY DEF Following, Stage
<1>4. CASE /\ tick' = [tick EXCEPT !.at = Following(tick.at), !.failed = failed]
           /\ stages' = pending \cup {Following(tick.at)} /\ call' = calls
           /\ UNCHANGED failures
  <2>1. tick' \in [at : Stage, failed : BOOLEAN, byTimer : BOOLEAN]
    BY <1>1, <1>2, <1>4
  <2> QED BY <1>1, <1>2, <1>4, <2>1 DEF Stage
<1>5. CASE /\ tick' = NoTick /\ stages' = pending
           /\ call' = Settled(calls, "tick", ~failed)
           /\ failures' = (failures \/ (failed /\ tick.byTimer))
  <2>1. failures' \in BOOLEAN
    <3>1. (failures \/ (failed /\ tick.byTimer)) \in BOOLEAN
      OBVIOUS
    <3> QED BY <1>5, <3>1, Zenon
  <2> DEFINE well == ~failed
  <2>5. call' = Settled(calls, "tick", well)
    BY <1>5, Zenon
  <2> HIDE DEF well
  <2>3. /\ call' \in [Caller -> Call]
        /\ \A c \in Caller : call'[c].at = calls[c].at /\ call'[c].on = calls[c].on \ {"tick"}
    BY <2>5, SettledForm
  <2>4. tick' \in [at : Stage \cup {"none"}, failed : BOOLEAN, byTimer : BOOLEAN]
    BY <1>5 DEF NoTick
  <2> QED BY <1>5, <2>1, <2>3, <2>4
<1> QED BY <1>4, <1>5

\* A tick that gives up waiting tells those who wait for it.
LEMMA TimeoutForm ==
  ASSUME Typed, StageTimesOut
  PROVE  /\ tick' \in [at : Stage \cup {"none"}, failed : BOOLEAN, byTimer : BOOLEAN]
         /\ tick'.at = "none" => tick' = NoTick
         /\ stages \subseteq stages' /\ stages' \subseteq Stage /\ failures' \in BOOLEAN
         /\ call' \in [Caller -> Call]
         /\ \A c \in Caller : KeepsWaiting(c, {"tick"})
<1>1. /\ stages \in SUBSET Stage /\ call \in [Caller -> Call]
      /\ tick \in [at : Stage \cup {"none"}, failed : BOOLEAN, byTimer : BOOLEAN]
  BY DEF Typed, TypeOK
<1>2. PICK failed \in BOOLEAN : failed = (tick.failed \/ (~FALSE /\ tick.at # "maintenance"))
  BY <1>1
<1>3. \/ /\ tick' = [tick EXCEPT !.at = Following(tick.at), !.failed = failed]
         /\ stages' = stages \cup {Following(tick.at)} /\ call' = call
         /\ UNCHANGED failures
      \/ /\ tick' = NoTick /\ stages' = stages
         /\ call' = Settled(call, "tick", ~failed)
         /\ failures' = (failures \/ (failed /\ tick.byTimer))
  BY <1>2 DEF StageTimesOut, GoesOn
<1>4. Ticking
  BY DEF StageTimesOut
<1>5. /\ tick' \in [at : Stage \cup {"none"}, failed : BOOLEAN, byTimer : BOOLEAN]
      /\ tick'.at = "none" => tick' = NoTick
  BY <1>1, <1>3, <1>4, GoesOnTyped
<1>6. stages \subseteq stages' /\ stages' \subseteq Stage /\ failures' \in BOOLEAN
  BY <1>1, <1>3, <1>4, GoesOnTyped
<1>7. call' \in [Caller -> Call]
  BY <1>1, <1>3, <1>4, GoesOnTyped
<1>8. \A c \in Caller : call'[c].at = call[c].at /\ call[c].on \ {"tick"} \subseteq call'[c].on
  BY <1>1, <1>3, <1>4, GoesOnTyped
<1> QED BY <1>5, <1>6, <1>7, <1>8 DEF KeepsWaiting

\* A stage that settles tells those who wait for it, and those who wait for the tick it ends.
LEMMA StageForm ==
  ASSUME Typed, NEW s \in Stage, NEW ok \in BOOLEAN, StageSettles(s, ok)
  PROVE  /\ tick' \in [at : Stage \cup {"none"}, failed : BOOLEAN, byTimer : BOOLEAN]
         /\ tick'.at = "none" => tick' = NoTick
         /\ stages \ {s} \subseteq stages' /\ stages' \subseteq Stage /\ failures' \in BOOLEAN
         /\ call' \in [Caller -> Call]
         /\ \A c \in Caller : KeepsWaiting(c, {s, "tick"})
<1>1. /\ stages \subseteq Stage /\ call \in [Caller -> Call] /\ failures \in BOOLEAN
      /\ tick \in [at : Stage \cup {"none"}, failed : BOOLEAN, byTimer : BOOLEAN]
      /\ tick.at = "none" => tick = NoTick
  BY DEF Typed, TypeOK
<1>2. PICK calls \in [Caller -> Call] :
        /\ calls = Settled(call, s, ok)
        /\ \A c \in Caller : calls[c].at = call[c].at /\ calls[c].on = call[c].on \ {s}
  BY <1>1, SettledForm
<1>3. CASE tick.at = s
  <2>1. PICK pending \in SUBSET Stage : pending = stages \ {s}
    BY <1>1
  <2>2. Ticking
    BY <1>1, <1>3 DEF Ticking, NoTick, Stage
  <2>3. PICK failed \in BOOLEAN : failed = (tick.failed \/ (~ok /\ tick.at # "maintenance"))
    BY <1>1
  <2>4. \/ /\ tick' = [tick EXCEPT !.at = Following(tick.at), !.failed = failed]
           /\ stages' = pending \cup {Following(tick.at)} /\ call' = calls
           /\ UNCHANGED failures
        \/ /\ tick' = NoTick /\ stages' = pending
           /\ call' = Settled(calls, "tick", ~failed)
           /\ failures' = (failures \/ (failed /\ tick.byTimer))
    BY <1>2, <1>3, <2>1, <2>3 DEF StageSettles, GoesOn
  <2>5. tick' \in [at : Stage \cup {"none"}, failed : BOOLEAN, byTimer : BOOLEAN]
    BY <2>2, <2>4, GoesOnTyped
  <2>6. tick'.at = "none" => tick' = NoTick
    BY <2>2, <2>4, GoesOnTyped
  <2>7. stages' \subseteq Stage /\ failures' \in BOOLEAN
    BY <2>2, <2>4, GoesOnTyped
  <2>8. call' \in [Caller -> Call]
    BY <2>2, <2>4, GoesOnTyped
  <2>9. \A c \in Caller : /\ call'[c].at = calls[c].at
                         /\ calls[c].on \ {"tick"} \subseteq call'[c].on
    BY <2>2, <2>4, GoesOnTyped
  <2>10. stages \ {s} \subseteq stages'
    BY <2>1, <2>4
  <2>11. \A c \in Caller : KeepsWaiting(c, {s, "tick"})
    BY <1>2, <2>9 DEF KeepsWaiting
  <2> QED BY <2>5, <2>6, <2>7, <2>8, <2>10, <2>11
<1>4. CASE tick.at # s
  <2>1. stages' = stages \ {s} /\ call' = calls /\ UNCHANGED <<tick, failures>>
    BY <1>2, <1>4 DEF StageSettles
  <2>2. \A c \in Caller : KeepsWaiting(c, {s, "tick"})
    BY <1>2, <2>1 DEF KeepsWaiting
  <2> QED BY <1>1, <2>1, <2>2
<1> QED BY <1>3, <1>4

\* The tick's call leaves its types.
LEMMA TickCallTyped ==
  ASSUME Typed, NEW byTimer \in BOOLEAN, TickCall(byTimer)
  PROVE  /\ tick' \in [at : Stage \cup {"none"}, failed : BOOLEAN, byTimer : BOOLEAN]
         /\ tick'.at = "none" => tick' = NoTick
         /\ stages \subseteq stages' /\ stages' \subseteq Stage
<1>1. /\ tick \in [at : Stage \cup {"none"}, failed : BOOLEAN, byTimer : BOOLEAN]
      /\ tick.at = "none" => tick = NoTick
      /\ stages \subseteq Stage
  BY DEF Typed, TypeOK
<1>2. CASE Ticking
  BY <1>1, <1>2 DEF TickCall
<1>3. CASE ~Ticking
  <2>1. /\ tick' = [at |-> "stale-recovery", failed |-> FALSE, byTimer |-> byTimer]
        /\ stages' = stages \cup {"stale-recovery"}
    BY <1>3 DEF TickCall, WithFirstStage
  <2>2. "stale-recovery" \in Stage /\ "stale-recovery" # "none"
    BY DEF Stage
  <2> QED BY <1>1, <2>1, <2>2
<1> QED BY <1>2, <1>3

\* A fault is counted within its bound.
LEMMA GoesTyped ==
  ASSUME RuntimeConstants, TypeOK, NEW ok \in BOOLEAN, Goes(ok) \/ Faulty \/ UNCHANGED faults
  PROVE  faults' \in 0 .. MaxFaults
BY DEF RuntimeConstants, TypeOK, Goes, Faulty

\* Each action keeps the types.
LEMMA TypedStep ==
  ASSUME RuntimeConstants, Typed, [Next]_vars
  PROVE  Typed'
<1>1. /\ started \in BOOLEAN /\ draining \in BOOLEAN /\ destroyed \in BOOLEAN
      /\ timer \in BOOLEAN /\ restart \in BOOLEAN /\ failures \in BOOLEAN
      /\ tick \in [at : Stage \cup {"none"}, failed : BOOLEAN, byTimer : BOOLEAN]
      /\ stages \subseteq Stage /\ call \in [Caller -> Call]
      /\ tries \in 0 .. MaxInitialTicks /\ MaxInitialTicks \in Nat \ {0}
      /\ execution \in [Execution -> {"none", "handling", "committing", "done"}]
      /\ aborted \subseteq Execution /\ mutation \in [Mutation -> {"none", "active", "done"}]
      /\ before \subseteq Execution \cup Mutation \cup Stage
      /\ faults \in 0 .. MaxFaults
      /\ tick.at = "none" => tick = NoTick
      /\ call["start"].at = "delay" => tries < MaxInitialTicks
  BY DEF RuntimeConstants, Typed, TypeOK
<1>2. /\ {"start", "flush", "shutdown"} \subseteq Caller
      /\ \A c \in Caller : call[c] \in Call
  BY <1>1 DEF Caller
<1>3. ASSUME /\ started' \in BOOLEAN /\ draining' \in BOOLEAN /\ destroyed' \in BOOLEAN
             /\ timer' \in BOOLEAN /\ restart' \in BOOLEAN /\ failures' \in BOOLEAN,
             /\ tick' \in [at : Stage \cup {"none"}, failed : BOOLEAN, byTimer : BOOLEAN]
             /\ tick'.at = "none" => tick' = NoTick
             /\ stages' \subseteq Stage /\ call' \in [Caller -> Call],
             /\ tries' \in 0 .. MaxInitialTicks
             /\ call'["start"].at = "delay" => tries' < MaxInitialTicks,
             /\ execution' \in [Execution -> {"none", "handling", "committing", "done"}]
             /\ aborted' \subseteq Execution
             /\ mutation' \in [Mutation -> {"none", "active", "done"}]
             /\ before' \subseteq Execution \cup Mutation \cup Stage,
             faults' \in 0 .. MaxFaults
      PROVE  Typed'
  BY <1>3 DEF Typed, TypeOK
<1>4. CASE TimerFires
  <2>1. TickCall(TRUE)
    BY <1>4 DEF TimerFires
  <2>2. UNCHANGED <<control, timer, call, tries, work, failures, before, faults, restart>>
    BY <1>4 DEF TimerFires
  <2>3. /\ tick' \in [at : Stage \cup {"none"}, failed : BOOLEAN, byTimer : BOOLEAN]
        /\ tick'.at = "none" => tick' = NoTick
        /\ stages' \subseteq Stage
    BY <2>1, TickCallTyped
  <2> QED BY <1>1, <1>3, <2>2, <2>3 DEF control, work
<1>5. CASE StageTimesOut
  <2>1. UNCHANGED <<control, timer, tries, work, before, faults, restart>>
    BY <1>5 DEF StageTimesOut
  <2>2. /\ tick' \in [at : Stage \cup {"none"}, failed : BOOLEAN, byTimer : BOOLEAN]
        /\ tick'.at = "none" => tick' = NoTick
        /\ stages' \subseteq Stage /\ failures' \in BOOLEAN /\ call' \in [Caller -> Call]
        /\ \A c \in Caller : call'[c].at = call[c].at
    BY <1>5, TimeoutForm DEF KeepsWaiting
  <2> QED BY <1>1, <1>2, <1>3, <2>1, <2>2 DEF control, work
<1>6. ASSUME NEW s \in Stage, NEW ok \in BOOLEAN, StageSettles(s, ok)
      PROVE  Typed'
  <2>1. faults' \in 0 .. MaxFaults
    BY <1>6, GoesTyped DEF StageSettles, Typed
  <2>2. execution' \in [Execution -> {"none", "handling", "committing", "done"}]
    BY <1>1, <1>6 DEF StageSettles, StartsExecutions
  <2>3. before' \subseteq Execution \cup Mutation \cup Stage
    BY <1>1, <1>6 DEF StageSettles
  <2>4. UNCHANGED <<control, timer, tries, aborted, mutation, restart>>
    BY <1>6 DEF StageSettles
  <2>5. /\ tick' \in [at : Stage \cup {"none"}, failed : BOOLEAN, byTimer : BOOLEAN]
        /\ tick'.at = "none" => tick' = NoTick
        /\ stages' \subseteq Stage /\ failures' \in BOOLEAN /\ call' \in [Caller -> Call]
        /\ \A c \in Caller : call'[c].at = call[c].at
    BY <1>6, StageForm DEF KeepsWaiting
  <2> QED BY <1>1, <1>2, <1>3, <2>1, <2>2, <2>3, <2>4, <2>5 DEF control
<1>7. ASSUME InitialTick, tries' \in 1 .. MaxInitialTicks, started' \in BOOLEAN,
             UNCHANGED <<draining, destroyed, timer, work, failures, before, faults, restart>>
      PROVE  Typed'
  <2>1. call' \in [Caller -> Call] /\ call'["start"].at = "tick"
    BY <1>1, <1>2, <1>7 DEF InitialTick, Call, Phase, Thing
  <2>2. /\ tick' \in [at : Stage \cup {"none"}, failed : BOOLEAN, byTimer : BOOLEAN]
        /\ tick'.at = "none" => tick' = NoTick
        /\ stages' \subseteq Stage
    BY <1>1, <1>7, TickCallTyped DEF InitialTick
  <2> QED BY <1>1, <1>3, <1>7, <2>1, <2>2 DEF work
<1>8. CASE StartCall
  BY <1>1, <1>7, <1>8 DEF StartCall
<1>9. CASE Starting
  <2>1. CASE StartRetries
    BY <1>1, <1>7, <2>1 DEF StartRetries, DelayEnds, control
  <2>2. CASE StartDelays
    <3>1. call' \in [Caller -> Call]
      BY <1>1, <1>2, <2>2 DEF StartDelays, NoCall, Call, Phase
    <3> QED BY <1>1, <1>3, <2>2, <3>1 DEF StartDelays, RetriesLeft, control, work
  <2>3. ASSUME NEW ok,
               call' = Settled([call EXCEPT !["start"] = NoCall], "start", ok)
        PROVE  call' \in [Caller -> Call] /\ call'["start"].at = "none"
    <3>1. call \in [Caller -> Call] /\ "start" \in Caller
      BY <1>1, <1>2
    <3> QED BY <2>3, <3>1, EndForm
  <2>4. CASE StartSucceeds
    <3>1. call' = Settled([call EXCEPT !["start"] = NoCall], "start", TRUE)
      BY <2>4 DEF StartSucceeds
    <3>2. call' \in [Caller -> Call] /\ call'["start"].at = "none"
      BY <2>3, <3>1
    <3>3. /\ timer' = TRUE /\ tries' = 0
          /\ UNCHANGED <<control, tick, stages, work, failures, before, faults, restart>>
      BY <2>4 DEF StartSucceeds
    <3> QED BY <1>1, <1>3, <3>2, <3>3 DEF control, work
  <2>5. CASE StartFails
    <3>1. call' = Settled([call EXCEPT !["start"] = NoCall], "start", FALSE)
      BY <2>5 DEF StartFails
    <3>2. call' \in [Caller -> Call] /\ call'["start"].at = "none"
      BY <2>3, <3>1
    <3>3. /\ timer' = FALSE /\ tries' = 0 /\ started' = FALSE
          /\ UNCHANGED <<draining, destroyed, tick, stages, work, failures, before,
                        faults, restart>>
      <4>1. timer' = FALSE /\ started' = FALSE
        BY <2>5 DEF StartFails
      <4>2. tries' = 0
        BY <2>5 DEF StartFails
      <4>3. UNCHANGED <<draining, destroyed, tick, stages, work, failures, before,
                        faults, restart>>
        BY <2>5 DEF StartFails
      <4> QED BY <4>1, <4>2, <4>3
    <3>4. /\ started' \in BOOLEAN /\ timer' \in BOOLEAN /\ draining' \in BOOLEAN
          /\ destroyed' \in BOOLEAN /\ failures' \in BOOLEAN /\ restart' \in BOOLEAN
      BY <1>1, <3>3
    <3>5. tries' \in 0 .. MaxInitialTicks
      BY <1>1, <3>3
    <3> QED BY <1>1, <1>3, <3>2, <3>3, <3>4, <3>5 DEF work
  <2> QED BY <1>9, <2>1, <2>2, <2>4, <2>5 DEF Starting
<1>10. CASE FlushCall \/ Flushing
  <2>1. ASSUME NEW ok, failures' \in BOOLEAN, FlushEnds(ok)
        PROVE  Typed'
    <3>2. call' \in [Caller -> Call] /\ call'["start"].at = call["start"].at
      <4>1. call' = Settled([call EXCEPT !["flush"] = NoCall], "flush", ok)
        BY <2>1, Zenon DEF FlushEnds
      <4>2. call \in [Caller -> Call] /\ {"start", "flush"} \subseteq Caller
        BY <1>1, <1>2
      <4>3. /\ call' \in [Caller -> Call]
            /\ \A d \in Caller \ {"flush"} : call'[d].at = call[d].at
        BY <4>1, <4>2, EndForm
      <4> QED BY <4>2, <4>3
    <3>3. timer' \in BOOLEAN /\ before' = {} /\ restart' = FALSE
      BY <2>1 DEF FlushEnds
    <3>4. UNCHANGED <<control, tick, stages, tries, work, faults>>
      BY <2>1 DEF FlushEnds
    <3> QED BY <1>1, <1>3, <2>1, <3>2, <3>3, <3>4 DEF control, work
  <2>2. ASSUME NEW phase \in {"tick", "stages", "executions", "tasks", "mutations"},
               call' = [call EXCEPT !["flush"] = Enter("flush", phase)]
        PROVE  call' \in [Caller -> Call] /\ call'["start"].at = call["start"].at
    BY <1>1, <1>2, <2>2, EnterForm DEF Typed, Phase
  <2>3. CASE FlushCall
    BY <1>1, <1>3, <2>2, <2>3
       DEF FlushCall, InProgress, ActiveExecutions, ActiveMutations, control, work
  <2>4. CASE FlushGoesOn
    BY <1>1, <1>3, <2>2, <2>4
       DEF FlushGoesOn, FlushWaited, AfterInFlush, control, work
  <2>5. CASE FlushSucceeds
    BY <1>1, <2>1, <2>5 DEF FlushSucceeds
  <2>6. CASE FlushFails
    BY <1>1, <2>1, <2>6 DEF FlushFails
  <2> QED BY <1>10, <2>3, <2>4, <2>5, <2>6 DEF Flushing
<1>11. CASE ShutdownCall \/ ShuttingDown
  <2>1. ASSUME NEW r \in Call, call' = [call EXCEPT !["shutdown"] = r]
        PROVE  call' \in [Caller -> Call] /\ call'["start"].at = call["start"].at
    BY <1>1, <1>2, <2>1
  <2>2. ASSUME NEW phase \in Phase \ {"none", "delay"},
               call' = [call EXCEPT !["shutdown"] = Enter("shutdown", phase)]
        PROVE  call' \in [Caller -> Call] /\ call'["start"].at = call["start"].at
    BY <1>1, <1>2, <2>1, <2>2, EnterForm DEF Typed
  <2>3. CASE ShutdownCall
    <3>1. [at |-> "start", on |-> Found("start"), failed |-> FALSE] \in Call
      BY DEF Call, Phase, Thing, Found
    <3> QED BY <1>1, <1>3, <2>1, <2>3, <3>1 DEF ShutdownCall, work
  <2>4. CASE ShutdownGoesOn
    BY <1>1, <1>3, <2>2, <2>4
       DEF ShutdownGoesOn, ShutdownWaited, AfterInShutdown, Phase, control, work
  <2>5. CASE PreparationTimesOut
    <3>1. [call["shutdown"] EXCEPT !.on = {}, !.failed = TRUE] \in Call
      BY <1>2 DEF Call
    <3>2. call' = [call EXCEPT !["shutdown"] =
                     [call["shutdown"] EXCEPT !.on = {}, !.failed = TRUE]]
      BY <1>1, <1>2, <2>5 DEF PreparationTimesOut, Call
    <3> QED BY <1>1, <1>3, <2>1, <2>5, <3>1, <3>2 DEF PreparationTimesOut, control, work
  <2>6. CASE GraceExpires
    BY <1>1, <1>3, <2>2, <2>6 DEF GraceExpires, ToldToAbort, Handling, Phase, control
  <2>7. ASSUME ShutdownRejects, started' \in BOOLEAN, failures' \in BOOLEAN,
               faults' \in 0 .. MaxFaults
        PROVE  Typed'
    BY <1>1, <1>3, <2>1, <2>7, NoCallForm DEF ShutdownRejects, work
  <2>8. CASE AbortIsIgnored \/ ShutdownFails
    BY <1>1, <2>7, <2>8 DEF AbortIsIgnored, ShutdownFails, FailuresReported
  <2>9. CASE DisposalFails
    <3>1. faults' \in 0 .. MaxFaults
      BY <2>9, GoesTyped DEF DisposalFails, Typed
    <3> QED BY <1>1, <2>7, <2>9, <3>1 DEF DisposalFails
  <2>10. CASE ShutdownSucceeds
    BY <1>1, <1>3, <2>1, <2>10, NoCallForm DEF ShutdownSucceeds, work
  <2> QED BY <1>11, <2>3, <2>4, <2>5, <2>6, <2>8, <2>9, <2>10 DEF ShuttingDown
<1>12. ASSUME NEW e \in Execution, HandlerSettles(e)
       PROVE  Typed'
  <2>1. call' \in [Caller -> Call] /\ call'["start"].at = call["start"].at
    BY <1>1, <1>2, <1>12 DEF HandlerSettles, Call
  <2>2. execution' \in [Execution -> {"none", "handling", "committing", "done"}]
    BY <1>1, <1>12 DEF HandlerSettles
  <2> QED BY <1>1, <1>3, <1>12, <2>1, <2>2 DEF HandlerSettles, control
<1>13. ASSUME NEW x, call' = [c \in Caller |-> [call[c] EXCEPT !.on = @ \ {x}]]
       PROVE  call' \in [Caller -> Call] /\ call'["start"].at = call["start"].at
  BY <1>2, <1>13 DEF Call
<1>14. ASSUME NEW e \in Execution, NEW ok \in BOOLEAN, ExecutionEnds(e, ok)
       PROVE  Typed'
  <2>1. faults' \in 0 .. MaxFaults
    BY <1>14, GoesTyped DEF ExecutionEnds, Typed
  <2>2. call' \in [Caller -> Call] /\ call'["start"].at = call["start"].at
    BY <1>13, <1>14 DEF ExecutionEnds
  <2>3. /\ execution' \in [Execution -> {"none", "handling", "committing", "done"}]
        /\ aborted' \subseteq Execution /\ before' \subseteq Execution \cup Mutation \cup Stage
    BY <1>1, <1>14 DEF ExecutionEnds
  <2>4. failures' \in BOOLEAN
    BY <1>14 DEF ExecutionEnds
  <2>5. UNCHANGED <<control, timer, tick, stages, tries, mutation, restart>>
    BY <1>14 DEF ExecutionEnds
  <2> QED BY <1>1, <1>3, <2>1, <2>2, <2>3, <2>4, <2>5 DEF control
<1>15. ASSUME NEW m \in Mutation, MutationStarts(m)
       PROVE  Typed'
  BY <1>1, <1>3, <1>15 DEF MutationStarts, control
<1>16. ASSUME NEW m \in Mutation, MutationSettles(m)
       PROVE  Typed'
  <2>1. call' \in [Caller -> Call] /\ call'["start"].at = call["start"].at
    BY <1>13, <1>16 DEF MutationSettles
  <2> QED BY <1>1, <1>3, <1>16, <2>1 DEF MutationSettles, control
<1>17. CASE UNCHANGED vars
  BY <1>1, <1>3, <1>17 DEF vars, control, work
<1> QED
  BY <1>4, <1>5, <1>6, <1>8, <1>9, <1>10, <1>11, <1>12, <1>14, <1>15, <1>16, <1>17
     DEF Next, Settling
--------------------------------------------------------------------------------
(* What every step but a few leaves alone.                                 *)

\* Executions, mutations, stages and the names of the calls are different things.
LEMMA Different ==
  ASSUME RuntimeConstants
  PROVE  /\ Execution \cap Mutation = {} /\ Execution \cap Stage = {} /\ Mutation \cap Stage = {}
         /\ \A x \in {"start", "flush", "tick"} : x \notin Execution \cup Mutation \cup Stage
BY DEF RuntimeConstants, Stage

\* The end of a call does not concern those who wait for executions, mutations or stages.
LEMMA EndKeeps ==
  ASSUME RuntimeConstants, Typed, NEW c \in {"start", "flush"}, NEW ok,
         call' = Settled([call EXCEPT ![c] = NoCall], c, ok),
         NEW d \in Caller \ {c}
  PROVE  /\ call'[d].at = call[d].at
         /\ call[d].on \cap (Execution \cup Mutation \cup Stage) \subseteq call'[d].on
<1>1. call \in [Caller -> Call] /\ c \in Caller
  BY DEF Typed, TypeOK, Caller
<1>2. call'[d].at = call[d].at /\ call'[d].on = call[d].on \ {c}
  BY <1>1, EndForm
<1> QED BY <1>2, Different

\* Handlers are started only by the claim stage of a scheduler that is not draining.
LEMMA HandlersStart ==
  ASSUME Typed, NEW s \in Stage, NEW ok \in BOOLEAN, StageSettles(s, ok)
  PROVE  /\ \A e \in Execution : execution'[e] # execution[e] =>
               execution[e] = "none" /\ execution'[e] = "handling"
         /\ draining => execution' = execution
BY DEF Typed, TypeOK, StageSettles, StartsExecutions, Admits

--------------------------------------------------------------------------------
(* Shutdown.                                                               *)

\* Each action keeps the shutdown's part.
LEMMA ShutdownStep ==
  ASSUME RuntimeConstants, Typed, ShutdownInv, [Next]_vars
  PROVE  ShutdownInv'
<1> DEFINE s == call["shutdown"]
<1>1. /\ call \in [Caller -> Call] /\ {"start", "flush", "shutdown"} \subseteq Caller
      /\ call["shutdown"] \in Call
      /\ execution \in [Execution -> {"none", "handling", "committing", "done"}]
      /\ draining \in BOOLEAN
  BY DEF Typed, TypeOK, Caller
<1>2. ASSUME call'["shutdown"].at = s.at, draining => draining',
             draining => Handling' \subseteq Handling,
             Handling' \cap s.on \subseteq call'["shutdown"].on,
             Handling' \cap aborted \subseteq aborted'
      PROVE  ShutdownInv'
  BY <1>2 DEF ShutdownInv, Pending
<1>3. ASSUME UNCHANGED <<execution, aborted, draining>>,
             call'["shutdown"].at = s.at, s.on \cap Execution \subseteq call'["shutdown"].on
      PROVE  ShutdownInv'
  BY <1>2, <1>3 DEF Handling
<1>4. CASE TimerFires
  BY <1>3, <1>4 DEF TimerFires, control, work
<1>5. CASE StageTimesOut
  <2>1. call'["shutdown"].at = s.at /\ s.on \ {"tick"} \subseteq call'["shutdown"].on
    BY <1>1, <1>5, TimeoutForm DEF KeepsWaiting
  <2> QED BY <1>3, <1>5, <2>1, Different DEF StageTimesOut, control, work
<1>6. ASSUME NEW g \in Stage, NEW ok \in BOOLEAN, StageSettles(g, ok)
      PROVE  ShutdownInv'
  <2>1. call'["shutdown"].at = s.at /\ s.on \ {g, "tick"} \subseteq call'["shutdown"].on
    BY <1>1, <1>6, StageForm DEF KeepsWaiting
  <2>2. draining => Handling' \subseteq Handling
    BY <1>6, HandlersStart DEF Handling
  <2>3. UNCHANGED <<draining, aborted>>
    BY <1>6 DEF StageSettles, control
  <2>4. Handling' \subseteq Execution
    BY DEF Handling
  <2> QED BY <1>2, <2>1, <2>2, <2>3, <2>4, Different
<1>7. CASE StartCall \/ Starting
  <2>1. UNCHANGED <<execution, aborted, draining>>
    BY <1>7 DEF StartCall, Starting, StartSucceeds, StartDelays, StartRetries, StartFails,
                control, work
  <2>2. CASE StartCall \/ StartDelays \/ StartRetries
    <3>1. call'["shutdown"] = call["shutdown"]
      BY <1>1, <2>2 DEF StartCall, StartDelays, StartRetries, InitialTick
    <3> QED BY <1>3, <2>1, <3>1
  <2>3. CASE StartSucceeds \/ StartFails
    <3>1. PICK ok : call' = Settled([call EXCEPT !["start"] = NoCall], "start", ok)
      BY <2>3, Zenon DEF StartSucceeds, StartFails
    <3>2. /\ call'["shutdown"].at = s.at
          /\ s.on \cap (Execution \cup Mutation \cup Stage) \subseteq call'["shutdown"].on
      BY <1>1, <3>1, EndKeeps
    <3> QED BY <1>3, <2>1, <3>2
  <2> QED BY <1>7, <2>2, <2>3 DEF Starting
<1>8. CASE FlushCall \/ Flushing
  <2>1. UNCHANGED <<execution, aborted, draining>>
    BY <1>8 DEF FlushCall, Flushing, FlushGoesOn, FlushSucceeds, FlushFails, FlushEnds,
                control, work
  <2>2. CASE FlushCall \/ FlushGoesOn
    <3>1. call'["shutdown"] = call["shutdown"]
      BY <1>1, <2>2 DEF FlushCall, FlushGoesOn
    <3> QED BY <1>3, <2>1, <3>1
  <2>3. CASE FlushSucceeds \/ FlushFails
    <3>1. PICK ok : call' = Settled([call EXCEPT !["flush"] = NoCall], "flush", ok)
      BY <2>3, Zenon DEF FlushSucceeds, FlushFails, FlushEnds
    <3>2. /\ call'["shutdown"].at = s.at
          /\ s.on \cap (Execution \cup Mutation \cup Stage) \subseteq call'["shutdown"].on
      BY <1>1, <3>1, EndKeeps
    <3> QED BY <1>3, <2>1, <3>2
  <2> QED BY <1>8, <2>2, <2>3 DEF Flushing
<1>9. CASE ShutdownCall
  BY <1>1, <1>9 DEF ShutdownCall, ShutdownInv, Pending
<1>10. CASE ShutdownGoesOn
  <2>1. UNCHANGED <<execution, aborted, draining>>
    BY <1>10 DEF ShutdownGoesOn, control, work
  <2>2. /\ s.at \in {"start", "flush", "tick", "stages", "grace", "aborting"} /\ s.on = {}
        /\ call' = [call EXCEPT !["shutdown"] = Enter("shutdown", AfterInShutdown[s.at])]
    BY <1>10 DEF ShutdownGoesOn, ShutdownWaited, AfterInShutdown
  <2>3. /\ AfterInShutdown[s.at] \in Phase \ {"none", "delay"}
        /\ AfterInShutdown[s.at] # "aborting"
        /\ AfterInShutdown[s.at] = "grace" <=> s.at = "stages"
        /\ AfterInShutdown[s.at] = "mutations" <=> s.at \in {"grace", "aborting"}
    BY <2>2 DEF AfterInShutdown, Phase
  <2>4. /\ call'["shutdown"].at = AfterInShutdown[s.at]
        /\ call'["shutdown"].on = Found(AfterInShutdown[s.at])
    BY <1>1, <2>2, <2>3, EnterForm DEF Typed
  <2>5. Pending("shutdown")
    BY <2>2 DEF Pending
  <2>6. CASE s.at = "stages"
    <3>1. call'["shutdown"].at = "grace" /\ call'["shutdown"].on = ActiveExecutions
      BY <2>3, <2>4, <2>6 DEF Found
    <3>2. Handling' \subseteq call'["shutdown"].on
      BY <2>1, <3>1 DEF Handling, ActiveExecutions
    <3> QED BY <2>1, <2>5, <3>1, <3>2 DEF ShutdownInv
  <2>7. CASE s.at \in {"grace", "aborting"}
    <3>1. Handling \subseteq aborted
      BY <2>2, <2>7 DEF ShutdownInv
    <3> QED BY <2>1, <2>3, <2>4, <2>5, <2>7, <3>1 DEF ShutdownInv, Handling
  <2>8. CASE s.at \in {"start", "flush", "tick"}
    BY <2>1, <2>3, <2>4, <2>5, <2>8 DEF ShutdownInv
  <2> QED BY <2>2, <2>6, <2>7, <2>8
<1>11. CASE PreparationTimesOut
  <2>1. call'["shutdown"].at = s.at /\ s.at \in {"start", "flush", "tick", "stages", "mutations"}
    BY <1>1, <1>11 DEF PreparationTimesOut, TimerOf, Preparations, Call
  <2>2. UNCHANGED <<execution, aborted, draining>>
    BY <1>11 DEF PreparationTimesOut, control, work
  <2> QED BY <2>1, <2>2 DEF ShutdownInv, Handling, Pending
<1>12. CASE GraceExpires
  <2>1. call'["shutdown"].at = "aborting"
    BY <1>1, <1>12, EnterForm DEF GraceExpires, Typed, Phase
  <2>2. aborted' = aborted \cup Handling /\ UNCHANGED <<execution, draining>>
    BY <1>12 DEF GraceExpires, ToldToAbort, control
  <2>3. Pending("shutdown")
    BY <1>12 DEF GraceExpires, TimerOf, Pending
  <2> QED BY <2>1, <2>2, <2>3 DEF ShutdownInv, Handling
<1>13. CASE AbortIsIgnored \/ ShutdownFails \/ DisposalFails \/ ShutdownSucceeds
  <2>1. call' = [call EXCEPT !["shutdown"] = NoCall]
    BY <1>13 DEF AbortIsIgnored, ShutdownFails, DisposalFails, ShutdownSucceeds, ShutdownRejects
  <2>2. call'["shutdown"].at = "none"
    BY <1>1, <2>1, NoCallForm
  <2> QED BY <2>2 DEF ShutdownInv, Pending
<1>14. ASSUME NEW e \in Execution, HandlerSettles(e)
       PROVE  ShutdownInv'
  <2>1. call'["shutdown"] = call["shutdown"]
    BY <1>1, <1>14 DEF HandlerSettles
  <2>2. Handling' \subseteq Handling
    BY <1>1, <1>14 DEF HandlerSettles, Handling
  <2> QED BY <1>2, <1>14, <2>1, <2>2 DEF HandlerSettles, control
<1>15. ASSUME NEW e \in Execution, NEW ok \in BOOLEAN, ExecutionEnds(e, ok)
       PROVE  ShutdownInv'
  <2>1. call'["shutdown"].at = s.at /\ call'["shutdown"].on = s.on \ {e}
    BY <1>1, <1>15 DEF ExecutionEnds, Call
  <2>2. Handling' \subseteq Handling /\ e \notin Handling'
    BY <1>1, <1>15 DEF ExecutionEnds, Handling
  <2>3. aborted' = aborted \ {e} /\ draining' = draining
    BY <1>15 DEF ExecutionEnds, control
  <2> QED BY <1>2, <2>1, <2>2, <2>3
<1>16. ASSUME NEW m \in Mutation, MutationStarts(m) \/ MutationSettles(m)
       PROVE  ShutdownInv'
  <2>1. call'["shutdown"].at = s.at /\ s.on \ {m} \subseteq call'["shutdown"].on
    BY <1>1, <1>16 DEF MutationStarts, MutationSettles, Call
  <2>2. UNCHANGED <<execution, aborted, draining>>
    BY <1>16 DEF MutationStarts, MutationSettles, control
  <2> QED BY <1>3, <2>1, <2>2, Different
<1>17. CASE UNCHANGED vars
  BY <1>3, <1>17 DEF vars, control, work
<1> QED
  BY <1>4, <1>5, <1>6, <1>7, <1>8, <1>9, <1>10, <1>11, <1>12, <1>13, <1>14, <1>15, <1>16, <1>17
     DEF Next, Settling, ShuttingDown
--------------------------------------------------------------------------------
(* Flush.                                                                  *)

\* Each action keeps the flush's part.
LEMMA FlushStep ==
  ASSUME RuntimeConstants, Typed, FlushInv, [Next]_vars
  PROVE  FlushInv'
<1> DEFINE f == call["flush"]
<1>1. /\ call \in [Caller -> Call] /\ {"start", "flush", "shutdown"} \subseteq Caller
      /\ call["flush"] \in Call
      /\ execution \in [Execution -> {"none", "handling", "committing", "done"}]
      /\ mutation \in [Mutation -> {"none", "active", "done"}] /\ stages \subseteq Stage
      /\ before \subseteq Execution \cup Mutation \cup Stage
  BY DEF Typed, TypeOK, Caller
<1>2. before \subseteq InProgress
  BY DEF FlushInv
<1>3. ASSUME call'["flush"].at = f.at, before' \subseteq InProgress',
             before' \cap (Stage \cup Mutation) \subseteq before,
             f.at \in {"executions", "tasks", "mutations"} =>
               before' \cap Execution \subseteq before,
             before' \cap before \cap f.on \subseteq call'["flush"].on
      PROVE  FlushInv'
  BY <1>3 DEF FlushInv
<1>4. ASSUME call'["flush"].at = f.at,
             f.on \cap (Execution \cup Mutation \cup Stage) \subseteq call'["flush"].on,
             UNCHANGED <<execution, mutation, before>>, stages \subseteq stages'
      PROVE  FlushInv'
  <2>1. before' \subseteq InProgress'
    BY <1>2, <1>4 DEF InProgress, ActiveExecutions, ActiveMutations
  <2>2. before' \cap before \cap f.on \subseteq call'["flush"].on
    BY <1>1, <1>4
  <2> QED BY <1>3, <1>4, <2>1, <2>2
<1>5. CASE TimerFires
  <2>1. stages \subseteq stages'
    BY <1>5 DEF TimerFires, TickCall, WithFirstStage
  <2> QED BY <1>4, <1>5, <2>1 DEF TimerFires, work
<1>6. CASE StageTimesOut
  <2>1. call'["flush"].at = f.at /\ f.on \ {"tick"} \subseteq call'["flush"].on
    BY <1>1, <1>6, TimeoutForm DEF KeepsWaiting
  <2>2. stages \subseteq stages'
    BY <1>6, TimeoutForm
  <2> QED BY <1>4, <1>6, <2>1, <2>2, Different DEF StageTimesOut, work
<1>7. ASSUME NEW g \in Stage, NEW ok \in BOOLEAN, StageSettles(g, ok)
      PROVE  FlushInv'
  <2>1. call'["flush"].at = f.at /\ f.on \ {g, "tick"} \subseteq call'["flush"].on
    BY <1>1, <1>7, StageForm DEF KeepsWaiting
  <2>2. stages \ {g} \subseteq stages'
    BY <1>7, StageForm
  <2>3. \A e \in Execution : execution'[e] # execution[e] =>
           execution[e] = "none" /\ execution'[e] = "handling"
    BY <1>7, HandlersStart
  <2>4. ActiveExecutions \subseteq ActiveExecutions'
    BY <2>3 DEF ActiveExecutions
  <2>5. mutation' = mutation
    BY <1>7 DEF StageSettles
  <2>6. CASE g \notin before
    <3>1. before' = before
      BY <1>7, <2>6 DEF StageSettles
    <3>2. before' \subseteq InProgress'
      BY <1>2, <2>2, <2>4, <2>5, <2>6, <3>1 DEF InProgress, ActiveMutations
    <3>3. before \cap f.on \subseteq call'["flush"].on
      BY <1>1, <2>1, <2>6, Different
    <3> QED BY <1>3, <2>1, <3>1, <3>2, <3>3
  <2>7. CASE g \in before
    <3>1. before' = (before \ {g}) \cup {e \in Execution : execution'[e] # execution[e]}
      BY <1>7, <2>7 DEF StageSettles
    <3>2. f.at \notin {"executions", "tasks", "mutations"}
      BY <2>7 DEF FlushInv
    <3>3. {e \in Execution : execution'[e] # execution[e]} \subseteq ActiveExecutions'
      BY <2>3 DEF ActiveExecutions
    <3>4. before' \subseteq InProgress'
      BY <1>2, <2>2, <2>4, <2>5, <3>1, <3>3 DEF InProgress, ActiveMutations
    <3>5. before' \cap (Stage \cup Mutation) \subseteq before \ {g}
      BY <3>1, Different
    <3>6. before' \cap before \cap f.on \subseteq call'["flush"].on
      <4>1. g \notin before'
        BY <3>5
      <4> QED BY <1>1, <2>1, <4>1, Different
    <3> QED BY <1>3, <2>1, <3>2, <3>4, <3>5, <3>6
  <2> QED BY <2>6, <2>7
<1>8. CASE StartCall \/ Starting
  <2>1. UNCHANGED <<execution, mutation, before>>
    BY <1>8 DEF StartCall, Starting, StartSucceeds, StartDelays, StartRetries, StartFails, work
  <2>2. stages \subseteq stages'
    BY <1>8 DEF StartCall, Starting, StartSucceeds, StartDelays, StartRetries, StartFails,
                InitialTick, TickCall, WithFirstStage
  <2>3. CASE StartCall \/ StartDelays \/ StartRetries
    <3>1. call'["flush"] = call["flush"]
      BY <1>1, <2>3 DEF StartCall, StartDelays, StartRetries, InitialTick
    <3> QED BY <1>4, <2>1, <2>2, <3>1
  <2>4. CASE StartSucceeds \/ StartFails
    <3>1. PICK ok : call' = Settled([call EXCEPT !["start"] = NoCall], "start", ok)
      BY <2>4, Zenon DEF StartSucceeds, StartFails
    <3>2. /\ call'["flush"].at = f.at
          /\ f.on \cap (Execution \cup Mutation \cup Stage) \subseteq call'["flush"].on
      BY <1>1, <3>1, EndKeeps
    <3> QED BY <1>4, <2>1, <2>2, <3>2
  <2> QED BY <1>8, <2>3, <2>4 DEF Starting
<1>9. CASE FlushCall
  <2>1. call'["flush"].at = "tick" /\ before' = InProgress
    BY <1>1, <1>9, EnterForm DEF FlushCall, Typed, Phase
  <2>2. InProgress' = InProgress
    BY <1>9 DEF FlushCall, InProgress, ActiveExecutions, ActiveMutations, work
  <2> QED BY <2>1, <2>2 DEF FlushInv
<1>10. CASE FlushGoesOn
  <2>1. UNCHANGED <<execution, mutation, stages, before>>
    BY <1>10 DEF FlushGoesOn, work
  <2>2. /\ f.at \in {"tick", "stages", "executions", "tasks"} /\ f.on = {}
        /\ call' = [call EXCEPT !["flush"] = Enter("flush", AfterInFlush[f.at])]
    BY <1>10 DEF FlushGoesOn, FlushWaited, AfterInFlush
  <2>3. AfterInFlush[f.at] \in Phase \ {"none", "delay"}
    BY <2>2 DEF AfterInFlush, Phase
  <2>4. /\ call'["flush"].at = AfterInFlush[f.at]
        /\ call'["flush"].on = Found(AfterInFlush[f.at])
    BY <1>1, <2>2, <2>3, EnterForm DEF Typed
  <2>5. before' \subseteq InProgress'
    BY <1>2, <2>1 DEF InProgress, ActiveExecutions, ActiveMutations
  <2>6. /\ before \cap Stage \subseteq stages
        /\ before \cap Execution \subseteq ActiveExecutions
        /\ before \cap Mutation \subseteq ActiveMutations
    BY <1>1, <1>2, Different DEF InProgress, ActiveExecutions, ActiveMutations
  <2>7. CASE f.at = "tick"
    <3>1. call'["flush"].at = "stages" /\ call'["flush"].on = stages
      BY <2>2, <2>4, <2>7 DEF AfterInFlush, Found
    <3> QED BY <2>1, <2>5, <2>6, <3>1 DEF FlushInv
  <2>8. CASE f.at = "stages"
    <3>1. call'["flush"].at = "executions" /\ call'["flush"].on = ActiveExecutions
      BY <2>2, <2>4, <2>8 DEF AfterInFlush, Found
    <3>2. before \cap Stage = {}
      BY <2>2, <2>8 DEF FlushInv
    <3> QED BY <2>1, <2>5, <2>6, <3>1, <3>2 DEF FlushInv
  <2>9. CASE f.at = "executions"
    <3>1. call'["flush"].at = "tasks"
      BY <2>2, <2>4, <2>9 DEF AfterInFlush
    <3>2. before \cap Stage = {} /\ before \cap Execution = {}
      BY <2>2, <2>9 DEF FlushInv
    <3> QED BY <2>1, <2>5, <3>1, <3>2 DEF FlushInv
  <2>10. CASE f.at = "tasks"
    <3>1. call'["flush"].at = "mutations" /\ call'["flush"].on = ActiveMutations
      BY <2>2, <2>4, <2>10 DEF AfterInFlush, Found
    <3>2. before \cap Stage = {} /\ before \cap Execution = {}
      BY <2>2, <2>10 DEF FlushInv
    <3> QED BY <2>1, <2>5, <2>6, <3>1, <3>2 DEF FlushInv
  <2> QED BY <2>2, <2>7, <2>8, <2>9, <2>10
<1>11. CASE FlushSucceeds \/ FlushFails
  <2>1. PICK ok : call' = Settled([call EXCEPT !["flush"] = NoCall], "flush", ok)
    BY <1>11, Zenon DEF FlushSucceeds, FlushFails, FlushEnds
  <2>2. call'["flush"].at = "none"
    BY <1>1, <2>1, EndForm
  <2>3. before' = {}
    BY <1>11 DEF FlushSucceeds, FlushFails, FlushEnds
  <2> QED BY <2>2, <2>3 DEF FlushInv
<1>12. CASE ShutdownCall \/ ShuttingDown
  <2>1. UNCHANGED <<execution, mutation, stages, before>>
    BY <1>12 DEF ShutdownCall, ShuttingDown, ShutdownGoesOn, PreparationTimesOut, GraceExpires,
                 AbortIsIgnored, ShutdownFails, DisposalFails, ShutdownSucceeds,
                 ShutdownRejects, work
  <2>2. call'["flush"] = call["flush"]
    BY <1>1, <1>12 DEF ShutdownCall, ShuttingDown, ShutdownGoesOn, PreparationTimesOut,
                 GraceExpires, AbortIsIgnored, ShutdownFails, DisposalFails, ShutdownSucceeds,
                 ShutdownRejects
  <2> QED BY <1>4, <2>1, <2>2
<1>13. ASSUME NEW e \in Execution, HandlerSettles(e)
       PROVE  FlushInv'
  <2>1. /\ call'["flush"].at = f.at
        /\ call'["flush"].on = IF f.at = "tasks" THEN f.on \ {e} ELSE f.on
    BY <1>1, <1>13 DEF HandlerSettles, Call
  <2>2. UNCHANGED <<mutation, stages, before>> /\ ActiveExecutions' = ActiveExecutions
    BY <1>1, <1>13 DEF HandlerSettles, ActiveExecutions
  <2>3. before' \subseteq InProgress'
    BY <1>2, <2>2 DEF InProgress, ActiveMutations
  <2>4. f.at = "tasks" => e \notin before
    BY DEF FlushInv
  <2> QED BY <1>3, <2>1, <2>2, <2>3, <2>4
<1>14. ASSUME NEW e \in Execution, NEW ok \in BOOLEAN, ExecutionEnds(e, ok)
       PROVE  FlushInv'
  <2>1. call'["flush"].at = f.at /\ call'["flush"].on = f.on \ {e}
    BY <1>1, <1>14 DEF ExecutionEnds, Call
  <2>2. UNCHANGED <<mutation, stages>> /\ ActiveExecutions' = ActiveExecutions \ {e}
    BY <1>1, <1>14 DEF ExecutionEnds, ActiveExecutions
  <2>3. before' = before \ {e}
    BY <1>14 DEF ExecutionEnds
  <2>4. before' \subseteq InProgress'
    BY <1>2, <2>2, <2>3 DEF InProgress, ActiveMutations
  <2> QED BY <1>3, <2>1, <2>3, <2>4
<1>15. ASSUME NEW m \in Mutation, MutationStarts(m)
       PROVE  FlushInv'
  <2>1. UNCHANGED <<call, execution, stages, before>> /\ ActiveMutations \subseteq ActiveMutations'
    BY <1>1, <1>15 DEF MutationStarts, ActiveMutations
  <2>2. before' \subseteq InProgress'
    BY <1>2, <2>1 DEF InProgress, ActiveExecutions
  <2> QED BY <1>3, <2>1, <2>2
<1>16. ASSUME NEW m \in Mutation, MutationSettles(m)
       PROVE  FlushInv'
  <2>1. call'["flush"].at = f.at /\ call'["flush"].on = f.on \ {m}
    BY <1>1, <1>16 DEF MutationSettles, Call
  <2>2. UNCHANGED <<execution, stages>> /\ ActiveMutations' = ActiveMutations \ {m}
    BY <1>1, <1>16 DEF MutationSettles, ActiveMutations
  <2>3. before' = before \ {m}
    BY <1>16 DEF MutationSettles
  <2>4. before' \subseteq InProgress'
    BY <1>2, <2>2, <2>3 DEF InProgress, ActiveExecutions
  <2> QED BY <1>3, <2>1, <2>3, <2>4
<1>17. CASE UNCHANGED vars
  BY <1>4, <1>17 DEF vars, work
<1> QED
  BY <1>5, <1>6, <1>7, <1>8, <1>9, <1>10, <1>11, <1>12, <1>13, <1>14, <1>15, <1>16, <1>17
     DEF Next, Settling, Flushing

--------------------------------------------------------------------------------
(* The theorems.                                                           *)

\* The invariant holds in every reachable state.
LEMMA RuntimeInvariant == Spec => []RuntimeInv
<1>1. Init => RuntimeInv
  <2> SUFFICES ASSUME Init PROVE RuntimeInv
    OBVIOUS
  <2>1. Typed
    <3>1. call \in [Caller -> Call] /\ call["start"].at # "delay"
      BY NoCallForm DEF Init, Caller
    <3>2. tick = NoTick
          /\ tick \in [at : Stage \cup {"none"}, failed : BOOLEAN, byTimer : BOOLEAN]
      BY DEF Init, NoTick
    <3>3. /\ execution \in [Execution -> {"none", "handling", "committing", "done"}]
          /\ mutation \in [Mutation -> {"none", "active", "done"}]
      BY DEF Init
    <3>4. tries \in 0 .. MaxInitialTicks /\ faults \in 0 .. MaxFaults
      BY RuntimeConstants DEF RuntimeConstants, Init
    <3>5. {started, draining, destroyed, timer, restart, failures} \subseteq BOOLEAN
      BY DEF Init
    <3> QED BY <3>1, <3>2, <3>3, <3>4, <3>5 DEF Init, Typed, TypeOK
  <2>2. call["shutdown"].at = "none" /\ call["flush"].at = "none"
    BY NoCallForm DEF Init, Caller
  <2> QED BY <2>1, <2>2 DEF Init, RuntimeInv, ShutdownInv, FlushInv, Pending
<1>2. RuntimeInv /\ [Next]_vars => RuntimeInv'
  BY RuntimeConstants, TypedStep, ShutdownStep, FlushStep DEF RuntimeInv
<1> QED BY <1>1, <1>2, PTL DEF Spec

\* Every variable stays in its type, whatever the calls, timers and stages do.
THEOREM RuntimeTypes == Spec => []TypeOK
<1>1. RuntimeInv => TypeOK
  BY DEF RuntimeInv, Typed
<1> QED BY <1>1, RuntimeInvariant, PTL

\* However a shutdown ends, destroyed, rejected for a failed preparation or with handlers that
\* ignore it, each handler still at work has been told to abort.
THEOREM ShutdownTellsHandlers == Spec => ShutdownAborts
<1>1. ASSUME RuntimeInv, [Next]_vars
      PROVE  [(Pending("shutdown") /\ call'["shutdown"] = NoCall) => Handling \subseteq aborted]_vars
  <2> SUFFICES ASSUME Next, Pending("shutdown"), call'["shutdown"] = NoCall
               PROVE  Handling \subseteq aborted
    BY <1>1
  <2> DEFINE s == call["shutdown"]
  <2>1. /\ call \in [Caller -> Call] /\ {"start", "flush", "shutdown"} \subseteq Caller
        /\ Typed /\ s \in Call
    BY <1>1 DEF RuntimeInv, Typed, TypeOK, Caller
  <2>2. ASSUME call'["shutdown"].at = s.at
        PROVE  FALSE
    BY <2>2, NoCallForm DEF Pending
  <2>3. CASE TimerFires \/ StageTimesOut
    BY <2>1, <2>2, <2>3, TimeoutForm DEF TimerFires, KeepsWaiting
  <2>4. CASE \E g \in Stage : Settling(g)
    BY <2>1, <2>2, <2>4, StageForm DEF Settling, KeepsWaiting
  <2>5. CASE StartCall \/ Starting \/ FlushCall \/ Flushing
    <3>1. CASE StartCall \/ StartDelays \/ StartRetries \/ FlushCall \/ FlushGoesOn
      BY <2>1, <2>2, <3>1
         DEF StartCall, StartDelays, StartRetries, InitialTick, FlushCall, FlushGoesOn
    <3>2. CASE StartSucceeds \/ StartFails
      <4>1. PICK ok : call' = Settled([call EXCEPT !["start"] = NoCall], "start", ok)
        BY <3>2, Zenon DEF StartSucceeds, StartFails
      <4> QED BY <2>1, <2>2, <4>1, RuntimeConstants, EndKeeps
    <3>3. CASE FlushSucceeds \/ FlushFails
      <4>1. PICK ok : call' = Settled([call EXCEPT !["flush"] = NoCall], "flush", ok)
        BY <3>3, Zenon DEF FlushSucceeds, FlushFails, FlushEnds
      <4> QED BY <2>1, <2>2, <4>1, RuntimeConstants, EndKeeps
    <3> QED BY <2>5, <3>1, <3>2, <3>3 DEF Starting, Flushing
  <2>6. CASE ShutdownCall
    BY <2>6 DEF ShutdownCall
  <2>7. CASE ShutdownGoesOn
    <3>1. AfterInShutdown[s.at] \in Phase \ {"none", "delay"}
      BY <2>7 DEF ShutdownGoesOn, ShutdownWaited, AfterInShutdown, Phase
    <3>2. call'["shutdown"].at = AfterInShutdown[s.at]
      BY <2>1, <2>7, <3>1, EnterForm DEF ShutdownGoesOn, Typed
    <3> QED BY <3>1, <3>2, NoCallForm
  <2>8. CASE PreparationTimesOut
    BY <2>1, <2>2, <2>8 DEF PreparationTimesOut, Call
  <2>9. CASE GraceExpires
    BY <2>1, <2>9, EnterForm, NoCallForm DEF GraceExpires, Typed, Phase
  <2>10. CASE AbortIsIgnored \/ ShutdownFails \/ DisposalFails \/ ShutdownSucceeds
    BY <1>1, <2>10 DEF AbortIsIgnored, ShutdownFails, DisposalFails, ShutdownSucceeds,
           Finished, Prepared, TimerOf,
                       RuntimeInv, ShutdownInv
  <2>11. CASE \E e \in Execution : HandlerSettles(e) \/ \E ok \in BOOLEAN : ExecutionEnds(e, ok)
    BY <2>1, <2>2, <2>11 DEF HandlerSettles, ExecutionEnds, Call
  <2>12. CASE \E m \in Mutation : MutationStarts(m) \/ MutationSettles(m)
    BY <2>1, <2>2, <2>12 DEF MutationStarts, MutationSettles, Call
  <2> QED BY <2>3, <2>4, <2>5, <2>6, <2>7, <2>8, <2>9, <2>10, <2>11, <2>12
             DEF Next, ShuttingDown
<1> QED BY <1>1, RuntimeInvariant, PTL DEF Spec, ShutdownAborts

\* A flush that resolves is a barrier: all that was in progress when it was called has settled,
\* also the executions that a claim pending then has started since.
THEOREM FlushSettlesAll == Spec => FlushIsBarrier
<1>1. RuntimeInv /\ [Next]_vars => [FlushSucceeds => before = {}]_vars
  BY DEF RuntimeInv, Typed, TypeOK, FlushInv, FlushSucceeds, FlushComplete
<1> QED BY <1>1, RuntimeInvariant, PTL DEF Spec, FlushIsBarrier
--------------------------------------------------------------------------------
(* No call hangs.                                                          *)

\* The phases of each call; and a start waits for nothing but a tick, which is in progress.
WaitInv ==
    /\ call["start"].at \in {"none", "tick", "delay"}
    /\ call["flush"].at \in {"none", "tick", "stages", "executions", "tasks", "mutations"}
    /\ call["shutdown"].at \in {"none", "start", "flush", "tick", "stages", "grace",
                                "aborting", "mutations"}
    /\ call["start"].on \subseteq {"tick"}
    /\ call["start"].on # {} => Ticking

\* A tick that goes on is still one, or the start need not wait for it any more.
LEMMA GoesOnWaits ==
  ASSUME Typed, Ticking, NEW failed \in BOOLEAN, NEW pending, NEW calls \in [Caller -> Call],
         \/ /\ tick' = [tick EXCEPT !.at = Following(tick.at), !.failed = failed]
            /\ stages' = pending \cup {Following(tick.at)} /\ call' = calls
            /\ UNCHANGED failures
         \/ /\ tick' = NoTick /\ stages' = pending
            /\ call' = Settled(calls, "tick", ~failed)
            /\ failures' = (failures \/ (failed /\ tick.byTimer))
  PROVE  /\ \A c \in Caller : call'[c].at = calls[c].at /\ call'[c].on \subseteq calls[c].on
         /\ Ticking' \/ "tick" \notin call'["start"].on
<1>1. tick \in [at : Stage \cup {"none"}, failed : BOOLEAN, byTimer : BOOLEAN]
  BY DEF Typed, TypeOK
<1>2. CASE tick' = [tick EXCEPT !.at = Following(tick.at), !.failed = failed] /\ call' = calls
  <2>1. tick'.at = Following(tick.at) /\ Following(tick.at) # "none"
    BY <1>1, <1>2 DEF Following
  <2>2. Ticking'
    BY <2>1 DEF Ticking, NoTick
  <2> QED BY <1>2, <2>2
<1>3. CASE call' = Settled(calls, "tick", ~failed)
  <2> DEFINE well == ~failed
  <2>1. call' = Settled(calls, "tick", well)
    BY <1>3, Zenon
  <2> HIDE DEF well
  <2>2. \A c \in Caller : call'[c].at = calls[c].at /\ call'[c].on = calls[c].on \ {"tick"}
    BY <2>1, SettledForm
  <2> QED BY <2>2 DEF Caller
<1> QED BY <1>2, <1>3

\* Each action keeps the calls in their phases, and the start with a tick to wait for.
LEMMA WaitStep ==
  ASSUME RuntimeConstants, Typed, WaitInv, [Next]_vars
  PROVE  WaitInv'
<1>1. /\ call \in [Caller -> Call] /\ {"start", "flush", "shutdown"} \subseteq Caller
      /\ \A c \in Caller : call[c] \in Call
      /\ tick \in [at : Stage \cup {"none"}, failed : BOOLEAN, byTimer : BOOLEAN]
      /\ tick.at = "none" => tick = NoTick
      /\ stages \subseteq Stage
  BY DEF Typed, TypeOK, Caller
<1>2. ASSUME \A c \in Caller : call'[c].at = call[c].at /\ call'[c].on \subseteq call[c].on,
             \/ UNCHANGED tick \/ Ticking' \/ "tick" \notin call'["start"].on
      PROVE  WaitInv'
  <2>1. call'["start"].on \subseteq {"tick"}
    BY <1>1, <1>2 DEF WaitInv
  <2>2. call'["start"].on # {} => Ticking'
    BY <1>1, <1>2, <2>1 DEF WaitInv, Ticking
  <2> QED BY <1>1, <1>2, <2>1, <2>2 DEF WaitInv
<1>3. ASSUME NEW c \in {"flush", "shutdown"}, UNCHANGED tick,
             call'[c].at \in (IF c = "flush"
                              THEN {"none", "tick", "stages", "executions", "tasks", "mutations"}
                              ELSE {"none", "start", "flush", "tick", "stages", "grace",
                                    "aborting", "mutations"}),
             \A d \in Caller \ {c} : call'[d].at = call[d].at /\ call'[d].on \subseteq call[d].on
      PROVE  WaitInv'
  <2>1. call'["start"].at = call["start"].at /\ call'["start"].on \subseteq call["start"].on
    BY <1>1, <1>3
  <2>2. CASE c = "flush"
    BY <1>1, <1>3, <2>1, <2>2 DEF WaitInv, Ticking
  <2>3. CASE c = "shutdown"
    BY <1>1, <1>3, <2>1, <2>3 DEF WaitInv, Ticking
  <2> QED BY <1>3, <2>2, <2>3
<1>4. CASE TimerFires
  <2>1. tick'.at = "stale-recovery"
    BY <1>4 DEF TimerFires, TickCall
  <2>2. Ticking' /\ call' = call
    BY <1>4, <2>1 DEF TimerFires, Ticking, NoTick
  <2> QED BY <1>2, <2>2
<1>5. CASE StageTimesOut
  <2>1. PICK failed \in BOOLEAN : failed = (tick.failed \/ (~FALSE /\ tick.at # "maintenance"))
    BY <1>1
  <2>2. \/ /\ tick' = [tick EXCEPT !.at = Following(tick.at), !.failed = failed]
           /\ stages' = stages \cup {Following(tick.at)} /\ call' = call
           /\ UNCHANGED failures
        \/ /\ tick' = NoTick /\ stages' = stages
           /\ call' = Settled(call, "tick", ~failed)
           /\ failures' = (failures \/ (failed /\ tick.byTimer))
    BY <1>5, <2>1 DEF StageTimesOut, GoesOn
  <2>3. Ticking
    BY <1>5 DEF StageTimesOut
  <2>4. /\ \A c \in Caller : call'[c].at = call[c].at /\ call'[c].on \subseteq call[c].on
        /\ Ticking' \/ "tick" \notin call'["start"].on
    BY <1>1, <2>2, <2>3, GoesOnWaits
  <2> QED BY <1>2, <2>4
<1>6. ASSUME NEW s \in Stage, NEW ok \in BOOLEAN, StageSettles(s, ok)
      PROVE  WaitInv'
  <2>1. PICK calls \in [Caller -> Call] :
          /\ calls = Settled(call, s, ok)
          /\ \A c \in Caller : calls[c].at = call[c].at /\ calls[c].on = call[c].on \ {s}
    BY <1>1, SettledForm
  <2>2. CASE tick.at = s
    <3>1. PICK failed \in BOOLEAN : failed = (tick.failed \/ (~ok /\ tick.at # "maintenance"))
      BY <1>1
    <3>2. PICK pending : pending = stages \ {s}
      OBVIOUS
    <3>3. \/ /\ tick' = [tick EXCEPT !.at = Following(tick.at), !.failed = failed]
             /\ stages' = pending \cup {Following(tick.at)} /\ call' = calls
             /\ UNCHANGED failures
          \/ /\ tick' = NoTick /\ stages' = pending
             /\ call' = Settled(calls, "tick", ~failed)
             /\ failures' = (failures \/ (failed /\ tick.byTimer))
      BY <1>6, <2>1, <2>2, <3>1, <3>2 DEF StageSettles, GoesOn
    <3>4. Ticking
      BY <2>2 DEF Ticking, NoTick, Stage
    <3>5. /\ \A c \in Caller : call'[c].at = calls[c].at /\ call'[c].on \subseteq calls[c].on
          /\ Ticking' \/ "tick" \notin call'["start"].on
      BY <1>1, <3>3, <3>4, GoesOnWaits
    <3> QED BY <1>2, <2>1, <3>5
  <2>3. CASE tick.at # s
    <3>1. call' = calls /\ UNCHANGED tick
      BY <1>6, <2>1, <2>3 DEF StageSettles
    <3> QED BY <1>2, <2>1, <3>1
  <2> QED BY <2>2, <2>3
<1>7. ASSUME InitialTick
      PROVE  WaitInv'
  <2>1. /\ call'["start"].at = "tick" /\ call'["start"].on \subseteq {"tick"}
        /\ Closed => call'["start"].on = {}
        /\ \A c \in Caller \ {"start"} : call'[c] = call[c]
    BY <1>1, <1>7 DEF InitialTick
  <2>2. ~Closed => Ticking'
    <3>1. CASE ~Closed /\ ~Ticking
      BY <1>7, <3>1 DEF InitialTick, TickCall, Ticking, NoTick
    <3>2. CASE ~Closed /\ Ticking
      BY <1>7, <3>2 DEF InitialTick, TickCall, Ticking
    <3> QED BY <3>1, <3>2
  <2> QED BY <1>1, <2>1, <2>2 DEF WaitInv
<1>8. CASE StartCall \/ Starting
  <2>1. CASE StartCall \/ StartRetries
    BY <1>7, <2>1 DEF StartCall, StartRetries
  <2>2. CASE StartDelays
    <3>1. /\ call'["start"].at = "delay" /\ call'["start"].on = {}
          /\ \A c \in Caller \ {"start"} : call'[c] = call[c]
      BY <1>1, <2>2 DEF StartDelays, NoCall
    <3> QED BY <1>1, <3>1 DEF WaitInv
  <2>3. CASE StartSucceeds \/ StartFails
    <3>1. PICK ok : call' = Settled([call EXCEPT !["start"] = NoCall], "start", ok)
      BY <2>3, Zenon DEF StartSucceeds, StartFails
    <3>2. /\ call'["start"].at = "none" /\ call'["start"].on = {}
          /\ \A c \in Caller \ {"start"} : call'[c].at = call[c].at
      BY <1>1, <3>1, EndForm
    <3> QED BY <1>1, <3>2 DEF WaitInv
  <2> QED BY <1>8, <2>1, <2>2, <2>3 DEF Starting
<1>9. CASE FlushCall \/ Flushing
  <2>1. UNCHANGED tick
    BY <1>9 DEF FlushCall, Flushing, FlushGoesOn, FlushSucceeds, FlushFails, FlushEnds
  <2>2. ASSUME NEW phase \in {"tick", "stages", "executions", "tasks", "mutations"},
               call' = [call EXCEPT !["flush"] = Enter("flush", phase)]
        PROVE  WaitInv'
    <3>1. call'["flush"].at = phase /\ \A d \in Caller \ {"flush"} : call'[d] = call[d]
      BY <1>1, <2>2, EnterForm DEF Typed, Phase
    <3> QED BY <1>3, <2>1, <3>1
  <2>3. CASE FlushCall
    BY <2>2, <2>3 DEF FlushCall
  <2>4. CASE FlushGoesOn
    <3>1. AfterInFlush[call["flush"].at]
            \in {"tick", "stages", "executions", "tasks", "mutations"}
      BY <2>4 DEF FlushGoesOn, FlushWaited, AfterInFlush
    <3> QED BY <2>2, <2>4, <3>1 DEF FlushGoesOn
  <2>5. CASE FlushSucceeds \/ FlushFails
    <3>1. PICK ok : call' = Settled([call EXCEPT !["flush"] = NoCall], "flush", ok)
      BY <2>5, Zenon DEF FlushSucceeds, FlushFails, FlushEnds
    <3>2. call \in [Caller -> Call] /\ "flush" \in Caller
      BY <1>1
    <3>3. /\ call'["flush"].at = "none"
          /\ \A d \in Caller \ {"flush"} : /\ call'[d].at = call[d].at
                                           /\ call'[d].on = call[d].on \ {"flush"}
      BY <3>1, <3>2, EndForm
    <3> QED BY <1>3, <2>1, <3>3
  <2> QED BY <1>9, <2>3, <2>4, <2>5 DEF Flushing
<1>10. CASE ShutdownCall \/ ShuttingDown
  <2>1. UNCHANGED tick
    BY <1>10 DEF ShutdownCall, ShuttingDown, ShutdownGoesOn, PreparationTimesOut, GraceExpires,
                 AbortIsIgnored, ShutdownFails, DisposalFails, ShutdownSucceeds, ShutdownRejects
  <2>2. ASSUME NEW r, call' = [call EXCEPT !["shutdown"] = r],
               r.at \in {"none", "start", "flush", "tick", "stages", "grace",
                         "aborting", "mutations"}
        PROVE  WaitInv'
    <3>1. call'["shutdown"] = r /\ \A d \in Caller \ {"shutdown"} : call'[d] = call[d]
      BY <1>1, <2>2
    <3> QED BY <1>3, <2>1, <2>2, <3>1
  <2>3. CASE ShutdownCall
    BY <2>2, <2>3 DEF ShutdownCall
  <2>4. ASSUME NEW phase \in {"start", "flush", "tick", "stages", "grace", "aborting",
                              "mutations"},
               call' = [call EXCEPT !["shutdown"] = Enter("shutdown", phase)]
        PROVE  WaitInv'
    <3>1. phase \in Phase \ {"none", "delay"}
      BY DEF Phase
    <3>2. Enter("shutdown", phase).at = phase
      BY <1>1, <3>1, EnterForm DEF Typed
    <3> QED BY <2>2, <2>4, <3>2
  <2>5. CASE ShutdownGoesOn
    <3>1. AfterInShutdown[call["shutdown"].at]
            \in {"start", "flush", "tick", "stages", "grace", "aborting", "mutations"}
      BY <2>5 DEF ShutdownGoesOn, ShutdownWaited, AfterInShutdown
    <3> QED BY <2>4, <2>5, <3>1 DEF ShutdownGoesOn
  <2>6. CASE GraceExpires
    BY <2>4, <2>6 DEF GraceExpires
  <2>7. CASE PreparationTimesOut
    <3>1. /\ call'["shutdown"].at = call["shutdown"].at
          /\ \A d \in Caller \ {"shutdown"} : call'[d] = call[d]
      BY <1>1, <2>7 DEF PreparationTimesOut, Call
    <3> QED BY <1>3, <2>1, <3>1 DEF WaitInv
  <2>8. CASE AbortIsIgnored \/ ShutdownFails \/ DisposalFails \/ ShutdownSucceeds
    <3>1. call' = [call EXCEPT !["shutdown"] = NoCall]
      BY <2>8 DEF AbortIsIgnored, ShutdownFails, DisposalFails, ShutdownSucceeds, ShutdownRejects
    <3> QED BY <2>2, <3>1, NoCallForm
  <2> QED BY <1>10, <2>3, <2>5, <2>6, <2>7, <2>8 DEF ShuttingDown
<1>11. CASE \E e \in Execution : HandlerSettles(e) \/ \E ok \in BOOLEAN : ExecutionEnds(e, ok)
  <2>1. /\ \A c \in Caller : call'[c].at = call[c].at /\ call'[c].on \subseteq call[c].on
        /\ UNCHANGED tick
    BY <1>1, <1>11 DEF HandlerSettles, ExecutionEnds, Call
  <2> QED BY <1>2, <2>1
<1>12. CASE \E m \in Mutation : MutationStarts(m) \/ MutationSettles(m)
  <2>1. /\ \A c \in Caller : call'[c].at = call[c].at /\ call'[c].on \subseteq call[c].on
        /\ UNCHANGED tick
    BY <1>1, <1>12 DEF MutationStarts, MutationSettles, Call
  <2> QED BY <1>2, <2>1
<1>13. CASE UNCHANGED vars
  BY <1>2, <1>13 DEF vars
<1> QED BY <1>4, <1>5, <1>6, <1>8, <1>9, <1>10, <1>11, <1>12, <1>13 DEF Next, Settling

\* No call hangs: each call in progress has a step that comes by a timer, its own, or the
\* tick's for which a start waits.
THEOREM CallsNeverHang == Spec => []NoCallHangs
<1>1. Init => WaitInv
  BY DEF Init, WaitInv, Caller, NoCall
<1>2. Typed /\ WaitInv /\ [Next]_vars => WaitInv'
  BY RuntimeConstants, WaitStep
<1>3. Typed /\ WaitInv => NoCallHangs
  <2>1. SUFFICES ASSUME Typed, WaitInv PROVE NoCallHangs
    OBVIOUS
  <2>2. \A c \in {"start", "flush", "shutdown"} : call[c] \in Call
    BY <2>1 DEF Typed, TypeOK, Caller
  <2>3. \A c \in {"start", "flush", "shutdown"} : call[c].failed \in BOOLEAN
    BY <2>2 DEF Call
  <2>4. Pending("start") => TickSucceeded \/ TickFailed \/ DelayEnds \/ Ticking
    BY <2>1, <2>3 DEF WaitInv, Pending, TickSucceeded, TickFailed, DelayEnds
  <2>5. Pending("flush") => FlushWaited \/ FlushComplete \/ FlushGivesUp
    BY <2>1, <2>3 DEF WaitInv, Pending, FlushWaited, FlushComplete, FlushGivesUp, AfterInFlush
  <2>6. Pending("shutdown") =>
          \/ ShutdownWaited \/ Prepared
          \/ TimerOf(Preparations) \/ TimerOf({"grace"}) \/ TimerOf({"aborting"})
    BY <2>1 DEF WaitInv, Pending, ShutdownWaited, Prepared, TimerOf, Preparations,
                AfterInShutdown
  <2> QED BY <2>4, <2>5, <2>6 DEF NoCallHangs
<1> QED BY <1>1, <1>2, <1>3, RuntimeInvariant, PTL DEF Spec, RuntimeInv
================================================================================
