------------------------------ MODULE JobsRuntime ------------------------------
(***************************************************************************)
(* The lifecycle of one jobs scheduler: start with its initial tick and    *)
(* retries, the poll timer, the tick with its stages, flush and shutdown.  *)
(* From packages/jobs/src/jobs/core: handler.ts, handler-tick.ts and       *)
(* handler-startup.ts.                                                     *)
(*                                                                         *)
(* Everything asynchronous that another part can wait for is a Thing.  A   *)
(* call (start, flush, shutdown) is in a phase and waits for the things it *)
(* found pending when the phase began; a wait ends when they have settled  *)
(* or when its timer fires, which may be any time before.  What a claimed  *)
(* run does in the store is in JobsWorkers.                                *)
(***************************************************************************)
EXTENDS Integers, FiniteSets

CONSTANTS
    Execution,      \* bound: the executions dispatch may start
    Mutation,       \* bound: the mutations callers and heartbeats may send
    MaxInitialTicks,    \* INITIAL_TICK_MAX_ATTEMPTS
    MaxFaults       \* bound: rejected stages, executions and lifecycle disposers

VARIABLES
    started, draining, destroyed,   \* control
    timer,          \* the poll timer is armed
    tick,           \* control.tick: the stage it awaits, whether one has failed
    stages,         \* backend stages and maintenance that have not settled
    call,           \* the start, flush and shutdown in progress
    tries,          \* initial ticks of the start in progress
    execution,      \* execution -> its progress
    aborted,        \* executions whose controller was aborted
    mutation,       \* mutation -> its progress
    restart,        \* the flush in progress takes polling up again
    failures,       \* executionFailures or backgroundFailures is not empty
    before,         \* what is still at work of what was when the flush was called,
                    \* and of the executions its pending claim has started (history)
    faults

control == <<started, draining, destroyed>>
work == <<execution, aborted, mutation>>
vars == <<control, timer, tick, stages, call, tries, work, failures, before, faults, restart>>

--------------------------------------------------------------------------------
\* "stale-recovery" stands for the schedule-trigger stage before it, too: the tick
\* treats the two alike.
Stage == {"stale-recovery", "run-claim", "maintenance"}
Following(s) == IF s = "stale-recovery" THEN "run-claim" ELSE "maintenance"

Caller == {"start", "flush", "shutdown"}
Thing == {"start", "flush", "tick"} \cup Stage \cup Execution \cup Mutation

ASSUME RuntimeConstants ==
    /\ IsFiniteSet(Execution) /\ IsFiniteSet(Mutation) /\ Execution \cap Mutation = {}
    /\ (Execution \cup Mutation) \cap ({"start", "flush", "tick"} \cup Stage) = {}
    /\ MaxInitialTicks \in Nat \ {0} /\ MaxFaults \in Nat

Phase == {"none", "tick", "delay", "stages", "executions", "tasks", "mutations",
          "start", "flush", "grace", "aborting"}

\* on: what the phase still waits for.  failed: something waited for was rejected.
Call == [at : Phase, on : SUBSET Thing, failed : BOOLEAN]
NoCall == [at |-> "none", on |-> {}, failed |-> FALSE]
Pending(c) == call[c].at # "none"

NoTick == [at |-> "none", failed |-> FALSE, byTimer |-> FALSE]
Ticking == tick # NoTick

Handling == {e \in Execution : execution[e] = "handling"}
ActiveExecutions == {e \in Execution : execution[e] \in {"handling", "committing"}}
ActiveMutations == {m \in Mutation : mutation[m] = "active"}

Closed == draining \/ destroyed
Faulty == faults < MaxFaults /\ faults' = faults + 1
Goes(ok) == IF ok THEN UNCHANGED faults ELSE Faulty

\* Executions and mutations are awaited with allSettled: their failure is no failure.
Settled(calls, x, ok) ==
    [c \in Caller |->
       [calls[c] EXCEPT !.on = @ \ {x}, !.failed = @ \/ (x \in calls[c].on /\ ~ok)]]

--------------------------------------------------------------------------------
(* The tick and its stages.                                                *)

WithFirstStage == stages \cup {"stale-recovery"}

TickCall(byTimer) ==
    IF Ticking THEN UNCHANGED <<tick, stages>>
    ELSE /\ tick' = [at |-> "stale-recovery", failed |-> FALSE, byTimer |-> byTimer]
         /\ stages' = WithFirstStage

TimerFires ==
    /\ timer /\ ~Ticking /\ ~Closed
    /\ TickCall(TRUE)
    /\ UNCHANGED <<control, timer, call, tries, work, failures, before, faults, restart>>

\* The tick, done with the stage it awaits, goes on: pending are the stages at work
\* and calls the calls after what has just happened.  Maintenance may not be due;
\* its failure is reported and does not fail the tick.
GoesOn(ok, pending, calls) ==
    LET failed == tick.failed \/ (~ok /\ tick.at # "maintenance")
    IN \/ /\ tick.at # "maintenance"
          /\ tick' = [tick EXCEPT !.at = Following(tick.at), !.failed = failed]
          /\ stages' = pending \cup {Following(tick.at)}
          /\ call' = calls
          /\ UNCHANGED failures
       \/ /\ tick.at \in {"run-claim", "maintenance"}
          /\ tick' = NoTick
          /\ stages' = pending
          /\ call' = Settled(calls, "tick", ~failed)
          /\ failures' = (failures \/ (failed /\ tick.byTimer))

Admits == started /\ ~destroyed /\ ~draining

\* The end of a dispatch: without admission its claims are given back.
StartsExecutions(s, ok) ==
    IF s = "run-claim" /\ ok /\ Admits
    THEN \E E \in SUBSET {e \in Execution : execution[e] = "none"} :
             execution' = [e \in Execution |-> IF e \in E THEN "handling" ELSE execution[e]]
    ELSE UNCHANGED execution

StageSettles(s, ok) ==
    /\ s \in stages
    /\ Goes(ok)
    /\ StartsExecutions(s, ok)
    /\ LET calls == Settled(call, s, ok)
       IN IF tick.at = s THEN GoesOn(ok, stages \ {s}, calls)
          ELSE /\ stages' = stages \ {s} /\ call' = calls
               /\ UNCHANGED <<tick, failures>>
    /\ before' = IF s \notin before THEN before
                 ELSE (before \ {s}) \cup {e \in Execution : execution'[e] # execution[e]}
    /\ UNCHANGED <<control, timer, tries, aborted, mutation, restart>>

\* The tick gives up waiting; the stage stays at work and is joined by a later tick.
StageTimesOut ==
    /\ Ticking
    /\ GoesOn(FALSE, stages, call)
    /\ UNCHANGED <<control, timer, tries, work, before, faults, restart>>

--------------------------------------------------------------------------------
(* start.                                                                  *)

\* The initial tick; a draining scheduler's tick returns at once.
InitialTick ==
    /\ call' = [call EXCEPT !["start"] =
                  [at |-> "tick", on |-> IF Closed THEN {} ELSE {"tick"}, failed |-> FALSE]]
    /\ IF Closed THEN UNCHANGED <<tick, stages>> ELSE TickCall(FALSE)

StartCall ==
    /\ ~Closed /\ ~Pending("start") /\ ~started
    /\ started' = TRUE
    /\ tries' = 1
    /\ InitialTick
    /\ UNCHANGED <<draining, destroyed, timer, work, failures, before, faults, restart>>

TickSucceeded ==
    call["start"].at = "tick" /\ call["start"].on = {} /\ ~call["start"].failed

TickFailed == call["start"].at = "tick" /\ call["start"].failed

\* The loop is started without asking whether the scheduler has begun to drain.
StartSucceeds ==
    /\ TickSucceeded
    /\ timer' = TRUE
    /\ tries' = 0
    /\ call' = Settled([call EXCEPT !["start"] = NoCall], "start", TRUE)
    /\ UNCHANGED <<control, tick, stages, work, failures, before, faults, restart>>

RetriesLeft == tries < MaxInitialTicks

\* A transient failure of the initial tick is retried after a delay.
StartDelays ==
    /\ TickFailed /\ RetriesLeft
    /\ call' = [call EXCEPT !["start"] = [NoCall EXCEPT !.at = "delay"]]
    /\ UNCHANGED <<control, timer, tick, stages, tries, work, failures, before, faults, restart>>

DelayEnds == call["start"].at = "delay"

StartRetries ==
    /\ DelayEnds
    /\ tries' = tries + 1
    /\ InitialTick
    /\ UNCHANGED <<control, timer, work, failures, before, faults, restart>>

StartFails ==
    /\ TickFailed
    /\ timer' = FALSE
    /\ tries' = 0
    /\ started' = FALSE
    /\ call' = Settled([call EXCEPT !["start"] = NoCall], "start", FALSE)
    /\ UNCHANGED <<draining, destroyed, tick, stages, work, failures, before, faults, restart>>

--------------------------------------------------------------------------------
(* flush.                                                                  *)

\* What a phase finds to wait for when it begins.
Found(phase) ==
    CASE phase = "start" -> IF Pending("start") THEN {"start"} ELSE {}
      [] phase = "flush" -> IF Pending("flush") THEN {"flush"} ELSE {}
      [] phase = "tick" -> IF Ticking THEN {"tick"} ELSE {}
      [] phase = "stages" -> stages
      [] phase \in {"executions", "grace", "aborting"} -> ActiveExecutions
      [] phase = "tasks" -> Handling
      [] phase = "mutations" -> ActiveMutations

Enter(c, phase) == [call[c] EXCEPT !.at = phase, !.on = Found(phase)]

\* Mutant: executions are looked up before the stages that may start some.
FlushSkipsStages == [p \in {"tick", "stages", "executions", "tasks"} |->
    CASE p = "tick" -> "executions" [] p = "stages" -> "tasks"
      [] p = "executions" -> "stages" [] p = "tasks" -> "mutations"]

AfterInFlush == [p \in {"tick", "stages", "executions", "tasks"} |->
    CASE p = "tick" -> "stages" [] p = "stages" -> "executions"
      [] p = "executions" -> "tasks" [] p = "tasks" -> "mutations"]

InProgress == ActiveExecutions \cup ActiveMutations \cup stages

FlushCall ==
    /\ ~Closed /\ ~Pending("flush")
    /\ timer' = FALSE
    /\ restart' = started
    /\ call' = [call EXCEPT !["flush"] = Enter("flush", "tick")]
    /\ before' = InProgress
    /\ UNCHANGED <<control, tick, stages, tries, work, failures, faults>>

FlushWaited ==
    LET f == call["flush"]
    IN f.at \in DOMAIN AfterInFlush /\ f.on = {} /\ ~f.failed

FlushGoesOn ==
    /\ FlushWaited
    /\ call' = [call EXCEPT !["flush"] = Enter("flush", AfterInFlush[call["flush"].at])]
    /\ UNCHANGED <<control, timer, tick, stages, tries, work, failures, before, faults, restart>>

\* The flush settles; polling is taken up again if it was to be.
FlushEnds(ok) ==
    /\ timer' = (timer \/ (restart /\ started /\ ~Closed))
    /\ restart' = FALSE
    /\ call' = Settled([call EXCEPT !["flush"] = NoCall], "flush", ok)
    /\ before' = {}
    /\ UNCHANGED <<control, tick, stages, tries, work, faults>>

FlushComplete == call["flush"].at = "mutations" /\ call["flush"].on = {}

FlushSucceeds ==
    /\ FlushComplete
    /\ ~call["flush"].failed /\ ~failures
    /\ FlushEnds(TRUE)
    /\ UNCHANGED failures

\* A wait was rejected, or is timed out at any time.
FlushGivesUp == Pending("flush") /\ (call["flush"].failed \/ call["flush"].on # {})

\* It gives up, or background failures come to light.
FlushFails ==
    /\ \/ FlushGivesUp /\ UNCHANGED failures
       \/ FlushComplete /\ failures /\ failures' = FALSE
    /\ FlushEnds(FALSE)

--------------------------------------------------------------------------------
(* shutdown.                                                               *)

ShutdownCall ==
    /\ ~destroyed /\ ~Pending("shutdown")
    /\ draining' = TRUE
    /\ timer' = FALSE
    /\ call' = [call EXCEPT !["shutdown"] =
                  [at |-> "start", on |-> Found("start"), failed |-> FALSE]]
    /\ UNCHANGED <<started, destroyed, tick, stages, tries, work, failures, before, faults, restart>>

AfterInShutdown == [p \in {"start", "flush", "tick", "stages", "grace", "aborting"} |->
    CASE p = "start" -> "flush" [] p = "flush" -> "tick" [] p = "tick" -> "stages"
      [] p = "stages" -> "grace" [] p = "grace" -> "mutations" [] p = "aborting" -> "mutations"]

ShutdownWaited == call["shutdown"].at \in DOMAIN AfterInShutdown /\ call["shutdown"].on = {}

\* What was rejected on the way is remembered, and the next phase begins.
ShutdownGoesOn ==
    /\ ShutdownWaited
    /\ call' = [call EXCEPT !["shutdown"] =
                  Enter("shutdown", AfterInShutdown[call["shutdown"].at])]
    /\ UNCHANGED <<control, timer, tick, stages, tries, work, failures, before, faults, restart>>

\* Mutant: accepted mutations are awaited without a timeout.
BoundedExceptMutations == {"start", "flush", "tick", "stages"}

Preparations == {"start", "flush", "tick", "stages", "mutations"}

\* A timer bounds the wait of these phases.
TimerOf(phases) == call["shutdown"].at \in phases /\ call["shutdown"].on # {}

\* A preparation that times out counts as failed; the shutdown goes on.
PreparationTimesOut ==
    /\ TimerOf(Preparations)
    /\ call' = [call EXCEPT !["shutdown"].on = {}, !["shutdown"].failed = TRUE]
    /\ UNCHANGED <<control, timer, tick, stages, tries, work, failures, before, faults, restart>>

\* Mutant: nobody is told.
ToldNothing == aborted

ToldToAbort == aborted \cup Handling

\* The grace period ends: every registered controller is aborted.
GraceExpires ==
    /\ TimerOf({"grace"})
    /\ aborted' = ToldToAbort
    /\ call' = [call EXCEPT !["shutdown"] = Enter("shutdown", "aborting")]
    /\ UNCHANGED <<control, timer, tick, stages, tries, execution, mutation, failures,
                   before, faults, restart>>

\* The call is rejected; the scheduler stays draining and shutdown may be called again.
ShutdownRejects ==
    /\ call' = [call EXCEPT !["shutdown"] = NoCall]
    /\ UNCHANGED <<draining, destroyed, timer, tick, stages, tries, work, before, restart>>

AbortIsIgnored ==
    /\ TimerOf({"aborting"})
    /\ ShutdownRejects
    /\ UNCHANGED <<started, failures, faults>>

\* Mutant: reported failures are kept.
FailuresKept == failures

FailuresReported == FALSE

Prepared == call["shutdown"].at = "mutations" /\ call["shutdown"].on = {}

ShutdownFails ==
    /\ Prepared
    /\ call["shutdown"].failed \/ failures
    /\ ShutdownRejects
    /\ failures' = FailuresReported
    /\ UNCHANGED <<started, faults>>

Finished == Prepared /\ ~call["shutdown"].failed /\ ~failures

\* A lifecycle disposer throws: only this is left to do at the next call.
DisposalFails ==
    /\ Finished /\ Faulty
    /\ started' = FALSE
    /\ ShutdownRejects
    /\ UNCHANGED failures

ShutdownSucceeds ==
    /\ Finished
    /\ started' = FALSE /\ destroyed' = TRUE
    /\ call' = [call EXCEPT !["shutdown"] = NoCall]
    /\ UNCHANGED <<draining, timer, tick, stages, tries, work, failures, before, faults, restart>>

--------------------------------------------------------------------------------
(* Executions and mutations.                                               *)

\* The handler returns or throws, whether told to abort or not.
HandlerSettles(e) ==
    /\ execution[e] = "handling"
    /\ execution' = [execution EXCEPT ![e] = "committing"]
    /\ call' = [call EXCEPT !["flush"].on = IF call["flush"].at = "tasks" THEN @ \ {e} ELSE @]
    /\ UNCHANGED <<control, timer, tick, stages, tries, aborted, mutation, failures,
                   before, faults, restart>>

\* Its commit is through; a commit that fails is kept for the next flush or shutdown.
ExecutionEnds(e, ok) ==
    /\ execution[e] = "committing"
    /\ Goes(ok)
    /\ execution' = [execution EXCEPT ![e] = "done"]
    /\ aborted' = aborted \ {e}
    /\ failures' = (failures \/ ~ok)
    /\ call' = [c \in Caller |-> [call[c] EXCEPT !.on = @ \ {e}]]
    /\ before' = before \ {e}
    /\ UNCHANGED <<control, timer, tick, stages, tries, mutation, restart>>

\* An enqueue or another call of a user, or the renewal of an execution's lease.
MutationStarts(m) ==
    /\ mutation[m] = "none"
    /\ ~Closed \/ Handling # {}
    /\ mutation' = [mutation EXCEPT ![m] = "active"]
    /\ UNCHANGED <<control, timer, tick, stages, call, tries, execution, aborted, failures,
                   before, faults, restart>>

MutationSettles(m) ==
    /\ mutation[m] = "active"
    /\ mutation' = [mutation EXCEPT ![m] = "done"]
    /\ call' = [c \in Caller |-> [call[c] EXCEPT !.on = @ \ {m}]]
    /\ before' = before \ {m}
    /\ UNCHANGED <<control, timer, tick, stages, tries, execution, aborted, failures,
                   faults, restart>>

--------------------------------------------------------------------------------
Init ==
    /\ started = FALSE /\ draining = FALSE /\ destroyed = FALSE
    /\ timer = FALSE
    /\ tick = NoTick /\ stages = {}
    /\ call = [c \in Caller |-> NoCall]
    /\ tries = 0
    /\ execution = [e \in Execution |-> "none"] /\ aborted = {}
    /\ mutation = [m \in Mutation |-> "none"]
    /\ failures = FALSE /\ restart = FALSE
    /\ before = {}
    /\ faults = 0

Settling(s) == \E ok \in BOOLEAN : StageSettles(s, ok)
Starting == StartSucceeds \/ StartDelays \/ StartRetries \/ StartFails
Flushing == FlushGoesOn \/ FlushSucceeds \/ FlushFails
ShuttingDown ==
    \/ ShutdownGoesOn \/ PreparationTimesOut \/ GraceExpires \/ AbortIsIgnored
    \/ ShutdownFails \/ DisposalFails \/ ShutdownSucceeds

Next ==
    \/ TimerFires \/ StageTimesOut
    \/ \E s \in Stage : Settling(s)
    \/ StartCall \/ Starting
    \/ FlushCall \/ Flushing
    \/ ShutdownCall \/ ShuttingDown
    \/ \E e \in Execution : HandlerSettles(e) \/ \E ok \in BOOLEAN : ExecutionEnds(e, ok)
    \/ \E m \in Mutation : MutationStarts(m) \/ MutationSettles(m)

Spec == Init /\ [][Next]_vars

\* Timers fire and continuations run; a rejected shutdown is called again.
TimersRun ==
    /\ WF_vars(Starting) /\ WF_vars(Flushing)
    /\ WF_vars(ShuttingDown \/ (draining /\ ShutdownCall))

\* The backend answers and handlers settle.
AllSettles ==
    /\ \A s \in Stage : WF_vars(Settling(s))
    /\ \A e \in Execution :
         WF_vars(HandlerSettles(e) \/ \E ok \in BOOLEAN : ExecutionEnds(e, ok))
    /\ \A m \in Mutation : WF_vars(MutationSettles(m))

SettlingSpec == Spec /\ TimersRun /\ AllSettles

--------------------------------------------------------------------------------
(* Properties.                                                             *)

\* Every variable stays in its type.
TypeOK ==
    /\ {started, draining, destroyed, timer, restart, failures} \subseteq BOOLEAN
    /\ tick \in [at : Stage \cup {"none"}, failed : BOOLEAN, byTimer : BOOLEAN]
    /\ stages \subseteq Stage
    /\ call \in [Caller -> Call]
    /\ tries \in 0 .. MaxInitialTicks
    /\ execution \in [Execution -> {"none", "handling", "committing", "done"}]
    /\ aborted \subseteq Execution
    /\ mutation \in [Mutation -> {"none", "active", "done"}]
    /\ before \subseteq Execution \cup Mutation \cup Stage
    /\ faults \in 0 .. MaxFaults

\* However a shutdown ends, each handler still at work has been told to abort: failed
\* or hanging preparations do not bypass the abort (comment in handler.ts).
ShutdownAborts ==
    [][(Pending("shutdown") /\ call'["shutdown"] = NoCall) => Handling \subseteq aborted]_vars

\* A flush that resolves is a barrier: what was in progress when it was called has
\* settled, also the executions started by a claim that was pending then.
FlushIsBarrier == [][FlushSucceeds => before = {}]_vars

\* No call hangs: whatever the backend and the handlers leave unanswered, each call
\* in progress has a step of its own, or of the tick it waits for, that comes by a timer.
\* (These are the guards of Starting, StageTimesOut, Flushing and ShuttingDown.)
NoCallHangs ==
    /\ Pending("start") => TickSucceeded \/ TickFailed \/ DelayEnds \/ Ticking
    /\ Pending("flush") => FlushWaited \/ FlushComplete \/ FlushGivesUp
    /\ Pending("shutdown") =>
         \/ ShutdownWaited \/ Prepared
         \/ TimerOf(Preparations) \/ TimerOf({"grace"}) \/ TimerOf({"aborting"})

\* A scheduler that has begun to drain gets destroyed once its work settles and its
\* shutdown is repeated: no failure on the way wedges it.
DrainingEnds == draining ~> destroyed

================================================================================
