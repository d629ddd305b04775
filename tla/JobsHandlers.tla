------------------------------ MODULE JobsHandlers ------------------------------
(***************************************************************************)
(* What the jobs scheduler promises an application of the handlers it      *)
(* registers, whatever workers share the backend: the life of a run as     *)
(* core/handler-execution.ts and the backends bring it about, without      *)
(* claims, leases, tokens, heartbeats, fences or clocks.  A run is open    *)
(* from its creation until it is completed, dead-lettered or cancelled;    *)
(* meanwhile its handler is started again and again, one at a time, as     *)
(* often as its policy says.  JobsWorkers implements it while its          *)
(* heartbeats are in time.                                                 *)
(***************************************************************************)
EXTENDS Integers, FiniteSets

CONSTANTS RunId, Task, TaskOf, TaskLimit, MaxAttempts, MaxConcurrentRuns

VARIABLES
    stage,      \* run -> absent, open, completed, dead-lettered or cancelled
    starts,     \* run -> how often its handler was started
    atWork      \* the runs whose handler is at work

handlers == <<stage, starts, atWork>>

In(s) == {r \in RunId : stage[r] = s}

\* Handlers of cancelled runs, which may ignore their abort, do not count.
WithinLimits(S) ==
    /\ Cardinality(S \ In("cancelled")) <= MaxConcurrentRuns
    /\ \A t \in Task :
         Cardinality({r \in S \ In("cancelled") : TaskOf[r] = t}) <= TaskLimit[t]

Becomes(S, s) == stage' = [r \in RunId |-> IF r \in S THEN s ELSE stage[r]]

--------------------------------------------------------------------------------
Init ==
    /\ stage = [r \in RunId |-> "absent"]
    /\ starts = [r \in RunId |-> 0]
    /\ atWork = {}

Create(r) ==
    /\ stage[r] = "absent" /\ Becomes({r}, "open")
    /\ UNCHANGED <<starts, atWork>>

\* A start that was on its way when its run was cancelled may still come.
Start(S) ==
    /\ S \subseteq In("open") \cup In("cancelled") /\ S \cap atWork = {}
    /\ \A r \in S : starts[r] < MaxAttempts[r]
    /\ WithinLimits(atWork \cup S)
    /\ starts' = [r \in RunId |-> IF r \in S THEN starts[r] + 1 ELSE starts[r]]
    /\ atWork' = atWork \cup S
    /\ UNCHANGED stage

\* A handler settles, or a process dies with its handlers.
Leave(S) ==
    /\ S \subseteq atWork
    /\ atWork' = atWork \ S
    /\ UNCHANGED <<stage, starts>>

\* A run is completed by a handler that has settled.
Complete(r) ==
    /\ r \in In("open") \ atWork /\ starts[r] > 0
    /\ Becomes({r}, "completed")
    /\ UNCHANGED <<starts, atWork>>

\* Runs are given up, but not while their handlers are at work.
Bury(S) ==
    /\ S \subseteq In("open") \ atWork
    /\ Becomes(S, "dead-lettered")
    /\ UNCHANGED <<starts, atWork>>

Cancel(r) ==
    /\ r \in In("open") /\ Becomes({r}, "cancelled")
    /\ UNCHANGED <<starts, atWork>>

Next ==
    \/ \E r \in RunId : Create(r) \/ Complete(r) \/ Cancel(r)
    \/ \E S \in SUBSET RunId : Start(S) \/ Leave(S) \/ Bury(S)

Spec == Init /\ [][Next]_handlers
================================================================================
