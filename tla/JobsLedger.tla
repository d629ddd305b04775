------------------------------- MODULE JobsLedger -------------------------------
(***************************************************************************)
(* What a jobs backend promises its clients of the life of a run, without  *)
(* clocks, leases, queues, tasks, dead letters or idempotency: the types   *)
(* of packages/jobs/src/jobs/types/backend.ts seen from outside.  A run is *)
(* created once, is handed to one holder at a time, at most MaxAttempts    *)
(* times, and ends once: settled by a holder, or cancelled.  JobsStore     *)
(* implements it.                                                          *)
(***************************************************************************)
EXTENDS Integers, FiniteSets

CONSTANTS RunId, MaxAttempts, MaxConcurrentRuns

VARIABLES
    stage,      \* run -> where it is in its life
    starts,     \* run -> the attempts charged to it
    holder      \* run -> its latest holder; holders are numbered

ledger == <<stage, starts, holder>>

In(s) == {r \in RunId : stage[r] = s}

\* The runs of S move to the stage s.
Moved(S, s) == stage' = [r \in RunId |-> IF r \in S THEN s ELSE stage[r]]

Charged(S, n) == starts' = [r \in RunId |-> IF r \in S THEN starts[r] + n ELSE starts[r]]

--------------------------------------------------------------------------------
Init ==
    /\ stage = [r \in RunId |-> "none"]
    /\ starts = [r \in RunId |-> 0]
    /\ holder = [r \in RunId |-> 0]

Create(r) ==
    /\ stage[r] = "none"
    /\ Moved({r}, "waiting")
    /\ starts' = [starts EXCEPT ![r] = 0]
    /\ UNCHANGED holder

\* Waiting runs get a new holder each, within the limit and their policies.
Hand(S) ==
    /\ Cardinality(In("held") \cup S) <= MaxConcurrentRuns
    /\ \A r \in S : starts[r] < MaxAttempts[r]
    /\ Moved(S, "held") /\ Charged(S, 1)
    /\ holder' = [r \in RunId |-> IF r \in S THEN holder[r] + 1 ELSE holder[r]]

\* A holder that has not begun gives the run back.
GiveBack(r) ==
    /\ stage[r] = "held"
    /\ Moved({r}, "waiting") /\ Charged({r}, -1)
    /\ UNCHANGED holder

\* Attempts end: the runs of E are settled, the others, with attempts left, wait for the
\* next.
Return(S, E) ==
    /\ \A r \in S \ E : starts[r] < MaxAttempts[r]
    /\ stage' = [r \in RunId |-> IF r \in E THEN "settled"
                                 ELSE IF r \in S THEN "waiting" ELSE stage[r]]
    /\ UNCHANGED <<starts, holder>>

Cancel(r) ==
    /\ stage[r] \in {"waiting", "held"}
    /\ Moved({r}, "cancelled")
    /\ UNCHANGED <<starts, holder>>

\* Runs that have ended are forgotten.
Erase(S) ==
    /\ Moved(S, "erased")
    /\ starts' = [r \in RunId |-> IF r \in S THEN 0 ELSE starts[r]]
    /\ UNCHANGED holder

\* A fresh run takes the place of a settled one.
Replace(old, new) ==
    /\ stage[old] = "settled" /\ stage[new] = "none"
    /\ stage' = [stage EXCEPT ![old] = "erased", ![new] = "waiting"]
    /\ starts' = [starts EXCEPT ![old] = 0, ![new] = 0]
    /\ UNCHANGED holder

Next ==
    \/ \E r \in RunId : Create(r) \/ GiveBack(r) \/ Cancel(r)
    \/ \E S \in SUBSET In("waiting") : Hand(S)
    \/ \E S \in SUBSET In("held") : \E E \in SUBSET S : Return(S, E)
    \/ \E S \in SUBSET (In("settled") \cup In("cancelled")) : Erase(S)
    \/ \E old, new \in RunId : Replace(old, new)

Spec == Init /\ [][Next]_ledger
================================================================================
