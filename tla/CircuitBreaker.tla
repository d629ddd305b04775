----------------------------- MODULE CircuitBreaker -----------------------------
(***************************************************************************)
(* What a circuit breaker promises the calls it admits, in sets of calls,  *)
(* without generations, counters, permits, queues or clocks: the contract  *)
(* of admission, cancelBreakerAdmission and recordBreaker of packages/     *)
(* resilience/src/resilience/core/managed-runtime.ts.  Its life is a       *)
(* sequence of periods, each closed, open or half-open; a call counts only *)
(* in the period that admitted it, and once.  ResilienceRuntime implements *)
(* it.                                                                     *)
(***************************************************************************)
EXTENDS Integers, FiniteSets

CONSTANTS Op, FailureCount, HalfOpenMax

VARIABLES
    status,     \* closed, open, half-open, or retired: nobody is admitted any more
    out,        \* the calls admitted in this period that are on their way, untold
    lost,       \* half-open: slots of calls that ended without telling
    earned,     \* half-open: the calls that have succeeded
    failures    \* closed: failures that are remembered

circuit == <<status, out, lost, earned, failures>>

\* A period of its own.
Begins(s, S) ==
    status' = s /\ out' = S /\ lost' = {} /\ earned' = {} /\ failures' = 0

--------------------------------------------------------------------------------
Init == status = "closed" /\ out = {} /\ lost = {} /\ earned = {} /\ failures = 0

\* A half-open period has HalfOpenMax slots; a call that is admitted anew keeps its own.
Admit(o) ==
    /\ \/ status = "closed"
       \/ status = "half-open" /\ Cardinality((out \cup lost) \ {o}) < HalfOpenMax
    /\ out' = out \cup {o}
    /\ UNCHANGED <<status, lost, earned, failures>>

\* The open period ends with a call that is admitted, or is refused afterwards.
Probe(S) ==
    /\ status = "open" /\ Cardinality(S) <= 1
    /\ Begins("half-open", S)

\* A call that was not sent gives its slot back.
Withdraw(o) ==
    /\ status # "retired" /\ o \in out
    /\ out' = out \ {o}
    /\ UNCHANGED <<status, lost, earned, failures>>

\* A call ends without telling: a half-open period never gets its slot back.
Lose(o) ==
    /\ status # "retired" /\ o \in out
    /\ out' = out \ {o}
    /\ lost' = IF status = "half-open" THEN lost \cup {o} ELSE lost
    /\ UNCHANGED <<status, earned, failures>>

\* A closed period forgets failures as time passes, and may open once it remembers
\* FailureCount of them; n is 1 for a failure.
Hear(o, n) ==
    /\ status = "closed" /\ o \in out
    /\ \E recent \in 0 .. failures :
         \/ /\ failures' = (IF recent + n < FailureCount THEN recent + n ELSE FailureCount)
            /\ out' = out \ {o}
            /\ UNCHANGED <<status, lost, earned>>
         \/ recent + n >= FailureCount /\ Begins("open", {})

\* A half-open period closes with its HalfOpenMax-th success, and opens with a failure.
Succeed(o) ==
    /\ status = "half-open" /\ o \in out
    /\ IF Cardinality(earned \cup {o}) >= HalfOpenMax
       THEN Begins("closed", {})
       ELSE /\ out' = out \ {o} /\ earned' = earned \cup {o}
            /\ UNCHANGED <<status, lost, failures>>

Fail(o) == status = "half-open" /\ o \in out /\ Begins("open", {})

\* The shutdown: who was admitted leaves, nobody enters.
Retire ==
    /\ status # "retired"
    /\ status' = "retired" /\ lost' = {} /\ earned' = {} /\ failures' = 0
    /\ UNCHANGED out

Drain ==
    /\ status = "retired"
    /\ \E S \in SUBSET out : out' = S
    /\ UNCHANGED <<status, lost, earned, failures>>

Next ==
    \/ \E o \in Op : Admit(o) \/ Withdraw(o) \/ Lose(o) \/ Succeed(o) \/ Fail(o)
    \/ \E o \in Op, n \in {0, 1} : Hear(o, n)
    \/ \E S \in SUBSET Op : Probe(S)
    \/ Retire \/ Drain

Spec == Init /\ [][Next]_circuit
================================================================================
