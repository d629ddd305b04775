--------------------------- MODULE JobsLeaseRenewal ----------------------------
(***************************************************************************)
(* How one execution of a claimed run keeps its lease: the heartbeat, the  *)
(* renewal requests it sends, the point read that recovers a renewal whose *)
(* answer is bad, the guard that gives up waiting for an answer, and the   *)
(* commit that waits for the newest guard (execute in                      *)
(* packages/jobs/src/jobs/core/handler-execution.ts).                      *)
(*                                                                         *)
(* Three parties act on a request: the store that applies it, the          *)
(* continuation of its answer, and the guard that stops waiting after one  *)
(* interval.  The last two decide by a point read of the run which itself  *)
(* times out after one interval.                                           *)
(*                                                                         *)
(* Times are kept as what is left: lease is the time to the stored         *)
(* leaseExpiresAt, want the time to the expiry a request asks for.  Timers *)
(* fire on time: Tick waits for whatever is due.                           *)
(***************************************************************************)
EXTENDS Integers, FiniteSets

CONSTANTS
    Interval,       \* renewalIntervalMs, half of leaseMs
    Latency,        \* a dependable store applies a request within this time
    ReadLatency,    \* and answers a point read within this time
    Dependable,     \* the store applies every request and answers every read
    RecoveryAfterMs,\* recoveryAfterMs of stale recovery
    MaxRequests     \* bound: renewal requests of the execution

ASSUME RenewalConstants ==
    /\ Interval \in Nat \ {0}
    /\ Latency \in Nat /\ ReadLatency \in 0 .. Interval
    /\ Dependable \in BOOLEAN /\ RecoveryAfterMs \in Nat
    /\ MaxRequests \in Nat \ {0}

LeaseMs == 2 * Interval
Request == 1 .. MaxRequests

VARIABLES
    held,       \* the store still has the run running under this lease token
    lease,      \* time to the stored leaseExpiresAt
    req,        \* the renewal requests
    sent,       \* how many of them were sent
    current,    \* the request of the newest renewalGeneration, 0 if it is fenced
    renewal,    \* the request "renewal" belongs to, 0 if undefined
    beat,       \* time to the next heartbeat
    active,     \* leaseActive
    confirmed,  \* the requests whose success the execution accepted
    revokedBy,  \* the request whose failure ended leaseActive, 0 if none
    phase       \* the execution: handling, settled, committed or lost

vars == <<held, lease, req, sent, current, renewal, beat, active, confirmed,
          revokedBy, phase>>

\* No comparison tells apart times below this one.
Floor == 0 - 2 * Interval

Waiting == {"awaited", "readAfterFalse", "readAfterError"}

RequestRecord ==
    [call : {"none", "sent", "applied", "refused"},
     answer : {"none", "done"} \cup Waiting,
     guard : {"none", "armed", "reading", "done"},
     want : Floor .. LeaseMs,
     answerLeft : 0 .. Interval, guardLeft : 0 .. Interval]

Unsent == [call |-> "none", answer |-> "none", guard |-> "none", want |-> 0,
           answerLeft |-> 0, guardLeft |-> 0]

Fresh == [call |-> "sent", answer |-> "awaited", guard |-> "armed", want |-> LeaseMs,
          answerLeft |-> 0, guardLeft |-> 0]

Age(n) == LeaseMs - req[n].want

\* What a continuation checks before it acts on request n.
IsCurrent(n) == current = n /\ active

\* Mutant: only a later expiry than the one asked for will do.
RecoveredLater(n) == held /\ lease > req[n].want

\* The point read shows that request n was committed.
Recovered(n) == held /\ lease >= req[n].want

--------------------------------------------------------------------------------
(* The heartbeat.                                                          *)

\* Mutant: a fenced renewal stays pending.
ClearsNothing(n) == renewal

\* renewal = undefined, by whoever settles request n or fences it.
Cleared(n) == IF renewal = n THEN 0 ELSE renewal

MayRenew(pending) == phase = "handling" /\ active /\ pending = 0

\* renewLease: requests is the request table so far.  At the bound nothing is sent.
RenewLease(requests, pending, generation) ==
    IF MayRenew(pending) /\ sent < MaxRequests
    THEN /\ req' = [requests EXCEPT ![sent + 1] = Fresh]
         /\ sent' = sent + 1 /\ current' = sent + 1 /\ renewal' = sent + 1
    ELSE /\ req' = requests
         /\ renewal' = pending /\ current' = generation
         /\ UNCHANGED sent

Heartbeat ==
    /\ phase = "handling" /\ beat = 0
    /\ beat' = Interval
    /\ RenewLease(req, renewal, current)
    /\ UNCHANGED <<held, lease, active, confirmed, revokedBy, phase>>

--------------------------------------------------------------------------------
(* The store.                                                              *)

Extended(n) == IF req[n].want > lease THEN req[n].want ELSE lease

\* The store compares the lease with the clock the request was sent at.
Apply(n) ==
    /\ req[n].call = "sent"
    /\ LET granted == held /\ lease + Age(n) > 0
       IN /\ req' = [req EXCEPT ![n].call = IF granted THEN "applied" ELSE "refused"]
          /\ lease' = IF granted THEN Extended(n) ELSE lease
    /\ UNCHANGED <<held, sent, current, renewal, beat, active, confirmed, revokedBy, phase>>

\* Another client cancels the run, or stale recovery takes it.
TakeAway ==
    /\ held /\ phase \in {"handling", "settled"}
    /\ held' = FALSE
    /\ UNCHANGED <<lease, req, sent, current, renewal, beat, active, confirmed,
                   revokedBy, phase>>

--------------------------------------------------------------------------------
(* The answer to a request.                                                *)

\* The request settles: a guard still armed has nothing left to do.
Done(n) ==
    [req EXCEPT ![n].answer = "done",
                ![n].guard = IF @ = "armed" THEN "done" ELSE @]

Settle(n) == req' = Done(n) /\ renewal' = Cleared(n)

Revoke(n) ==
    IF active THEN active' = FALSE /\ revokedBy' = n
    ELSE UNCHANGED <<active, revokedBy>>

Accept(n) == confirmed' = IF active THEN confirmed \cup {n} ELSE confirmed

\* Mutant: nobody stops waiting.
NeverDue(n) == FALSE

GuardDue(n) == req[n].guard = "armed" /\ Age(n) >= Interval

\* The event loop runs the timers that are due before it reads answers.
TimersRan == (phase = "handling" => beat > 0) /\ \A n \in Request : ~GuardDue(n)

AnsweredTrue(n) ==
    /\ TimersRan
    /\ req[n].answer = "awaited" /\ req[n].call = "applied"
    /\ Settle(n)
    /\ confirmed' = IF IsCurrent(n) THEN confirmed \cup {n} ELSE confirmed
    /\ UNCHANGED <<held, lease, sent, current, beat, active, revokedBy, phase>>

\* A false answer, or an error: the request may have been applied all the same,
\* and an error may come while it is still on its way.
AnsweredBadly(n, then) ==
    /\ TimersRan
    /\ req[n].answer = "awaited"
    /\ req[n].call = "sent" => then = "readAfterError" /\ ~Dependable
    /\ IF IsCurrent(n)
       THEN /\ req' = [req EXCEPT ![n].answer = then, ![n].answerLeft = Interval]
            /\ UNCHANGED renewal
       ELSE Settle(n)
    /\ UNCHANGED <<held, lease, sent, current, beat, active, confirmed, revokedBy, phase>>

\* A read fails, or it runs into its timeout.
ReadFails == ~Dependable

\* recoverRenewal in the continuation.  After an error it revokes the lease
\* without asking again whether the request is still the current one.
AnswerRecovers(n, seen) ==
    /\ TimersRan
    /\ req[n].answer \in {"readAfterFalse", "readAfterError"}
    /\ seen = Recovered(n) \/ (ReadFails /\ ~seen)
    /\ Settle(n)
    /\ IF seen THEN Accept(n) /\ UNCHANGED <<active, revokedBy>>
       ELSE /\ UNCHANGED confirmed
            /\ IF req[n].answer = "readAfterError" \/ IsCurrent(n) THEN Revoke(n)
               ELSE UNCHANGED <<active, revokedBy>>
    /\ UNCHANGED <<held, lease, sent, current, beat, phase>>

--------------------------------------------------------------------------------
(* The guard of a request.                                                 *)

GuardFires(n) ==
    /\ GuardDue(n)
    /\ req' = [req EXCEPT ![n].guard = IF IsCurrent(n) THEN "reading" ELSE "done",
                          ![n].guardLeft = IF IsCurrent(n) THEN Interval ELSE 0]
    /\ UNCHANGED <<held, lease, sent, current, renewal, beat, active, confirmed,
                   revokedBy, phase>>

\* The write is there although its answer is not: fence the answer, renew again.
GuardRecovers(n) ==
    /\ req[n].guard = "reading" /\ Recovered(n)
    /\ Accept(n)
    /\ LET requests == [req EXCEPT ![n].guard = "done"]
       IN IF current = n THEN RenewLease(requests, Cleared(n), 0)
          ELSE req' = requests /\ UNCHANGED <<sent, current, renewal>>
    /\ UNCHANGED <<held, lease, beat, active, revokedBy, phase>>

GuardRevokes(n) ==
    /\ req[n].guard = "reading"
    /\ ~Recovered(n) \/ ReadFails
    /\ req' = [req EXCEPT ![n].guard = "done"]
    /\ Revoke(n)
    /\ UNCHANGED <<held, lease, sent, current, renewal, beat, confirmed, phase>>

--------------------------------------------------------------------------------
(* The handler settles; the newest guard is awaited before the commit.     *)

HandlerSettles ==
    /\ phase = "handling"
    /\ phase' = "settled"
    /\ UNCHANGED <<held, lease, req, sent, current, renewal, beat, active, confirmed,
                   revokedBy>>

\* Mutant: the answer itself is awaited.
AnswersDone == sent > 0 => req[sent].answer = "done"

GuardAwaited == sent > 0 => req[sent].guard = "done"

Finish ==
    /\ phase = "settled" /\ GuardAwaited
    /\ phase' = IF active THEN "committed" ELSE "lost"
    /\ UNCHANGED <<held, lease, req, sent, current, renewal, beat, active, confirmed,
                   revokedBy>>

--------------------------------------------------------------------------------
Sooner(x) == IF x > Floor THEN x - 1 ELSE x
Left(x) == IF x > 0 THEN x - 1 ELSE x

Reading(n) == req[n].answer \in {"readAfterFalse", "readAfterError"}

\* A read takes no longer than its timeout, or than the dependable store needs.
ReadTime == IF Dependable THEN Interval - ReadLatency ELSE 0

Punctual ==
    /\ TimersRan
    /\ \A n \in Request :
         /\ Reading(n) => req[n].answerLeft > ReadTime
         /\ req[n].guard = "reading" => req[n].guardLeft > ReadTime
         /\ (Dependable /\ req[n].call = "sent") => Age(n) < Latency

Tick ==
    /\ Punctual
    /\ lease' = Sooner(lease)
    /\ beat' = Left(beat)
    /\ req' = [n \in Request |->
                 IF req[n].call = "none" THEN req[n]
                 ELSE [req[n] EXCEPT !.want = Sooner(@),
                                     !.answerLeft = IF Reading(n) THEN Left(@) ELSE 0,
                                     !.guardLeft =
                                        IF req[n].guard = "reading" THEN Left(@) ELSE 0]]
    /\ UNCHANGED <<held, sent, current, renewal, active, confirmed, revokedBy, phase>>

Init ==
    /\ held = TRUE /\ lease = LeaseMs
    /\ req = [n \in Request |-> Unsent]
    /\ sent = 0 /\ current = 0 /\ renewal = 0
    /\ beat = Interval
    /\ active = TRUE /\ confirmed = {} /\ revokedBy = 0
    /\ phase = "handling"

Answer(n) ==
    \/ AnsweredTrue(n)
    \/ \E then \in {"readAfterFalse", "readAfterError"} : AnsweredBadly(n, then)

Recover(n) ==
    \/ \E seen \in BOOLEAN : AnswerRecovers(n, seen)
    \/ GuardFires(n) \/ GuardRecovers(n) \/ GuardRevokes(n)

Next ==
    \/ Heartbeat \/ HandlerSettles \/ Finish \/ TakeAway \/ Tick
    \/ \E n \in Request : Apply(n) \/ Answer(n) \/ Recover(n)

Spec == Init /\ [][Next]_vars

\* Timers fire, time passes and reads end; answers need not come and the handler
\* need not settle.
Fairness ==
    /\ WF_vars(Heartbeat) /\ WF_vars(Finish)
    /\ WF_vars(Tick)
    /\ \A n \in Request :
         /\ WF_vars(Recover(n))
         /\ WF_vars(Dependable /\ Apply(n))

FairSpec == Spec /\ Fairness

--------------------------------------------------------------------------------
(* Properties.                                                             *)

\* Every variable stays in its type.
TypeOK ==
    /\ held \in BOOLEAN /\ lease \in Floor .. LeaseMs
    /\ req \in [Request -> RequestRecord]
    /\ sent \in 0 .. MaxRequests /\ current \in 0 .. sent /\ renewal \in 0 .. sent
    /\ beat \in 0 .. Interval
    /\ active \in BOOLEAN
    /\ confirmed \subseteq Request /\ revokedBy \in 0 .. sent
    /\ phase \in {"handling", "settled", "committed", "lost"}

\* A long handler keeps its run: with a dependable store whose latencies fit in half
\* a lease (Latency + ReadLatency < Interval) stale recovery never finds its lease,
\* even when every answer to a renewal is lost or late.  The lease itself may run
\* out for the time a renewal needs to be applied.
LeaseNeverStale ==
    (held /\ phase = "handling" /\ sent < MaxRequests) => lease + RecoveryAfterMs > 0

\* Such a store never makes the execution give up a lease it still holds: lost
\* answers to committed renewals are recovered.
NoFalseLoss == held => active

\* "A late false/error from the old request must not revoke a newer successful renewal"
\* (comment in handler-execution.ts): while the run is held, the request whose failure
\* made the execution give its lease up is none that a renewal it has confirmed came after.
NewerRenewalStands ==
    (held /\ revokedBy # 0) => \A n \in confirmed : n <= revokedBy

\* A settled handler always gets to its commit (or learns that the lease is lost):
\* no answer that never comes can hold it up.
SettledEnds == phase = "settled" ~> phase \in {"committed", "lost"}

\* The execution of a run that another client cancelled finds out.
LossIsNoticed ==
    (~held /\ phase = "handling" /\ sent < MaxRequests) ~> (~active \/ phase # "handling")
================================================================================
