---------------------------- MODULE EventsDelivery -----------------------------
(***************************************************************************)
(* The delivery of one event: its outbox record, the inbox entries that    *)
(* keep a consumer from handling it twice, the managers that claim it, run *)
(* its consumers and hand it to its destination, and the administrator     *)
(* (packages/events/src/events/manager.ts and postgres-backend.ts).        *)
(*                                                                         *)
(* A manager's claim starts a run (processRecord); the run makes one call  *)
(* per consumer (runConsumer).  Both hold a lease of 30 s and renew it     *)
(* every 10 s; a renewal unanswered for 10 s aborts the run, which is told *)
(* through its signal but whose handlers and deliveries run on until they  *)
(* settle.  A tick is 10 s, and expiries are kept as the ticks left (ttl). *)
(***************************************************************************)
EXTENDS Integers, FiniteSets

CONSTANTS
    Managers,       \* worker processes, each with its owner id
    Mortal,         \* those that may be shut down or crash
    Consumers,      \* the consumers of the event's type
    Runs,           \* bound: runs in progress at the same time
    None,
    Lease,          \* leaseMs, in ticks
    ClaimLag,       \* ticks the answer to a claim may take
    Concurrency,    \* concurrency of a consumer
    MaxConcurrent,  \* dispatch slots of a manager
    MaxAttempts,
    Bound,          \* the event's definition is bound to a destination
    AdminAnytime,   \* FALSE: attempts are reset only while no run is in progress
    MaxFaults,      \* bound: crashes, lost, late or slow answers, hung deliveries
    MaxAdmin        \* bound: replays and retries by an administrator

ASSUME DeliveryConstants ==
    /\ Mortal \subseteq Managers
    /\ None \notin Managers /\ None \notin Runs
    /\ IsFiniteSet(Runs) /\ IsFiniteSet(Consumers)
    /\ Lease \in Nat \ {0} /\ ClaimLag \in Nat
    /\ Concurrency \in Nat \ {0} /\ MaxConcurrent \in Nat \ {0}
    /\ MaxAttempts \in Nat \ {0} /\ Bound \in BOOLEAN /\ AdminAnytime \in BOOLEAN
    /\ MaxFaults \in Nat /\ MaxAdmin \in Nat

VARIABLES
    record,     \* the outbox record: status, attempts, lease
    expired,    \* expiresAt has passed
    inbox,      \* the inbox entry of every consumer
    run,        \* the processRecord calls in progress
    call,       \* their runConsumer calls
    state,      \* the managers' lifecycle
    faults, admin

vars == <<record, expired, inbox, run, call, state, faults, admin>>

Idle == 0 - 1      \* no renewal is pending

Free == [mgr |-> None, attempts |-> 0, phase |-> "free", lag |-> 0,
         aborted |-> FALSE, bad |-> FALSE, want |-> Idle]
NoCall == [phase |-> "none", lag |-> 0, bad |-> FALSE, want |-> Idle]
NoEntry == [state |-> "none", owner |-> None, ttl |-> 0]

RunsOf(m) == {r \in Runs : run[r].mgr = m}

\* The fence of renew, complete, retry and deadLetter: the owner and the generation of
\* the lease, which is the number of attempts.  The expiry of the lease is not asked.
HoldsLease(r) == record.owner = run[r].mgr /\ record.attempts = run[r].attempts

\* Mutant: the generation starts anew with the next lease.
Restarted(status) == [record EXCEPT !.status = status, !.attempts = 0, !.owner = None, !.ttl = 0]

Unleased(status) == [record EXCEPT !.status = status, !.owner = None, !.ttl = 0]

Live(entry) == entry.state = "claimed" /\ entry.ttl > 0

--------------------------------------------------------------------------------
(* Publication and claim.                                                  *)

Publish ==
    /\ record.status = "absent"
    /\ record' = [record EXCEPT !.status = "queued"]
    /\ UNCHANGED <<expired, inbox, run, call, state, faults, admin>>

\* Mutant: the lease of the last claim is ignored.
DueWhenever == ~expired /\ record.status \in {"queued", "failed", "dispatching"}

Due ==
    /\ ~expired
    /\ \/ record.status \in {"queued", "failed"}
       \/ record.status = "dispatching" /\ record.ttl = 0

ClaimDue(m, r) ==
    /\ state[m] = "running" /\ Cardinality(RunsOf(m)) < MaxConcurrent
    /\ run[r].phase = "free" /\ Due
    /\ record' = [status |-> "dispatching", attempts |-> record.attempts + 1,
                  owner |-> m, ttl |-> Lease]
    /\ run' = [run EXCEPT ![r] = [Free EXCEPT !.mgr = m, !.phase = "claimed",
                                              !.attempts = record.attempts + 1]]
    /\ UNCHANGED <<expired, inbox, call, state, faults, admin>>

\* The answer reaches dispatchWork, whatever happened to the manager's state meanwhile.
ClaimAnswered(r) ==
    /\ run[r].phase = "claimed"
    /\ run' = [run EXCEPT ![r].phase = "consuming", ![r].lag = 0]
    /\ call' = [call EXCEPT ![r] = [c \in Consumers |-> [NoCall EXCEPT !.phase = "slot"]]]
    /\ UNCHANGED <<record, expired, inbox, state, faults, admin>>

Fault == faults < MaxFaults /\ faults' = faults + 1

ClaimLost(r) ==
    /\ Fault
    /\ run[r].phase = "claimed"
    /\ run' = [run EXCEPT ![r] = Free]
    /\ UNCHANGED <<record, expired, inbox, call, state, admin>>

--------------------------------------------------------------------------------
(* A consumer's call.                                                      *)

\* A call keeps its place until its last renewal has settled.
HoldsSlot(r, c) ==
    \/ call[r][c].phase \in {"inbox", "claimed", "handling", "completing", "releasing"}
    \/ call[r][c].want # Idle

CallTo(r, c, phase) == call' = [call EXCEPT ![r][c].phase = phase, ![r][c].lag = 0]

SlotFree(r, c) == Cardinality({q \in RunsOf(run[r].mgr) : HoldsSlot(q, c)}) < Concurrency

\* Any waiting call may be the next one: the order of the waiters is left open.
TakeSlot(r, c) ==
    /\ call[r][c].phase = "slot" /\ SlotFree(r, c)
    /\ CallTo(r, c, IF run[r].aborted THEN "failed" ELSE "inbox")
    /\ UNCHANGED <<record, expired, inbox, run, state, faults, admin>>

\* Mutant: a lease that has run out is still busy.
BusyForever(c) == inbox[c].state = "claimed"

Busy(c) == Live(inbox[c])

\* Mutant: a completed entry is claimed again.
NoDuplicate(c) == FALSE

Duplicate(c) == inbox[c].state = "complete"

InboxClaim(r, c) ==
    /\ call[r][c].phase = "inbox" /\ ~Busy(c)
    /\ IF Duplicate(c)
       THEN CallTo(r, c, "done") /\ UNCHANGED inbox
       ELSE /\ CallTo(r, c, "claimed")
            /\ inbox' = [inbox EXCEPT ![c] = [state |-> "claimed", owner |-> r, ttl |-> Lease]]
    /\ UNCHANGED <<record, expired, run, state, faults, admin>>

\* The wait between two claims of a busy entry ends with the abort.
BusyAborted(r, c) ==
    /\ call[r][c].phase = "inbox" /\ Busy(c) /\ run[r].aborted
    /\ CallTo(r, c, "failed")
    /\ UNCHANGED <<record, expired, inbox, run, state, faults, admin>>

InboxAnswered(r, c) ==
    /\ call[r][c].phase = "claimed"
    /\ CallTo(r, c, IF run[r].aborted THEN "releasing" ELSE "handling")
    /\ UNCHANGED <<record, expired, inbox, run, state, faults, admin>>

HandlerEnds(r, c) ==
    /\ call[r][c].phase = "handling"
    /\ \E phase \in {"completing", "releasing"} : CallTo(r, c, phase)
    /\ UNCHANGED <<record, expired, inbox, run, state, faults, admin>>

\* A completed entry's owner and expiry are not read any more.
Completed == [NoEntry EXCEPT !.state = "complete"]

\* The store's complete asks for the owner only.
InboxComplete(r, c) ==
    /\ call[r][c].phase = "completing" /\ call[r][c].want = Idle
    /\ IF ~call[r][c].bad /\ inbox[c].owner = r
       THEN CallTo(r, c, "done") /\ inbox' = [inbox EXCEPT ![c] = Completed]
       ELSE CallTo(r, c, "releasing") /\ UNCHANGED inbox
    /\ UNCHANGED <<record, expired, run, state, faults, admin>>

\* An error comes back, and the completion is stored or not.
InboxCompleteFails(r, c) ==
    /\ Fault
    /\ call[r][c].phase = "completing" /\ call[r][c].want = Idle /\ ~call[r][c].bad
    /\ inbox' \in {inbox, IF inbox[c].owner = r THEN [inbox EXCEPT ![c] = Completed] ELSE inbox}
    /\ CallTo(r, c, "releasing")
    /\ UNCHANGED <<record, expired, run, state, admin>>

InboxRelease(r, c) ==
    /\ call[r][c].phase = "releasing"
    /\ CallTo(r, c, "failed")
    /\ inbox' = IF inbox[c].owner = r THEN [inbox EXCEPT ![c] = NoEntry] ELSE inbox
    /\ UNCHANGED <<record, expired, run, state, faults, admin>>

--------------------------------------------------------------------------------
(* The run.                                                                *)

Settled(r) == \A c \in Consumers : call[r][c].phase \in {"done", "failed"} /\ call[r][c].want = Idle

\* Mutant: the results of the consumers are not looked at.
NeverFailed(r) == FALSE

Failed(r) == \E c \in Consumers : call[r][c].phase = "failed"

RunTo(r, phase) == run' = [run EXCEPT ![r].phase = phase]

MaySettle(r) ==
    run[r].phase = "consuming" /\ Settled(r) /\ (~Failed(r) => run[r].want = Idle)

ConsumersSettle(r) ==
    /\ MaySettle(r)
    /\ RunTo(r, IF Failed(r) \/ run[r].bad THEN "failing"
                ELSE IF Bound THEN "delivering" ELSE "completing")
    /\ UNCHANGED <<record, expired, inbox, call, state, faults, admin>>

\* operationTimeout: the run is aborted and waits on for the physical delivery.
DeliveryTimeout(r) ==
    /\ Fault
    /\ run[r].phase = "delivering" /\ ~run[r].aborted
    /\ run' = [run EXCEPT ![r].aborted = TRUE]
    /\ UNCHANGED <<record, expired, inbox, call, state, admin>>

DeliveryEnds(r) ==
    /\ run[r].phase = "delivering"
    /\ \E phase \in {"completing", "failing", "dying"} : RunTo(r, phase)
    /\ UNCHANGED <<record, expired, inbox, call, state, faults, admin>>

\* The run ends when its last renewal has settled.
End(r) ==
    /\ run' = [run EXCEPT ![r] = IF @.want = Idle THEN Free ELSE [@ EXCEPT !.phase = "ended"]]
    /\ call' = [call EXCEPT ![r] = [c \in Consumers |-> NoCall]]

Complete(r) ==
    /\ run[r].phase = "completing" /\ run[r].want = Idle
    /\ IF ~run[r].bad /\ HoldsLease(r)
       THEN End(r) /\ record' = Unleased("dispatched")
       ELSE RunTo(r, "failing") /\ UNCHANGED <<record, call>>
    /\ UNCHANGED <<expired, inbox, state, faults, admin>>

Outcome(r) ==
    IF run[r].phase = "dying" \/ run[r].attempts >= MaxAttempts THEN "dead" ELSE "failed"

\* retry or deadLetter.
Reject(r) ==
    /\ run[r].phase \in {"failing", "dying"}
    /\ record' = IF HoldsLease(r) THEN Unleased(Outcome(r)) ELSE record
    /\ End(r)
    /\ UNCHANGED <<expired, inbox, state, faults, admin>>

\* The outbox answers with an error, and the change is stored or not.
SettleFails(r) ==
    /\ Fault
    /\ \/ /\ run[r].phase = "completing" /\ run[r].want = Idle /\ ~run[r].bad
          /\ RunTo(r, "failing") /\ UNCHANGED call
          /\ record' \in {record, IF HoldsLease(r) THEN Unleased("dispatched") ELSE record}
       \/ /\ run[r].phase \in {"failing", "dying"}
          /\ End(r)
          /\ record' \in {record, IF HoldsLease(r) THEN Unleased(Outcome(r)) ELSE record}
    /\ UNCHANGED <<expired, inbox, state, admin>>

--------------------------------------------------------------------------------
(* Time and the renewals.                                                  *)

Left(t) == IF t > 0 THEN t - 1 ELSE t

Renewing(r) == run[r].phase \in {"consuming", "delivering", "completing", "failing", "dying"}
CallRenewing(r, c) == call[r][c].phase \in {"handling", "completing", "releasing"}

\* Mutant: nobody gives up on a renewal.
NeverLate(want) == FALSE

\* fenceLease: a renewal still pending at the next tick is late.
Late(want) == want = Lease

\* The renewal pending after a tick.
NextWant(want, due) == IF want # Idle THEN Left(want) ELSE IF due THEN Lease ELSE Idle

LateOnes == {r \in Runs : Late(run[r].want)}
LateCalls == {rc \in Runs \X Consumers : Late(call[rc[1]][rc[2]].want)}

\* Settlements that take a tick or more: each is a fault.
SlowOnes ==
    {r \in Runs : \/ run[r].phase \in {"failing", "dying"}
                  \/ run[r].phase = "completing" /\ run[r].want = Idle}
SlowCalls ==
    {rc \in Runs \X Consumers :
        LET slow == call[rc[1]][rc[2]]
        IN slow.phase = "releasing" \/ (slow.phase = "completing" /\ slow.want = Idle)}

\* Continuations inside a manager do not take a tick.
Prompt ==
    \A r \in Runs :
        /\ ~MaySettle(r)
        /\ \A c \in Consumers :
             /\ call[r][c].phase = "slot" => ~SlotFree(r, c)
             /\ call[r][c].phase = "inbox" => Busy(c) /\ ~run[r].aborted

Tick ==
    /\ Prompt
    /\ \A r \in Runs : run[r].phase = "claimed" => run[r].lag < ClaimLag
    /\ \A r \in Runs, c \in Consumers : call[r][c].phase = "claimed" => call[r][c].lag < ClaimLag
    /\ faults' = faults + Cardinality(LateOnes) + Cardinality(LateCalls)
                        + Cardinality(SlowOnes) + Cardinality(SlowCalls)
    /\ faults' <= MaxFaults
    /\ record' = [record EXCEPT !.ttl = Left(@)]
    /\ inbox' = [c \in Consumers |-> [inbox[c] EXCEPT !.ttl = Left(@)]]
    /\ run' = [r \in Runs |->
         [run[r] EXCEPT !.lag = IF run[r].phase = "claimed" THEN @ + 1 ELSE 0,
                        !.want = NextWant(@, Renewing(r) /\ ~run[r].aborted),
                        !.bad = @ \/ r \in LateOnes,
                        !.aborted = @ \/ r \in LateOnes
                                      \/ \E c \in Consumers : <<r, c>> \in LateCalls]]
    /\ call' = [r \in Runs |-> [c \in Consumers |->
         [call[r][c] EXCEPT !.lag = IF call[r][c].phase = "claimed" THEN @ + 1 ELSE 0,
                            !.want = NextWant(@, CallRenewing(r, c) /\ ~run[r].aborted),
                            !.bad = @ \/ <<r, c>> \in LateCalls]]]
    /\ UNCHANGED <<expired, state, admin>>

\* Mutant: a run that ended before its renewal keeps its slot.
KeptAfterEnd(r) == [run[r] EXCEPT !.want = Idle]

\* A lease that is lost aborts the run; a run that has ended waited for this.
AfterRenewal(r) ==
    IF run[r].phase = "ended" THEN Free
    ELSE [run[r] EXCEPT !.want = Idle, !.bad = @ \/ ~HoldsLease(r), !.aborted = @ \/ ~HoldsLease(r)]

RunRenewed(r) ==
    /\ run[r].want # Idle
    /\ record' = IF HoldsLease(r) THEN [record EXCEPT !.ttl = run[r].want] ELSE record
    /\ run' = [run EXCEPT ![r] = AfterRenewal(r)]
    /\ UNCHANGED <<expired, inbox, call, state, faults, admin>>

CallRenewed(r, c) ==
    /\ call[r][c].want # Idle
    /\ LET renewed == inbox[c].owner = r
       IN /\ inbox' = IF renewed THEN [inbox EXCEPT ![c].ttl = call[r][c].want] ELSE inbox
          /\ call' = [call EXCEPT ![r][c].want = Idle, ![r][c].bad = @ \/ ~renewed]
          /\ run' = [run EXCEPT ![r].aborted = @ \/ ~renewed]
    /\ UNCHANGED <<record, expired, state, faults, admin>>

--------------------------------------------------------------------------------
(* Managers and administrator.                                             *)

\* shutdown, also the second call after a first one has timed out: it aborts the runs
\* that exist now, not the one whose claim is still unanswered.
Shutdown(m) ==
    /\ state[m] \in {"running", "draining"} /\ m \in Mortal
    /\ state' = [state EXCEPT ![m] = "draining"]
    /\ run' = [r \in Runs |-> IF r \in RunsOf(m) /\ run[r].phase \notin {"claimed", "ended"}
                              THEN [run[r] EXCEPT !.aborted = TRUE] ELSE run[r]]
    /\ UNCHANGED <<record, expired, inbox, call, faults, admin>>

Close(m) ==
    /\ state[m] = "draining" /\ RunsOf(m) = {}
    /\ state' = [state EXCEPT ![m] = "closed"]
    /\ UNCHANGED <<record, expired, inbox, run, call, faults, admin>>

Crash(m) ==
    /\ Fault
    /\ state[m] \in {"running", "draining"} /\ m \in Mortal
    /\ state' = [state EXCEPT ![m] = "closed"]
    /\ run' = [r \in Runs |-> IF r \in RunsOf(m) THEN Free ELSE run[r]]
    /\ call' = [r \in Runs |-> IF r \in RunsOf(m) THEN [c \in Consumers |-> NoCall] ELSE call[r]]
    /\ UNCHANGED <<record, expired, inbox, admin>>

NoInbox == [c \in Consumers |-> NoEntry]

\* replay and retryDeadLetter do not look for runs in progress.
Again ==
    /\ admin < MaxAdmin /\ admin' = admin + 1
    /\ AdminAnytime \/ \A r \in Runs : run[r].phase = "free"

Replay ==
    /\ Again
    /\ record.status \in {"dead", "dispatched", "cancelled"}
    /\ record' = [Unleased("queued") EXCEPT !.attempts = 0]
    /\ inbox' = NoInbox
    /\ UNCHANGED <<expired, run, call, state, faults>>

RetryDeadLetter ==
    /\ Again
    /\ record.status = "dead"
    /\ record' = [record EXCEPT !.status = "queued", !.attempts = 0]
    /\ UNCHANGED <<expired, inbox, run, call, state, faults>>

CancelScheduled ==
    /\ record.status \in {"queued", "failed"}
    /\ record' = [record EXCEPT !.status = "cancelled"]
    /\ UNCHANGED <<expired, inbox, run, call, state, faults, admin>>

Expire ==
    /\ ~expired /\ record.status # "absent"
    /\ expired' = TRUE
    /\ UNCHANGED <<record, inbox, run, call, state, faults, admin>>

PurgeExpired ==
    /\ expired /\ record.status # "purged"
    /\ record.status = "dispatching" => record.ttl = 0
    /\ record' = Unleased("purged") /\ inbox' = NoInbox
    /\ UNCHANGED <<expired, run, call, state, faults, admin>>

--------------------------------------------------------------------------------
Init ==
    /\ record = [status |-> "absent", attempts |-> 0, owner |-> None, ttl |-> 0]
    /\ expired = FALSE
    /\ inbox = NoInbox
    /\ run = [r \in Runs |-> Free]
    /\ call = [r \in Runs |-> [c \in Consumers |-> NoCall]]
    /\ state = [m \in Managers |-> "running"]
    /\ faults = 0 /\ admin = 0

\* The steps of a run and of a call that nobody else is waited for.
RunStep(r) == ClaimAnswered(r) \/ ConsumersSettle(r) \/ Complete(r) \/ Reject(r)

CallStep(r, c) ==
    \/ TakeSlot(r, c) \/ InboxClaim(r, c) \/ BusyAborted(r, c) \/ InboxAnswered(r, c)
    \/ InboxComplete(r, c) \/ InboxRelease(r, c)

\* Which free run record is taken makes no difference.
Claim(m) ==
    LET free == {r \in Runs : run[r].phase = "free"}
    IN free # {} /\ ClaimDue(m, CHOOSE r \in free : TRUE)

Failure ==
    \/ \E r \in Runs : ClaimLost(r) \/ DeliveryTimeout(r) \/ SettleFails(r)
    \/ \E r \in Runs, c \in Consumers : InboxCompleteFails(r, c)
    \/ \E m \in Managers : Crash(m)

Administration == Replay \/ RetryDeadLetter \/ CancelScheduled

Next ==
    \/ Publish \/ Tick \/ Expire \/ PurgeExpired
    \/ \E m \in Managers : Claim(m) \/ Shutdown(m) \/ Close(m)
    \/ \E r \in Runs : RunStep(r) \/ DeliveryEnds(r) \/ RunRenewed(r)
    \/ \E r \in Runs, c \in Consumers : CallStep(r, c) \/ HandlerEnds(r, c) \/ CallRenewed(r, c)
    \/ Failure \/ Administration

Spec == Init /\ [][Next]_vars

\* Running managers poll, calls are answered, time passes, and handlers and deliveries
\* end; nobody need publish, fail, expire or administer anything.
Fairness ==
    /\ WF_vars(Tick)
    /\ \A m \in Managers : WF_vars(Claim(m)) /\ WF_vars(Close(m))
    /\ \A r \in Runs : WF_vars(RunStep(r)) /\ WF_vars(DeliveryEnds(r)) /\ WF_vars(RunRenewed(r))
    /\ \A r \in Runs, c \in Consumers :
         WF_vars(CallStep(r, c)) /\ WF_vars(HandlerEnds(r, c)) /\ WF_vars(CallRenewed(r, c))

FairSpec == Spec /\ Fairness

--------------------------------------------------------------------------------
(* Properties.                                                             *)

\* Every variable stays in its type.
TypeOK ==
    /\ record \in [status : {"absent", "queued", "dispatching", "dispatched", "failed",
                             "dead", "cancelled", "purged"},
                   attempts : Nat, owner : Managers \cup {None}, ttl : 0 .. Lease]
    /\ expired \in BOOLEAN
    /\ inbox \in [Consumers -> [state : {"none", "claimed", "complete"},
                                owner : Runs \cup {None}, ttl : 0 .. Lease]]
    /\ run \in [Runs -> [mgr : Managers \cup {None}, attempts : Nat,
                         phase : {"free", "claimed", "consuming", "delivering", "completing",
                                  "failing", "dying", "ended"},
                         lag : 0 .. ClaimLag, aborted : BOOLEAN, bad : BOOLEAN,
                         want : Idle .. Lease]]
    /\ call \in [Runs -> [Consumers ->
                  [phase : {"none", "slot", "inbox", "claimed", "handling", "completing",
                            "releasing", "done", "failed"},
                   lag : 0 .. ClaimLag, bad : BOOLEAN, want : Idle .. Lease]]]
    /\ state \in [Managers -> {"running", "draining", "closed"}]
    /\ faults \in 0 .. MaxFaults /\ admin \in 0 .. MaxAdmin

Handling(r, c) == call[r][c].phase = "handling"

\* Two handlers of one consumer overlap only if all but one of them have been told to
\* abort: with claims answered within ClaimLag, a handler whose renewals hang is aborted
\* before its inbox lease can be claimed by another.
OneLiveHandler ==
    \A c \in Consumers, r, q \in Runs :
        r # q /\ Handling(r, c) /\ Handling(q, c) => run[r].aborted \/ run[q].aborted

\* And so do two deliveries to the destination.
OneLiveDelivery ==
    \A r, q \in Runs :
        r # q /\ run[r].phase = "delivering" /\ run[q].phase = "delivering"
            => run[r].aborted \/ run[q].aborted

\* What a consumer has completed it does not handle again, whatever becomes of the run
\* that delivered it; only a replay or the purge of the event forgets the completion.
HandledOnce ==
    [][\A c \in Consumers :
          inbox[c].state = "complete" /\ record'.status # "purged" /\ admin' = admin =>
              /\ inbox'[c].state = "complete"
              /\ \A r \in Runs : Handling(r, c)' => Handling(r, c)]_vars

\* Owner and generation tell the runs in progress apart.
UniqueFence ==
    \A r, q \in Runs :
        r # q /\ run[r].mgr # None =>
            ~(run[r].mgr = run[q].mgr /\ run[r].attempts = run[q].attempts)

\* An event is dispatched only when every consumer has completed it since it was last
\* replayed.
DispatchedAfterConsumers ==
    [][record.status # "dispatched" /\ record'.status = "dispatched"
        => \A c \in Consumers : inbox[c].state = "complete"]_vars

\* An event is settled in the end, whatever fails on the way, as long as some worker
\* runs: it is dispatched, dead, cancelled or expired.
EventSettles ==
    record.status \in {"queued", "failed", "dispatching"} ~>
        (expired \/ record.status \in {"dispatched", "dead", "cancelled"})

\* A shutdown that is not cut short drains its manager.
DrainingCloses == \A m \in Managers : state[m] = "draining" ~> state[m] = "closed"


\* The stages of the contract.
Stage == IF record.status \in {"queued", "failed", "dispatching"} THEN "open" ELSE record.status

CompletedBy == {c \in Consumers : inbox[c].state = "complete"}

HandStage(phase) ==
    CASE phase = "handling" -> "handling" [] phase = "completing" -> "handled" [] OTHER -> "idle"

WorkStage(phase) ==
    CASE phase = "delivering" -> "delivering" [] phase = "completing" -> "delivered"
      [] OTHER -> "idle"

Hand == [r \in Runs |-> [c \in Consumers |-> HandStage(call[r][c].phase)]]
Work == [r \in Runs |-> WorkStage(run[r].phase)]
Told == {r \in Runs : run[r].aborted /\ run[r].phase \notin {"free", "ended"}}

Contract == INSTANCE EventContract WITH
    Deliveries <- Runs, stage <- Stage, completed <- CompletedBy, hand <- Hand, work <- Work,
    told <- Told

\* Whatever leases run out, claims are late and calls are lost, an application sees: handlers
\* of a consumer of which at most one was not told to stop, and none after the consumer has
\* completed; the destination only after all consumers; and an event that is dispatched only
\* by a delivery that has done all of this.
ImplementsContract == Contract!Spec
================================================================================
