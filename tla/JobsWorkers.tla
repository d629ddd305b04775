------------------------------ MODULE JobsWorkers ------------------------------
(***************************************************************************)
(* The workers of the jobs scheduler on top of the store of JobsStore: the *)
(* dispatch that claims due runs, checks the claim and starts handlers,    *)
(* the executions with their heartbeats, timeouts and commits, local       *)
(* cancellation with its fence, crashes and shutdown.  From                *)
(* packages/jobs/src/jobs/core: handler-execution.ts, handler-queue-api.ts *)
(* (cancelRun) and handler-context.ts (rememberCancellation).              *)
(*                                                                         *)
(* An action is the code between two awaits; the store's operations are    *)
(* atomic.  An execution is named by its run and the lease token of its    *)
(* claim.  A renewal is one step here (JobsLeaseRenewal has its protocol): *)
(* it succeeds, or the lease counts as lost.  A commit is one step too: a  *)
(* lost answer changes only what is reported.  Handlers may ignore abort.  *)
(***************************************************************************)
EXTENDS JobsStore

CONSTANTS
    Worker,
    Stoppable,      \* the workers that may be shut down
    Canceller,      \* the workers whose cancelRun is called
    FenceLimit,     \* the size of recentlyCancelledRunIds that overflows
    MaxTries,       \* the attempts of a fence verification and of a cancellation
    Interval,       \* renewalIntervalMs
    TimedTask,      \* the tasks with a timeoutMs
    Punctual,       \* heartbeats and the steps after a claim's answer are in time
    ClaimDelay,     \* bound: how long the answer of a claim may take
    MaxFaults       \* bound: crashes, lost answers, failed calls

ASSUME WorkerConstants ==
    /\ Stoppable \subseteq Worker /\ Canceller \subseteq Worker
    /\ FenceLimit \in Nat /\ MaxTries \in Nat \ {0} /\ Interval \in Nat \ {0}
    /\ TimedTask \subseteq Task
    /\ Punctual \in BOOLEAN /\ ClaimDelay \in Nat /\ MaxFaults \in Nat

VARIABLES
    open,           \* worker -> started and neither draining nor destroyed
    dispatch,       \* worker -> its dispatch in progress
    exec,           \* run -> token -> the execution of that claim
    controllers,    \* worker -> run -> whose controller activeControllers has
    fence,          \* worker -> recentlyCancelledRunIds
    overflow,       \* worker -> cancellationFenceOverflow
    timedOutIds,    \* worker -> timedOutRunIds
    timedOutOps,    \* worker -> run -> the execution in timedOutTaskOperations
    cancelling,     \* worker -> its cancelRun call in progress
    acked,          \* worker -> runs whose cancellation it acknowledged (history)
    faults

timeoutVars == <<timedOutIds, timedOutOps>>
localVars == <<open, dispatch, exec, controllers, fence, overflow, timeoutVars, cancelling>>
vars == <<storeVars, localVars, acked, faults>>

--------------------------------------------------------------------------------
ClaimRef == [run : RunId, token : Token]

Dispatch ==
    [at : {"idle", "claimed", "releasing", "ready", "verifying"},
     batch : SUBSET ClaimRef,   \* what is claimed and not dropped yet
     todo : SUBSET ClaimRef,    \* still to be released, or to be read
     keep : SUBSET ClaimRef,    \* read and found to be ours
     then : {"idle", "ready"},  \* where releasing leads
     age : Nat,                 \* time since the claim was sent
     tries : 0 .. MaxTries,     \* verification windows opened
     moved : BOOLEAN]           \* a cancellation came within this window

Idle == [at |-> "idle", batch |-> {}, todo |-> {}, keep |-> {}, then |-> "idle",
         age |-> 0, tries |-> 0, moved |-> FALSE]

Execution ==
    [worker : Worker, at : {"handling", "settled"},
     timedOut : BOOLEAN, aborted : BOOLEAN, leaseActive : BOOLEAN, beaten : BOOLEAN]

\* No claim with this token was started yet; its execution is over.
NoExecution == [at |-> "none"]
Over == [at |-> "over"]

Cancelling ==
    [at : {"idle", "reading", "sending", "answered", "failed"}, run : RunId \cup {NoKey},
     token : Token \cup {NoToken}, tries : 0 .. MaxTries]

NotCancelling == [at |-> "idle", run |-> NoKey, token |-> NoToken, tries |-> 0]

At(r, n, at) == exec[r][n].at = at
Ongoing(r, n) == exec[r][n].at \in {"handling", "settled"}
Handling(r) == {n \in Token : At(r, n, "handling")}

\* activeExecutions: a timed-out or aborted handler counts until it settles.
Active(w) == {c \in ClaimRef : Ongoing(c.run, c.token) /\ exec[c.run][c.token].worker = w}

Faulty == faults < MaxFaults /\ faults' = faults + 1

--------------------------------------------------------------------------------
(* dispatch: claim, check, fence, start.                                   *)

Slots(w) == MaxConcurrentRuns - Cardinality(Active(w))

\* A claim of nothing is followed only where it clears the fence.
ClaimRuns(w, S, d) ==
    /\ open[w] /\ dispatch[w].at = "idle" /\ Slots(w) > 0
    /\ IF S # {} THEN ClaimDueRuns(S, Task, Slots(w), d)
       ELSE /\ fence[w] # {} \/ overflow[w]
            /\ Admitted(S, Task, Slots(w), d)
            /\ UNCHANGED storeVars
    /\ dispatch' = [dispatch EXCEPT ![w] =
                      [Idle EXCEPT !.at = "claimed", !.age = d,
                                   !.batch = {[run |-> r, token |-> issued[r] + 1] : r \in S}]]
    /\ UNCHANGED <<open, exec, controllers, fence, overflow, timeoutVars, cancelling,
                   acked, faults>>

\* Mutant: a claim is good as long as its lease has not run out.
SurvivesAnswer(w) == LeaseMs > dispatch[w].age

\* The lease must last beyond the first heartbeat.
SurvivesHeartbeat(w) == LeaseMs - dispatch[w].age > Interval

\* Mutant: claims that are not started are not given back.
Dropping(w, some, rest, then) ==
    [dispatch[w] EXCEPT !.at = then, !.todo = {}, !.batch = rest, !.then = then]

Releasing(w, some, rest, then) ==
    [dispatch[w] EXCEPT !.at = IF some = {} THEN then ELSE "releasing",
                        !.todo = some, !.batch = rest, !.then = then]

\* Mutant: the runs that are released are started as well.
StillWanted(w, late) == dispatch[w].batch

Wanted(w, late) == dispatch[w].batch \ late

\* The claim's answer arrives.  A claim too old to survive is given back as a whole;
\* runs whose timed-out handler is still at work here are given back one by one.
CheckClaim(w) ==
    LET late == {c \in dispatch[w].batch : c.run \in timedOutIds[w]}
    IN /\ dispatch[w].at = "claimed"
       /\ dispatch' =
            [dispatch EXCEPT ![w] =
               IF dispatch[w].batch # {} /\ ~SurvivesHeartbeat(w)
               THEN Releasing(w, dispatch[w].batch, {}, "idle")
               ELSE Releasing(w, late, Wanted(w, late), "ready")]
       /\ UNCHANGED <<storeVars, open, exec, controllers, fence, overflow, timeoutVars,
                      cancelling, acked, faults>>

ClaimAnswerLost(w) ==
    /\ dispatch[w].at = "claimed" /\ Faulty
    /\ dispatch' = [dispatch EXCEPT ![w] = Idle]
    /\ UNCHANGED <<storeVars, open, exec, controllers, fence, overflow, timeoutVars,
                   cancelling, acked>>

Released(w, c) ==
    LET d == dispatch[w]
        left == d.todo \ {c}
    IN dispatch' = [dispatch EXCEPT ![w] =
                      IF left # {} THEN [d EXCEPT !.todo = left]
                      ELSE IF d.then = "idle" THEN Idle
                      ELSE [d EXCEPT !.at = "ready", !.todo = {}]]

\* A release that fails, or finds the lease gone, is reported and forgotten.
ReleaseOne(w, c) ==
    /\ dispatch[w].at = "releasing" /\ c \in dispatch[w].todo
    /\ Released(w, c)
    /\ \/ ReleaseClaim(c.run, c.token) /\ UNCHANGED faults
       \/ ~Holds(c.run, c.token) /\ UNCHANGED <<storeVars, faults>>
       \/ Faulty /\ UNCHANGED storeVars
    /\ UNCHANGED <<open, exec, controllers, fence, overflow, timeoutVars, cancelling,
                   acked>>

Begun(w) ==
    [worker |-> w, at |-> "handling", timedOut |-> FALSE, aborted |-> FALSE,
     leaseActive |-> TRUE, beaten |-> TRUE]

\* The runs of B that no local cancellation has overtaken.
Unfenced(w, B) == {c \in B : c.run \notin fence[w]}

StartBatch(w, B) ==
    IF ~open[w]
    THEN /\ dispatch' = [dispatch EXCEPT ![w] =
                           IF B = {} THEN Idle ELSE Releasing(w, B, {}, "idle")]
         /\ UNCHANGED <<exec, controllers, fence>>
    ELSE LET S == Unfenced(w, B)
             tokenOf(r) == (CHOOSE c \in S : c.run = r).token
             started == {c.run : c \in S}
         IN /\ exec' = [r \in RunId |-> [n \in Token |->
                          IF [run |-> r, token |-> n] \in S THEN Begun(w) ELSE exec[r][n]]]
            /\ controllers' = [controllers EXCEPT ![w] =
                 [r \in RunId |-> IF r \in started THEN tokenOf(r) ELSE @[r]]]
            /\ fence' = [fence EXCEPT ![w] = {}]
            /\ dispatch' = [dispatch EXCEPT ![w] = Idle]

Start(w) ==
    /\ dispatch[w].at = "ready" /\ ~overflow[w]
    /\ StartBatch(w, dispatch[w].batch)
    /\ UNCHANGED <<storeVars, open, overflow, timeoutVars, cancelling, acked, faults>>

OpenWindow(w) ==
    /\ dispatch[w].at = "ready" /\ overflow[w]
    /\ dispatch' = [dispatch EXCEPT ![w].at = "verifying", ![w].todo = dispatch[w].batch,
                                    ![w].keep = {}, ![w].moved = FALSE, ![w].tries = @ + 1]
    /\ UNCHANGED <<storeVars, open, exec, controllers, fence, overflow, timeoutVars,
                   cancelling, acked, faults>>

\* One point read; a read that fails gives the whole batch back.
ReadClaim(w, c) ==
    /\ dispatch[w].at = "verifying" /\ c \in dispatch[w].todo
    /\ \/ /\ dispatch' = [dispatch EXCEPT
                            ![w].todo = @ \ {c},
                            ![w].keep = IF Holds(c.run, c.token) THEN @ \cup {c} ELSE @]
          /\ UNCHANGED faults
       \/ Faulty /\ dispatch' = [dispatch EXCEPT ![w] =
                                   Releasing(w, dispatch[w].batch, {}, "idle")]
    /\ UNCHANGED <<storeVars, open, exec, controllers, fence, overflow, timeoutVars,
                   cancelling, acked>>

\* Mutant: cancellations within the window are not noticed.
WindowIsQuietAlways(w) == TRUE

WindowIsQuiet(w) == ~dispatch[w].moved

\* The window closes: start what was found to be ours, or try again, or give back.
CloseWindow(w) ==
    /\ dispatch[w].at = "verifying" /\ dispatch[w].todo = {}
    /\ IF WindowIsQuiet(w)
       THEN StartBatch(w, dispatch[w].keep) /\ overflow' = [overflow EXCEPT ![w] = FALSE]
       ELSE /\ dispatch' = [dispatch EXCEPT ![w] =
                              IF @.tries < MaxTries THEN [@ EXCEPT !.at = "ready"]
                              ELSE IF @.batch = {} THEN Idle
                              ELSE Releasing(w, @.batch, {}, "idle")]
            /\ UNCHANGED <<exec, controllers, fence, overflow>>
    /\ UNCHANGED <<storeVars, open, timeoutVars, cancelling, acked, faults>>

--------------------------------------------------------------------------------
(* An execution: heartbeat, timeout, settling, commit.                     *)

\* Mutant: the handler is not told.
NotAborting(x, w, r) == x

\* abort() of the controller that activeControllers has for the run.
Aborting(x, w, r) ==
    IF controllers[w][r] = NoToken THEN x
    ELSE [x EXCEPT ![r][controllers[w][r]].aborted = TRUE]

LostLease(r, n) ==
    Aborting([exec EXCEPT ![r][n].leaseActive = FALSE], exec[r][n].worker, r)

\* The commit waits for a timed-out handler of the same run.
Waits(r, n) == timedOutOps[exec[r][n].worker][r] # NoToken

\* Mutant: the heartbeat stops when the handler has timed out.
BeatsUntilTimeout(r, n) ==
    At(r, n, "handling") /\ exec[r][n].leaseActive /\ ~exec[r][n].timedOut

Beats(r, n) ==
    /\ At(r, n, "handling") \/ (At(r, n, "settled") /\ Waits(r, n))
    /\ exec[r][n].leaseActive

Heartbeat(r, n) ==
    /\ Beats(r, n)
    /\ IF Fenced(r, n, 0)
       THEN RenewLease(r, n, 0) /\ exec' = [exec EXCEPT ![r][n].beaten = TRUE]
       ELSE UNCHANGED storeVars /\ exec' = LostLease(r, n)
    /\ UNCHANGED <<open, dispatch, controllers, fence, overflow, timeoutVars, cancelling,
                   acked, faults>>

\* The renewal fails and so does the read that would recover it.
LoseRenewal(r, n) ==
    /\ ~Punctual /\ Faulty
    /\ At(r, n, "handling") /\ exec[r][n].leaseActive
    /\ exec' = LostLease(r, n)
    /\ UNCHANGED <<storeVars, open, dispatch, controllers, fence, overflow, timeoutVars,
                   cancelling, acked>>

Remembered(w, r) == timedOutIds[w] \cup {r}

\* The timeout aborts the execution's own controller, whatever the map says.
Timeout(r, n) ==
    LET w == exec[r][n].worker
    IN /\ At(r, n, "handling") /\ TaskOf[r] \in TimedTask /\ ~exec[r][n].timedOut
       /\ exec' = [exec EXCEPT ![r][n].timedOut = TRUE, ![r][n].aborted = TRUE]
       /\ timedOutIds' = [timedOutIds EXCEPT ![w] = Remembered(w, r)]
       /\ timedOutOps' = [timedOutOps EXCEPT ![w][r] = n]
       /\ UNCHANGED <<storeVars, open, dispatch, controllers, fence, overflow, cancelling,
                      acked, faults>>

\* The handler settles.  The maps are cleaned by run id: the entries of another
\* execution of the same run go too.
HandlerSettles(r, n) ==
    LET w == exec[r][n].worker
    IN /\ At(r, n, "handling")
       /\ exec' = [exec EXCEPT ![r][n].at = "settled"]
       /\ controllers' = [controllers EXCEPT ![w][r] = NoToken]
       /\ timedOutIds' = IF exec[r][n].timedOut
                         THEN [timedOutIds EXCEPT ![w] = @ \ {r}] ELSE timedOutIds
       /\ timedOutOps' = [timedOutOps EXCEPT ![w][r] = IF @ = n THEN NoToken ELSE @]
       /\ UNCHANGED <<storeVars, open, dispatch, fence, overflow, cancelling, acked, faults>>

MaySucceed(r, n) == ~exec[r][n].timedOut

\* What the backend does with the outcome; an error leaves the lease to recovery.
Outcome(r, n, delay, d) ==
    \/ MaySucceed(r, n) /\ CompleteRun(r, n, d) /\ UNCHANGED faults
    \/ MarkRunRetryable(r, n, delay, d) /\ UNCHANGED faults
    \/ Exhausted(r) /\ DeadLetterRun(r, n, d) /\ UNCHANGED faults
    \/ /\ ~Fenced(r, n, d) \/ Cardinality(deadLetters) >= MaxDeadLetters
       /\ UNCHANGED <<storeVars, faults>>
    \/ Faulty /\ UNCHANGED storeVars

Commit(r, n, delay, d) ==
    /\ At(r, n, "settled") /\ ~Waits(r, n)
    /\ IF exec[r][n].leaseActive THEN Outcome(r, n, delay, d)
       ELSE UNCHANGED <<storeVars, faults>>
    /\ exec' = [exec EXCEPT ![r][n] = Over]
    /\ UNCHANGED <<open, dispatch, controllers, fence, overflow, timeoutVars, cancelling, acked>>

--------------------------------------------------------------------------------
(* cancelRun.                                                              *)

\* Mutant: a full fence drops the oldest knowledge instead of overflowing.
NeverOverflows(w) == FALSE

Overflows(w) == overflow[w] \/ Cardinality(fence[w]) >= FenceLimit

\* rememberCancellation, then the abort of the local handler.
ApplyLocal(w, r) ==
    /\ overflow' = [overflow EXCEPT ![w] = Overflows(w)]
    /\ fence' = [fence EXCEPT ![w] = IF Cardinality(@) >= FenceLimit \/ overflow[w]
                                     THEN @ ELSE @ \cup {r}]
    /\ dispatch' = [dispatch EXCEPT ![w].moved = @ \/ dispatch[w].at = "verifying"]
    /\ exec' = Aborting(exec, w, r)
    /\ acked' = [acked EXCEPT ![w] = @ \cup {r}]
    /\ cancelling' = [cancelling EXCEPT ![w] = NotCancelling]

GivesUp(w) ==
    /\ cancelling' = [cancelling EXCEPT ![w] = NotCancelling]
    /\ UNCHANGED <<overflow, fence, dispatch, exec, acked>>

TriesLeft(w) == cancelling[w].tries < MaxTries

CancelRead(w, r) ==
    /\ IF cancelling[w].at = "idle" THEN open[w] /\ runs[r].status \in Present
       ELSE cancelling[w].at = "reading" /\ cancelling[w].run = r
    /\ IF runs[r].status \in Live
       THEN /\ cancelling' = [cancelling EXCEPT ![w] =
                 [at |-> "sending", run |-> r, token |-> runs[r].token, tries |-> @.tries + 1]]
            /\ UNCHANGED <<overflow, fence, dispatch, exec, acked>>
       ELSE IF RunIs(r, "cancelled") THEN ApplyLocal(w, r) ELSE GivesUp(w)
    /\ UNCHANGED <<storeVars, open, controllers, timeoutVars, faults>>

\* The write is applied and answered, applied or not with its answer lost, or refused
\* because the run changed hands since the read.
CancelSend(w, d) ==
    LET c == cancelling[w]
        next(at) == cancelling' = [cancelling EXCEPT ![w].at = at]
    IN /\ c.at = "sending"
       /\ \/ CancelRun(c.run, c.token, d) /\ next("answered") /\ UNCHANGED faults
          \/ CancelRun(c.run, c.token, d) /\ next("failed") /\ Faulty
          \/ UNCHANGED storeVars /\ next("failed") /\ Faulty
          \/ /\ ~Cancellable(c.run, c.token)
             /\ UNCHANGED <<storeVars, faults>>
             /\ IF TriesLeft(w) THEN next("reading")
                ELSE cancelling' = [cancelling EXCEPT ![w] = NotCancelling]
       /\ UNCHANGED <<open, dispatch, exec, controllers, fence, overflow, timeoutVars, acked>>

CancelAnswered(w) ==
    /\ cancelling[w].at = "answered"
    /\ ApplyLocal(w, cancelling[w].run)
    /\ UNCHANGED <<storeVars, open, controllers, timeoutVars, faults>>

\* After an error the run is read back.
CancelConfirm(w) ==
    /\ cancelling[w].at = "failed"
    /\ \/ RunIs(cancelling[w].run, "cancelled") /\ ApplyLocal(w, cancelling[w].run)
          /\ UNCHANGED faults
       \/ ~RunIs(cancelling[w].run, "cancelled") /\ GivesUp(w) /\ UNCHANGED faults
       \/ GivesUp(w) /\ Faulty
    /\ UNCHANGED <<storeVars, open, controllers, timeoutVars>>

--------------------------------------------------------------------------------
(* Crash, shutdown, recovery, time.                                        *)

\* The process dies and a new one takes its place: only the store remembers.
Crash(w) ==
    /\ Faulty
    /\ open' = [open EXCEPT ![w] = TRUE]
    /\ dispatch' = [dispatch EXCEPT ![w] = Idle]
    /\ exec' = [r \in RunId |-> [n \in Token |->
                  IF [run |-> r, token |-> n] \in Active(w) THEN Over ELSE exec[r][n]]]
    /\ controllers' = [controllers EXCEPT ![w] = [r \in RunId |-> NoToken]]
    /\ fence' = [fence EXCEPT ![w] = {}]
    /\ overflow' = [overflow EXCEPT ![w] = FALSE]
    /\ timedOutIds' = [timedOutIds EXCEPT ![w] = {}]
    /\ timedOutOps' = [timedOutOps EXCEPT ![w] = [r \in RunId |-> NoToken]]
    /\ cancelling' = [cancelling EXCEPT ![w] = NotCancelling]
    /\ acked' = [acked EXCEPT ![w] = {}]
    /\ UNCHANGED storeVars

\* shutdown starts draining, or the initial start fails.
StopAdmission(w) ==
    /\ w \in Stoppable /\ open[w]
    /\ open' = [open EXCEPT ![w] = FALSE]
    /\ UNCHANGED <<storeVars, dispatch, exec, controllers, fence, overflow, timeoutVars,
                   cancelling, acked, faults>>

RecoverLeases(S, d) ==
    /\ \E w \in Worker : open[w]
    /\ RecoverStaleLeases(S, d)
    /\ UNCHANGED <<localVars, acked, faults>>

\* The worker's own work is done before time passes.
InTime ==
    /\ \A r \in RunId, n \in Token : Beats(r, n) => exec[r][n].beaten
    /\ \A w \in Worker : dispatch[w].at \in {"idle", "claimed"}

TimePasses ==
    /\ Punctual => InTime
    /\ \A w \in Worker : dispatch[w].at = "claimed" => dispatch[w].age < ClaimDelay
    /\ Tick
    /\ dispatch' = [w \in Worker |->
                      IF dispatch[w].at = "claimed"
                      THEN [dispatch[w] EXCEPT !.age = @ + 1] ELSE dispatch[w]]
    /\ exec' = [r \in RunId |-> [n \in Token |->
                  IF Ongoing(r, n) THEN [exec[r][n] EXCEPT !.beaten = FALSE] ELSE exec[r][n]]]
    /\ UNCHANGED <<open, controllers, fence, overflow, timeoutVars, cancelling, acked, faults>>

WorkersInit ==
    /\ Init
    /\ open = [w \in Worker |-> TRUE]
    /\ dispatch = [w \in Worker |-> Idle]
    /\ exec = [r \in RunId |-> [n \in Token |-> NoExecution]]
    /\ controllers = [w \in Worker |-> [r \in RunId |-> NoToken]]
    /\ fence = [w \in Worker |-> {}]
    /\ overflow = [w \in Worker |-> FALSE]
    /\ timedOutIds = [w \in Worker |-> {}]
    /\ timedOutOps = [w \in Worker |-> [r \in RunId |-> NoToken]]
    /\ cancelling = [w \in Worker |-> NotCancelling]
    /\ acked = [w \in Worker |-> {}]
    /\ faults = 0

Dispatching(w) ==
    \/ \E S \in SUBSET RunId, d \in Lag : ClaimRuns(w, S, d)
    \/ CheckClaim(w)
    \/ ClaimAnswerLost(w)
    \/ \E c \in dispatch[w].todo : ReleaseOne(w, c)
    \/ Start(w)
    \/ OpenWindow(w)
    \/ \E c \in dispatch[w].todo : ReadClaim(w, c)
    \/ CloseWindow(w)

Executing(r, n) ==
    \/ Heartbeat(r, n)
    \/ LoseRenewal(r, n)
    \/ Timeout(r, n)
    \/ HandlerSettles(r, n)
    \/ \E delay \in Delay, d \in Lag : Commit(r, n, delay, d)

Cancels(w) ==
    \/ \E r \in RunId : CancelRead(w, r)
    \/ \E d \in Lag : CancelSend(w, d)
    \/ CancelAnswered(w)
    \/ CancelConfirm(w)

WorkersNext ==
    \/ Enqueue /\ UNCHANGED <<localVars, acked, faults>>
    \/ \E w \in Worker : Dispatching(w)
    \/ \E r \in RunId, n \in Token : Executing(r, n)
    \/ \E w \in Canceller : Cancels(w)
    \/ \E w \in Worker : Crash(w)
    \/ \E w \in Worker : StopAdmission(w)
    \/ \E S \in SUBSET RunId, d \in Lag : RecoverLeases(S, d)
    \/ TimePasses

WorkersSpec == WorkersInit /\ [][WorkersNext]_vars

\* The event loop keeps running what is due, timers fire, the poll timer claims and
\* recovers, and handlers settle.  Only lost answers and crashes need no fairness.
Fairness ==
    /\ \A w \in Worker :
         /\ WF_vars(\E S \in SUBSET RunId \ {{}}, d \in Lag : ClaimRuns(w, S, d))
         /\ WF_vars(CheckClaim(w))
         /\ WF_vars(\E c \in dispatch[w].todo : ReleaseOne(w, c))
         /\ WF_vars(Start(w) \/ OpenWindow(w) \/ CloseWindow(w))
         /\ WF_vars(\E c \in dispatch[w].todo : ReadClaim(w, c))
    /\ \A r \in RunId, n \in Token :
         /\ WF_vars(Heartbeat(r, n))
         /\ WF_vars(HandlerSettles(r, n))
         /\ WF_vars(\E delay \in Delay, d \in Lag : Commit(r, n, delay, d))
    /\ WF_vars(\E S \in SUBSET RunId, d \in Lag : RecoverLeases(S, d))
    /\ WF_vars(TimePasses)

FairWorkersSpec == WorkersSpec /\ Fairness

--------------------------------------------------------------------------------
(* Properties.                                                             *)

\* Every variable stays in its type.
WorkersTypeOK ==
    /\ TypeOK
    /\ open \in [Worker -> BOOLEAN]
    /\ \A w \in Worker : dispatch[w] \in Dispatch
    /\ \A r \in RunId, n \in Token : exec[r][n] \in Execution \cup {NoExecution, Over}
    /\ controllers \in [Worker -> [RunId -> Token \cup {NoToken}]]
    /\ \A w \in Worker : fence[w] \subseteq RunId /\ timedOutIds[w] \subseteq RunId
    /\ overflow \in [Worker -> BOOLEAN]
    /\ timedOutOps \in [Worker -> [RunId -> Token \cup {NoToken}]]
    /\ \A w \in Worker : cancelling[w] \in Cancelling /\ acked[w] \subseteq RunId
    /\ faults \in 0 .. MaxFaults

\* A handler start is always paid for by an attempt: claims given back uncount the
\* attempt, so a handler started from such a claim would run beyond the retry
\* policy.  Holds through crashes, lost answers and any delay.
StartsWithinAttempts ==
    \A r \in RunId :
        Cardinality({n \in Token : exec[r][n] # NoExecution}) <= runs[r].attempt

\* After cancelRun has returned on a worker that worker starts no handler of the
\* run, also when the claim was on its way or the fence overflowed.
NoStartAfterAck ==
    [][\A r \in RunId, n \in Token :
         (exec[r][n] = NoExecution /\ exec'[r][n] # NoExecution) =>
             r \notin acked[exec'[r][n].worker]]_vars

\* After cancelRun has returned every handler of the run at work on that worker has
\* been told to abort.  Only a worker that has started the run twice, having lost the
\* lease of a handler that is still at work, may miss one: the first handler's end
\* removes the controller of the second.
CancelAborts ==
    \A r \in RunId, n \in Token :
        (At(r, n, "handling") /\ r \in acked[exec[r][n].worker]) =>
            exec[r][n].aborted \/ \E m \in Token \ {n} : exec[r][m] # NoExecution

\* While heartbeats are punctual two handlers of one run are never at work together,
\* although a claim's answer may be late, handlers outlive their lease's first
\* duration and time out without settling.
NoOverlap == \A r \in RunId : Cardinality(Handling(r)) <= 1

\* The handlers at work for runs that are not cancelled stay within the global and
\* the per-task concurrency, timed-out ones included.
PhysicalConcurrency ==
    LET busy(T) == {c \in RunId \X Token : /\ TaskOf[c[1]] \in T
                                           /\ At(c[1], c[2], "handling")
                                           /\ ~RunIs(c[1], "cancelled")}
    IN /\ Cardinality(busy(Task)) <= MaxConcurrentRuns
       /\ \A t \in Task : Cardinality(busy({t})) <= TaskLimit[t]

\* Without a fault no claim is forgotten: a run with a lease in force is in some
\* worker's batch or has an execution; a late, fenced, overflowed or no longer wanted
\* claim is given back, not left to expire and to burn an attempt.
NoOrphanedClaim ==
    faults = 0 =>
        \A r \in RunId :
            (RunIs(r, "running") /\ runs[r].due > 0) =>
                \/ Ongoing(r, runs[r].token)
                \/ \E w \in Worker : [run |-> r, token |-> runs[r].token]
                                       \in dispatch[w].batch \cup dispatch[w].todo

\* Every run ends: completed, cancelled or dead-lettered, whatever its workers and
\* their leases go through.  (A run that was claimed
\* MaxClaims times is at the bound of the model: a timed-out handler that does not
\* settle makes its worker claim the run and give it back again and again.)
EveryRunEnds ==
    \A r \in RunId :
        runs[r].status \in Live ~> (runs[r].status \in Terminal \/ issued[r] = MaxClaims)

--------------------------------------------------------------------------------
(* The workers implement JobsHandlers.                                     *)

Stage(r) == IF runs[r].status \in Live THEN "open" ELSE runs[r].status

\* Every claim of a run that was started.
Started(r) == {n \in Token : exec[r][n] # NoExecution}

AtWork == {r \in RunId : Handling(r) # {}}

Handlers == INSTANCE JobsHandlers WITH
    stage <- [r \in RunId |-> Stage(r)],
    starts <- [r \in RunId |-> Cardinality(Started(r))],
    atWork <- AtWork

\* While heartbeats are punctual, and whatever claims are late, given back, fenced or lost
\* with their process, an application sees: handlers of a run that follow each other, at
\* most as many as its policy says, within the concurrency; a run that ends after its
\* handler has left, unless it is cancelled; and no start after the end.
ImplementsHandlers == Handlers!Spec
================================================================================
