------------------------- MODULE EventsDelivery_proofs --------------------------
(***************************************************************************)
(* Theorems about EventsDelivery for any number of managers, consumers,    *)
(* runs, faults and administrative calls: the fence tells the runs in      *)
(* progress apart; an event is dispatched only when its consumers have     *)
(* completed it; what a consumer has completed it does not handle again;   *)
(* and while leases are long enough for the answer to a claim, at most one *)
(* handler and one delivery go on without having been told to abort.       *)
(*                                                                         *)
(* They assume that attempts are reset only while no run is in progress:   *)
(* replay and retryDeadLetter do not make sure of it.                      *)
(***************************************************************************)
EXTENDS EventsDelivery, FiniteSetTheorems, TLAPS

\* A free run is nobody's; the others belong to a manager and carry a generation that was given
\* out since the last reset, no two of them the same.  Only a dispatching record is leased.
FenceInv ==
    /\ \A r \in Runs :
         IF run[r].phase = "free" THEN run[r].mgr = None /\ run[r].want = Idle
         ELSE run[r].mgr \in Managers /\ run[r].attempts <= record.attempts
    /\ \A r, q \in Runs :
         r # q /\ run[r].phase # "free" /\ run[q].phase # "free" =>
             run[r].attempts # run[q].attempts
    /\ record.owner # None => record.status = "dispatching"

Over == {"done", "failed"}

\* A run makes its calls while it is consuming; it leaves that phase when they are over, for a
\* delivery or a completion only when they are all done.
CallFits(r, c) ==
    /\ run[r].phase \in {"free", "claimed", "ended"} => call[r][c].phase = "none"
    /\ run[r].phase \in {"delivering", "completing", "failing", "dying"} =>
         call[r][c].phase \in Over /\ call[r][c].want = Idle
    /\ run[r].phase \in {"delivering", "completing"} => call[r][c].phase = "done"
    /\ call[r][c].phase \in {"none", "slot", "inbox", "claimed"} => call[r][c].want = Idle

\* A call is done only when its consumer has completed the event, as long as it is kept.
DoneIsComplete ==
    record.status # "purged" =>
        \A r \in Runs, c \in Consumers : call[r][c].phase = "done" => inbox[c].state = "complete"

\* A completed entry is nobody's.
CompleteIsFinal == \A c \in Consumers : inbox[c].state = "complete" => inbox[c].owner = None

CallInv ==
    /\ \A r \in Runs, c \in Consumers : CallFits(r, c)
    /\ DoneIsComplete /\ CompleteIsFinal

\* What is left of a lease whose holder has not been told to abort: its claim is still to be
\* answered, or no renewal is pending, or one has been for less than a tick.
Kept(ttl, phase, lag, want) ==
    \/ phase = "claimed" /\ want = Idle /\ ttl + lag >= Lease
    \/ phase # "claimed" /\ want = Idle /\ ttl + ClaimLag >= Lease
    \/ phase # "claimed" /\ want = Lease /\ ttl + ClaimLag + 1 >= Lease

\* A run, and a handler, that has not been told to abort holds its lease.
RunLeased(r) ==
    ~run[r].aborted /\ run[r].phase \in {"claimed", "consuming", "delivering"} =>
        HoldsLease(r) /\ Kept(record.ttl, run[r].phase, run[r].lag, run[r].want)

CallLeased(r, c) ==
    ~run[r].aborted /\ call[r][c].phase \in {"claimed", "handling"} =>
        /\ inbox[c].state = "claimed" /\ inbox[c].owner = r
        /\ Kept(inbox[c].ttl, call[r][c].phase, call[r][c].lag, call[r][c].want)

LeaseInv ==
    /\ \A r \in Runs : RunLeased(r)
    /\ \A r \in Runs, c \in Consumers : CallLeased(r, c)

\* Attempts are reset only while no run is in progress.
QuietAdmin == ~AdminAnytime

\* A lease outlasts the answer to its claim and a renewal that is given up.
LongLeases == ClaimLag + 1 < Lease

--------------------------------------------------------------------------------
(* Types.                                                                  *)

OutboxRecord == [status : {"absent", "queued", "dispatching", "dispatched", "failed",
                           "dead", "cancelled", "purged"},
                 attempts : Nat, owner : Managers \cup {None}, ttl : 0 .. Lease]

InboxEntry == [state : {"none", "claimed", "complete"}, owner : Runs \cup {None}, ttl : 0 .. Lease]

RunPhase == {"free", "claimed", "consuming", "delivering", "completing", "failing", "dying",
             "ended"}

RunRecord == [mgr : Managers \cup {None}, attempts : Nat, phase : RunPhase, lag : 0 .. ClaimLag,
              aborted : BOOLEAN, bad : BOOLEAN, want : Idle .. Lease]

CallPhase == {"none", "slot", "inbox", "claimed", "handling", "completing", "releasing", "done",
              "failed"}

CallRecord == [phase : CallPhase, lag : 0 .. ClaimLag, bad : BOOLEAN, want : Idle .. Lease]

\* The types of the state that is not a counter.
DataTyped ==
    /\ record \in OutboxRecord /\ expired \in BOOLEAN
    /\ inbox \in [Consumers -> InboxEntry]
    /\ run \in [Runs -> RunRecord] /\ call \in [Runs -> [Consumers -> CallRecord]]
    /\ state \in [Managers -> {"running", "draining", "closed"}]

Typed == DataTyped /\ faults \in 0 .. MaxFaults /\ admin \in 0 .. MaxAdmin

\* This is the type invariant.
LEMMA TypeParts == TypeOK <=> Typed
BY DEF Typed, TypeOK, DataTyped, OutboxRecord, InboxEntry, RunPhase, RunRecord, CallPhase, CallRecord

\* The ends of the intervals.
LEMMA Ends ==
  /\ 0 \in 0 .. ClaimLag /\ 0 \in 0 .. Lease /\ Lease \in 0 .. Lease
  /\ Lease \in Idle .. Lease /\ Idle \in Idle .. Lease
BY DeliveryConstants DEF Idle

\* What is blank has the type of what it stands for.
LEMMA Blank ==
  /\ Free \in RunRecord /\ NoCall \in CallRecord /\ NoEntry \in InboxEntry
  /\ Completed \in InboxEntry
BY DeliveryConstants
   DEF Free, NoCall, NoEntry, Completed, Idle, RunRecord, CallRecord, InboxEntry, RunPhase,
       CallPhase

\* A step of a call changes the phase of this call only.
LEMMA CallToForm ==
  ASSUME DataTyped, NEW r \in Runs, NEW c \in Consumers, NEW p \in CallPhase, CallTo(r, c, p)
  PROVE  /\ call' \in [Runs -> [Consumers -> CallRecord]]
         /\ /\ call'[r][c].phase = p /\ call'[r][c].lag = 0
            /\ call'[r][c].want = call[r][c].want
         /\ \A q \in Runs, d \in Consumers : (q # r \/ d # c) => call'[q][d] = call[q][d]
<1>1. call[r] \in [Consumers -> CallRecord] /\ call[r][c] \in CallRecord
  BY DEF DataTyped
<1>2. PICK one \in CallRecord : one = [call[r][c] EXCEPT !.phase = p, !.lag = 0]
  BY <1>1, Ends DEF CallRecord
<1>3. PICK row \in [Consumers -> CallRecord] : row = [call[r] EXCEPT ![c] = one]
  BY <1>1
<1>4. call' = [call EXCEPT ![r] = row]
  BY <1>1, <1>2, <1>3 DEF CallTo, DataTyped, CallRecord
<1>5. call' \in [Runs -> [Consumers -> CallRecord]] /\ call'[r] = row
  BY <1>4 DEF DataTyped
<1>6. \A q \in Runs, d \in Consumers : (q # r \/ d # c) => call'[q][d] = call[q][d]
  BY <1>1, <1>3, <1>4 DEF DataTyped
<1>7. call'[r][c] = one
  BY <1>3, <1>5
<1>8. one.phase = p /\ one.lag = 0 /\ one.want = call[r][c].want
  BY <1>1, <1>2 DEF CallRecord
<1> QED BY <1>5, <1>6, <1>7, <1>8

\* A step of a run changes the phase of this run only.
LEMMA RunToForm ==
  ASSUME DataTyped, NEW r \in Runs, NEW p \in RunPhase, RunTo(r, p)
  PROVE  /\ run' \in [Runs -> RunRecord]
         /\ run'[r] = [run[r] EXCEPT !.phase = p] /\ run'[r].phase = p
         /\ \A q \in Runs \ {r} : run'[q] = run[q]
BY DEF DataTyped, RunTo, RunRecord

\* A run that ends is free or waits for its last renewal, and makes no calls.
LEMMA EndForm ==
  ASSUME DataTyped, NEW r \in Runs, End(r)
  PROVE  /\ run' \in [Runs -> RunRecord] /\ call' \in [Runs -> [Consumers -> CallRecord]]
         /\ run'[r] = IF run[r].want = Idle THEN Free ELSE [run[r] EXCEPT !.phase = "ended"]
         /\ \A q \in Runs \ {r} : run'[q] = run[q] /\ call'[q] = call[q]
         /\ \A c \in Consumers : call'[r][c] = NoCall
<1>1. run[r] \in RunRecord
  BY DEF DataTyped
<1>2. [run[r] EXCEPT !.phase = "ended"] \in RunRecord
  BY <1>1 DEF RunRecord, RunPhase
<1> QED BY <1>1, <1>2, Blank DEF DataTyped, End
\* The settlements of the outbox keep its type.
LEMMA UnleasedForm ==
  ASSUME DataTyped,
         NEW s \in {"queued", "dispatched", "failed", "dead", "purged"}
  PROVE  /\ Unleased(s) \in OutboxRecord
         /\ Unleased(s).status = s /\ Unleased(s).owner = None
         /\ Unleased(s).attempts = record.attempts
BY Ends DEF DataTyped, Unleased, OutboxRecord

\* A counted fault stays in its bound.
LEMMA FaultForm == ASSUME Typed, Fault PROVE faults' \in 0 .. MaxFaults
BY DeliveryConstants DEF Typed, Fault

\* A lag, an expiry and a pending renewal keep their types when time passes.
LEMMA TimeForm ==
  /\ \A t \in 0 .. Lease : Left(t) \in 0 .. Lease
  /\ \A w \in Idle .. Lease : NextWant(w, TRUE) \in Idle .. Lease /\ NextWant(w, FALSE) \in Idle .. Lease
BY DeliveryConstants DEF Left, NextWant, Idle

\* The counting of a tick's faults is a number.
LEMMA FaultsCounted ==
  /\ Cardinality(LateOnes) \in Nat /\ Cardinality(LateCalls) \in Nat
  /\ Cardinality(SlowOnes) \in Nat /\ Cardinality(SlowCalls) \in Nat
<1>1. IsFiniteSet(Runs \X Consumers)
  BY DeliveryConstants, FS_Product
<1>2. /\ LateOnes \subseteq Runs /\ SlowOnes \subseteq Runs
      /\ LateCalls \subseteq Runs \X Consumers /\ SlowCalls \subseteq Runs \X Consumers
  BY DEF LateOnes, LateCalls, SlowOnes, SlowCalls
<1>3. /\ IsFiniteSet(LateOnes) /\ IsFiniteSet(SlowOnes)
      /\ IsFiniteSet(LateCalls) /\ IsFiniteSet(SlowCalls)
  BY <1>1, <1>2, DeliveryConstants, FS_Subset
<1> QED BY <1>3, FS_CardinalityType

\* The answer to a renewal of an inbox lease: the owner keeps it, who is not is aborted.
LEMMA CallRenewedForm ==
  ASSUME Typed, NEW r \in Runs, NEW c \in Consumers, CallRenewed(r, c)
  PROVE  /\ inbox' \in [Consumers -> InboxEntry] /\ run' \in [Runs -> RunRecord]
         /\ call' \in [Runs -> [Consumers -> CallRecord]]
         /\ \A d \in Consumers : /\ inbox'[d].state = inbox[d].state
                                 /\ inbox'[d].owner = inbox[d].owner
                                 /\ d # c => inbox'[d] = inbox[d]
         /\ inbox[c].owner = r => inbox'[c].ttl = call[r][c].want
         /\ inbox[c].owner # r => inbox'[c] = inbox[c] /\ run'[r].aborted
         /\ \A q \in Runs :
              /\ run'[q].phase = run[q].phase /\ run'[q].mgr = run[q].mgr
              /\ run'[q].attempts = run[q].attempts
              /\ run'[q].lag = run[q].lag /\ run'[q].want = run[q].want
              /\ run[q].aborted => run'[q].aborted
         /\ \A q \in Runs, d \in Consumers :
              /\ q # r \/ d # c => call'[q][d] = call[q][d]
              /\ call'[q][d].phase = call[q][d].phase /\ call'[q][d].lag = call[q][d].lag
         /\ call'[r][c].want = Idle
<1> DEFINE renewed == inbox[c].owner = r
<1>1. /\ call[r] \in [Consumers -> CallRecord] /\ call[r][c] \in CallRecord
      /\ inbox[c] \in InboxEntry /\ run[r] \in RunRecord
      /\ inbox \in [Consumers -> InboxEntry] /\ run \in [Runs -> RunRecord]
      /\ call \in [Runs -> [Consumers -> CallRecord]]
  BY DEF Typed, DataTyped
<1>2. call[r][c].want \in 0 .. Lease
  BY <1>1, DeliveryConstants DEF CallRenewed, CallRecord, Idle
<1>3. PICK entry \in InboxEntry : entry = [inbox[c] EXCEPT !.ttl = call[r][c].want]
  BY <1>1, <1>2 DEF InboxEntry
<1>4. inbox' = IF renewed THEN [inbox EXCEPT ![c] = entry] ELSE inbox
  BY <1>1, <1>3 DEF CallRenewed, InboxEntry
<1>5. PICK one \in CallRecord : one = [call[r][c] EXCEPT !.want = Idle, !.bad = @ \/ ~renewed]
  BY <1>1, Ends DEF CallRecord
<1>6. PICK row \in [Consumers -> CallRecord] : row = [call[r] EXCEPT ![c] = one]
  BY <1>1
<1>7. call' = [call EXCEPT ![r] = row]
  BY <1>1, <1>5, <1>6 DEF CallRenewed, CallRecord
<1>8. PICK new \in RunRecord : new = [run[r] EXCEPT !.aborted = @ \/ ~renewed]
  BY <1>1 DEF RunRecord
<1>9. run' = [run EXCEPT ![r] = new]
  BY <1>1, <1>8 DEF CallRenewed, RunRecord
<1>10. one.phase = call[r][c].phase /\ one.lag = call[r][c].lag /\ one.want = Idle
  BY <1>1, <1>5 DEF CallRecord
<1>11. entry.state = inbox[c].state /\ entry.owner = inbox[c].owner /\ entry.ttl = call[r][c].want
  BY <1>1, <1>3 DEF InboxEntry
<1>12. /\ new.phase = run[r].phase /\ new.mgr = run[r].mgr /\ new.attempts = run[r].attempts
       /\ new.lag = run[r].lag /\ new.want = run[r].want
       /\ run[r].aborted => new.aborted
       /\ ~renewed => new.aborted
  BY <1>1, <1>8 DEF RunRecord
<1>13. /\ inbox' \in [Consumers -> InboxEntry] /\ run' \in [Runs -> RunRecord]
       /\ call' \in [Runs -> [Consumers -> CallRecord]]
  BY <1>1, <1>4, <1>7, <1>9
<1>14. \A d \in Consumers : /\ inbox'[d].state = inbox[d].state
                            /\ inbox'[d].owner = inbox[d].owner
                            /\ d # c => inbox'[d] = inbox[d]
  BY <1>1, <1>4, <1>11
<1>15. /\ inbox[c].owner = r => inbox'[c].ttl = call[r][c].want
       /\ inbox[c].owner # r => inbox'[c] = inbox[c] /\ run'[r].aborted
  BY <1>1, <1>4, <1>9, <1>11, <1>12
<1>16. \A q \in Runs :
         /\ run'[q].phase = run[q].phase /\ run'[q].mgr = run[q].mgr
         /\ run'[q].attempts = run[q].attempts
         /\ run'[q].lag = run[q].lag /\ run'[q].want = run[q].want
         /\ run[q].aborted => run'[q].aborted
  BY <1>1, <1>9, <1>12
<1>17. \A q \in Runs, d \in Consumers :
         /\ q # r \/ d # c => call'[q][d] = call[q][d]
         /\ call'[q][d].phase = call[q][d].phase /\ call'[q][d].lag = call[q][d].lag
  BY <1>1, <1>6, <1>7, <1>10
<1>18. call'[r][c].want = Idle
  BY <1>1, <1>6, <1>7, <1>10
<1> QED BY <1>13, <1>14, <1>15, <1>16, <1>17, <1>18

\* The steps of a call keep the types.
LEMMA CallTypes ==
  ASSUME Typed, NEW r \in Runs, NEW c \in Consumers,
         \/ CallStep(r, c) \/ HandlerEnds(r, c) \/ CallRenewed(r, c) \/ InboxCompleteFails(r, c)
  PROVE  Typed'
<1>0. DataTyped /\ inbox[c] \in InboxEntry
  BY DEF Typed, DataTyped
<1>1. CASE TakeSlot(r, c)
  <2>1. PICK p \in CallPhase : CallTo(r, c, p)
    BY <1>1 DEF TakeSlot, CallPhase
  <2>2. call' \in [Runs -> [Consumers -> CallRecord]]
    BY <1>0, <2>1, CallToForm
  <2> QED BY <1>0, <1>1, <2>2 DEF TakeSlot, DataTyped, Typed
<1>2. CASE InboxClaim(r, c)
  <2>1. PICK p \in CallPhase : CallTo(r, c, p)
    BY <1>2 DEF InboxClaim, CallPhase
  <2>2. call' \in [Runs -> [Consumers -> CallRecord]]
    BY <1>0, <2>1, CallToForm
  <2>3. [state |-> "claimed", owner |-> r, ttl |-> Lease] \in InboxEntry
    BY Ends DEF InboxEntry
  <2>4. inbox' \in [Consumers -> InboxEntry]
    BY <1>0, <1>2, <2>3 DEF InboxClaim, DataTyped
  <2> QED BY <1>0, <1>2, <2>2, <2>4 DEF InboxClaim, DataTyped, Typed
<1>3. CASE BusyAborted(r, c)
  <2>1. PICK p \in CallPhase : CallTo(r, c, p)
    BY <1>3 DEF BusyAborted, CallPhase
  <2>2. call' \in [Runs -> [Consumers -> CallRecord]]
    BY <1>0, <2>1, CallToForm
  <2> QED BY <1>0, <1>3, <2>2 DEF BusyAborted, DataTyped, Typed
<1>4. CASE InboxAnswered(r, c)
  <2>1. PICK p \in CallPhase : CallTo(r, c, p)
    BY <1>4 DEF InboxAnswered, CallPhase
  <2>2. call' \in [Runs -> [Consumers -> CallRecord]]
    BY <1>0, <2>1, CallToForm
  <2> QED BY <1>0, <1>4, <2>2 DEF InboxAnswered, DataTyped, Typed
<1>5. CASE InboxComplete(r, c)
  <2>1. PICK p \in CallPhase : CallTo(r, c, p)
    BY <1>5 DEF InboxComplete, CallPhase
  <2>2. call' \in [Runs -> [Consumers -> CallRecord]]
    BY <1>0, <2>1, CallToForm
  <2>3. inbox' \in [Consumers -> InboxEntry]
    BY <1>0, <1>5, Blank DEF InboxComplete, DataTyped
  <2> QED BY <1>0, <1>5, <2>2, <2>3 DEF InboxComplete, DataTyped, Typed
<1>6. CASE InboxRelease(r, c)
  <2>1. CallTo(r, c, "failed") /\ "failed" \in CallPhase
    BY <1>6 DEF InboxRelease, CallPhase
  <2>2. call' \in [Runs -> [Consumers -> CallRecord]]
    BY <1>0, <2>1, CallToForm
  <2>3. inbox' \in [Consumers -> InboxEntry]
    BY <1>0, <1>6, Blank DEF InboxRelease, DataTyped
  <2> QED BY <1>0, <1>6, <2>2, <2>3 DEF InboxRelease, DataTyped, Typed
<1>7. CASE HandlerEnds(r, c)
  <2>1. PICK p \in CallPhase : CallTo(r, c, p)
    BY <1>7 DEF HandlerEnds, CallPhase
  <2>2. call' \in [Runs -> [Consumers -> CallRecord]]
    BY <1>0, <2>1, CallToForm
  <2> QED BY <1>0, <1>7, <2>2 DEF HandlerEnds, DataTyped, Typed
<1>8. CASE InboxCompleteFails(r, c)
  <2>1. CallTo(r, c, "releasing") /\ "releasing" \in CallPhase
    BY <1>8 DEF InboxCompleteFails, CallPhase
  <2>2. call' \in [Runs -> [Consumers -> CallRecord]]
    BY <1>0, <2>1, CallToForm
  <2>3. inbox' \in [Consumers -> InboxEntry]
    BY <1>0, <1>8, Blank DEF InboxCompleteFails, DataTyped
  <2>4. faults' \in 0 .. MaxFaults
    BY <1>8, FaultForm DEF InboxCompleteFails
  <2> QED BY <1>0, <1>8, <2>2, <2>3, <2>4 DEF InboxCompleteFails, DataTyped, Typed
<1>9. CASE CallRenewed(r, c)
  <2>1. /\ inbox' \in [Consumers -> InboxEntry] /\ run' \in [Runs -> RunRecord]
        /\ call' \in [Runs -> [Consumers -> CallRecord]]
    BY <1>9, CallRenewedForm
  <2> QED BY <1>0, <1>9, <2>1 DEF CallRenewed, DataTyped, Typed
<1> QED BY <1>1, <1>2, <1>3, <1>4, <1>5, <1>6, <1>7, <1>8, <1>9 DEF CallStep
\* What a tick leaves of leases, claims and renewals.
LEMMA TickForm ==
  ASSUME Typed, Tick
  PROVE  /\ DataTyped'
         /\ /\ record'.status = record.status /\ record'.attempts = record.attempts
            /\ record'.owner = record.owner /\ record'.ttl = Left(record.ttl)
         /\ \A c \in Consumers : /\ inbox'[c].state = inbox[c].state
                                 /\ inbox'[c].owner = inbox[c].owner
                                 /\ inbox'[c].ttl = Left(inbox[c].ttl)
         /\ \A r \in Runs :
              /\ run'[r].mgr = run[r].mgr /\ run'[r].attempts = run[r].attempts
              /\ run'[r].phase = run[r].phase
              /\ run'[r].lag = IF run[r].phase = "claimed" THEN run[r].lag + 1 ELSE 0
              /\ run'[r].want = NextWant(run[r].want, Renewing(r) /\ ~run[r].aborted)
              /\ run[r].bad => run'[r].bad
              /\ ~run'[r].aborted => ~run[r].aborted /\ ~Late(run[r].want)
              /\ \A c \in Consumers : ~run'[r].aborted => ~Late(call[r][c].want)
         /\ \A r \in Runs, c \in Consumers :
              /\ call'[r][c].phase = call[r][c].phase
              /\ call'[r][c].lag = IF call[r][c].phase = "claimed" THEN call[r][c].lag + 1 ELSE 0
              /\ call'[r][c].want = NextWant(call[r][c].want, CallRenewing(r, c) /\ ~run[r].aborted)
<1>1. /\ record \in OutboxRecord /\ inbox \in [Consumers -> InboxEntry]
      /\ run \in [Runs -> RunRecord] /\ call \in [Runs -> [Consumers -> CallRecord]]
  BY DEF Typed, DataTyped
<1>2. /\ record' \in OutboxRecord
      /\ record'.status = record.status /\ record'.attempts = record.attempts
      /\ record'.owner = record.owner /\ record'.ttl = Left(record.ttl)
  BY <1>1, TimeForm DEF Tick, OutboxRecord
<1>3. \A c \in Consumers :
        /\ [inbox[c] EXCEPT !.ttl = Left(@)] \in InboxEntry
        /\ inbox'[c] = [inbox[c] EXCEPT !.ttl = Left(@)]
  BY <1>1, TimeForm DEF Tick, InboxEntry
<1>4. inbox' \in [Consumers -> InboxEntry]
  BY <1>1, <1>3, TimeForm DEF Tick, InboxEntry
<1>5. \A c \in Consumers : /\ inbox'[c].state = inbox[c].state /\ inbox'[c].owner = inbox[c].owner
                           /\ inbox'[c].ttl = Left(inbox[c].ttl)
  BY <1>1, <1>3 DEF InboxEntry
<1>6. \A r \in Runs :
        /\ run'[r] \in RunRecord
        /\ run'[r].mgr = run[r].mgr /\ run'[r].attempts = run[r].attempts
        /\ run'[r].phase = run[r].phase
        /\ run'[r].lag = IF run[r].phase = "claimed" THEN run[r].lag + 1 ELSE 0
        /\ run'[r].want = NextWant(run[r].want, Renewing(r) /\ ~run[r].aborted)
        /\ run[r].bad => run'[r].bad
        /\ ~run'[r].aborted => ~run[r].aborted /\ ~Late(run[r].want)
        /\ \A c \in Consumers : ~run'[r].aborted => ~Late(call[r][c].want)
  <2> TAKE r \in Runs
  <2>1. run[r] \in RunRecord
    BY <1>1
  <2>2. PICK lag \in 0 .. ClaimLag : lag = IF run[r].phase = "claimed" THEN run[r].lag + 1 ELSE 0
    <3>1. run[r].lag \in 0 .. ClaimLag /\ (run[r].phase = "claimed" => run[r].lag < ClaimLag)
      BY <2>1 DEF RunRecord, Tick
    <3> QED BY <3>1, DeliveryConstants
  <2>3. PICK want \in Idle .. Lease : want = NextWant(run[r].want, Renewing(r) /\ ~run[r].aborted)
    BY <2>1, TimeForm DEF RunRecord
  <2>4. PICK bad \in BOOLEAN : bad = (run[r].bad \/ r \in LateOnes)
    OBVIOUS
  <2>5. PICK aborted \in BOOLEAN :
           aborted = (run[r].aborted \/ r \in LateOnes \/ \E c \in Consumers : <<r, c>> \in LateCalls)
    OBVIOUS
  <2>6. run'[r] = [run[r] EXCEPT !.lag = lag, !.want = want, !.bad = bad, !.aborted = aborted]
    BY <2>2, <2>3, <2>4, <2>5 DEF Tick
  <2>7. /\ run'[r] \in RunRecord
        /\ run'[r].mgr = run[r].mgr /\ run'[r].attempts = run[r].attempts
        /\ run'[r].phase = run[r].phase
        /\ run'[r].lag = lag /\ run'[r].want = want /\ run'[r].bad = bad
        /\ run'[r].aborted = aborted
    BY <2>1, <2>6 DEF RunRecord
  <2>8. Late(run[r].want) => r \in LateOnes
    BY DEF LateOnes
  <2>9. \A c \in Consumers : Late(call[r][c].want) => <<r, c>> \in LateCalls
    BY DEF LateCalls
  <2> QED BY <2>2, <2>3, <2>4, <2>5, <2>7, <2>8, <2>9
<1>7. \A r \in Runs, c \in Consumers :
        /\ call'[r][c] \in CallRecord
        /\ call'[r][c].phase = call[r][c].phase
        /\ call'[r][c].lag = IF call[r][c].phase = "claimed" THEN call[r][c].lag + 1 ELSE 0
        /\ call'[r][c].want = NextWant(call[r][c].want, CallRenewing(r, c) /\ ~run[r].aborted)
  <2> TAKE r \in Runs, c \in Consumers
  <2>1. call[r][c] \in CallRecord
    BY <1>1
  <2>2. PICK lag \in 0 .. ClaimLag :
           lag = IF call[r][c].phase = "claimed" THEN call[r][c].lag + 1 ELSE 0
    <3>1. call[r][c].lag \in 0 .. ClaimLag /\ (call[r][c].phase = "claimed" => call[r][c].lag < ClaimLag)
      BY <2>1 DEF CallRecord, Tick
    <3> QED BY <3>1, DeliveryConstants
  <2>3. PICK want \in Idle .. Lease :
           want = NextWant(call[r][c].want, CallRenewing(r, c) /\ ~run[r].aborted)
    BY <2>1, TimeForm DEF CallRecord
  <2>4. PICK bad \in BOOLEAN : bad = (call[r][c].bad \/ <<r, c>> \in LateCalls)
    OBVIOUS
  <2>5. call'[r][c] = [call[r][c] EXCEPT !.lag = lag, !.want = want, !.bad = bad]
    BY <2>2, <2>3, <2>4 DEF Tick
  <2> QED BY <2>1, <2>2, <2>3, <2>5 DEF CallRecord
<1>8. run' \in [Runs -> RunRecord] /\ call' \in [Runs -> [Consumers -> CallRecord]]
  <2>1. \A r \in Runs : run'[r] \in RunRecord /\ call'[r] \in [Consumers -> CallRecord]
    BY <1>6, <1>7 DEF Tick
  <2>2. run' = [r \in Runs |-> run'[r]] /\ call' = [r \in Runs |-> call'[r]]
    BY DEF Tick
  <2> QED BY <2>1, <2>2
<1>9. DataTyped'
  BY <1>2, <1>4, <1>8 DEF Typed, DataTyped, Tick
<1> QED BY <1>2, <1>5, <1>6, <1>7, <1>9
\* The answer to a renewal of a run's lease: the run goes on, aborted if it does not hold the
\* lease, or is gone if it had ended.
LEMMA RunRenewedForm ==
  ASSUME Typed, NEW r \in Runs, RunRenewed(r)
  PROVE  /\ record' \in OutboxRecord /\ run' \in [Runs -> RunRecord]
         /\ /\ record'.status = record.status /\ record'.attempts = record.attempts
            /\ record'.owner = record.owner
         /\ HoldsLease(r) => record'.ttl = run[r].want
         /\ ~HoldsLease(r) => record' = record
         /\ \A q \in Runs \ {r} : run'[q] = run[q]
         /\ IF run[r].phase = "ended" THEN run'[r] = Free
            ELSE /\ run'[r].mgr = run[r].mgr /\ run'[r].attempts = run[r].attempts
                 /\ run'[r].phase = run[r].phase /\ run'[r].lag = run[r].lag
                 /\ run'[r].want = Idle
                 /\ ~run'[r].aborted => ~run[r].aborted /\ HoldsLease(r)
<1>1. record \in OutboxRecord /\ run \in [Runs -> RunRecord] /\ run[r] \in RunRecord
  BY DEF Typed, DataTyped
<1>2. run[r].want \in 0 .. Lease
  BY <1>1, DeliveryConstants DEF RunRenewed, RunRecord, Idle
<1>3. PICK new \in OutboxRecord : new = [record EXCEPT !.ttl = run[r].want]
  BY <1>1, <1>2 DEF OutboxRecord
<1>4. /\ new.status = record.status /\ new.attempts = record.attempts
      /\ new.owner = record.owner /\ new.ttl = run[r].want
  BY <1>1, <1>3 DEF OutboxRecord
<1>5. record' = IF HoldsLease(r) THEN new ELSE record
  BY <1>3 DEF RunRenewed
<1>6. PICK lost \in BOOLEAN : lost = ~HoldsLease(r)
  OBVIOUS
<1>7. PICK on \in RunRecord :
        on = [run[r] EXCEPT !.want = Idle, !.bad = @ \/ lost, !.aborted = @ \/ lost]
  BY <1>1, Ends DEF RunRecord
<1>8. /\ on.mgr = run[r].mgr /\ on.attempts = run[r].attempts /\ on.phase = run[r].phase
      /\ on.lag = run[r].lag /\ on.want = Idle
      /\ ~on.aborted => ~run[r].aborted /\ ~lost
  BY <1>1, <1>7 DEF RunRecord
<1>9. AfterRenewal(r) = IF run[r].phase = "ended" THEN Free ELSE on
  BY <1>6, <1>7 DEF AfterRenewal
<1>10. /\ run' \in [Runs -> RunRecord] /\ run'[r] = AfterRenewal(r)
       /\ \A q \in Runs \ {r} : run'[q] = run[q]
  BY <1>1, <1>9, Blank DEF RunRenewed
<1> QED BY <1>1, <1>3, <1>4, <1>5, <1>6, <1>8, <1>9, <1>10

\* The steps of a run keep the types.
LEMMA RunTypes ==
  ASSUME Typed, NEW r \in Runs,
         \/ RunStep(r) \/ DeliveryEnds(r) \/ RunRenewed(r)
         \/ ClaimLost(r) \/ DeliveryTimeout(r) \/ SettleFails(r)
  PROVE  Typed'
<1>0. DataTyped /\ run[r] \in RunRecord
  BY DEF Typed, DataTyped
<1>1. CASE ClaimAnswered(r)
  <2>1. [run[r] EXCEPT !.phase = "consuming", !.lag = 0] \in RunRecord
    BY <1>0, Ends DEF RunRecord, RunPhase
  <2>2. run' \in [Runs -> RunRecord]
    BY <1>0, <1>1, <2>1 DEF ClaimAnswered, DataTyped, RunRecord
  <2>3. [NoCall EXCEPT !.phase = "slot"] \in CallRecord
    BY Blank DEF CallRecord, CallPhase
  <2>4. call' \in [Runs -> [Consumers -> CallRecord]]
    BY <1>0, <1>1, <2>3 DEF ClaimAnswered, DataTyped
  <2> QED BY <1>0, <1>1, <2>2, <2>4 DEF ClaimAnswered, DataTyped, Typed
<1>2. CASE ConsumersSettle(r)
  <2>1. PICK p \in RunPhase : RunTo(r, p)
    BY <1>2 DEF ConsumersSettle, RunPhase
  <2>2. run' \in [Runs -> RunRecord]
    BY <1>0, <2>1, RunToForm
  <2> QED BY <1>0, <1>2, <2>2 DEF ConsumersSettle, DataTyped, Typed
<1>3. CASE Complete(r)
  <2>1. Unleased("dispatched") \in OutboxRecord
    BY <1>0, UnleasedForm
  <2>2. CASE End(r) /\ record' = Unleased("dispatched")
    <3>1. run' \in [Runs -> RunRecord] /\ call' \in [Runs -> [Consumers -> CallRecord]]
      BY <1>0, <2>2, EndForm
    <3> QED BY <1>0, <1>3, <2>1, <2>2, <3>1 DEF Complete, DataTyped, Typed
  <2>3. CASE RunTo(r, "failing") /\ UNCHANGED <<record, call>>
    <3>1. run' \in [Runs -> RunRecord]
      BY <1>0, <2>3, RunToForm DEF RunPhase
    <3> QED BY <1>0, <1>3, <2>3, <3>1 DEF Complete, DataTyped, Typed
  <2> QED BY <1>3, <2>2, <2>3 DEF Complete
<1>4. CASE Reject(r)
  <2>1. Unleased(Outcome(r)) \in OutboxRecord
    BY <1>0, UnleasedForm DEF Outcome
  <2>2. run' \in [Runs -> RunRecord] /\ call' \in [Runs -> [Consumers -> CallRecord]]
    BY <1>0, <1>4, EndForm DEF Reject
  <2> QED BY <1>0, <1>4, <2>1, <2>2 DEF Reject, DataTyped, Typed
<1>5. CASE DeliveryEnds(r)
  <2>1. PICK p \in RunPhase : RunTo(r, p)
    BY <1>5 DEF DeliveryEnds, RunPhase
  <2>2. run' \in [Runs -> RunRecord]
    BY <1>0, <2>1, RunToForm
  <2> QED BY <1>0, <1>5, <2>2 DEF DeliveryEnds, DataTyped, Typed
<1>6. CASE RunRenewed(r)
  <2>1. record' \in OutboxRecord /\ run' \in [Runs -> RunRecord]
    BY <1>6, RunRenewedForm
  <2> QED BY <1>0, <1>6, <2>1 DEF RunRenewed, DataTyped, Typed
<1>7. CASE ClaimLost(r)
  <2>1. run' \in [Runs -> RunRecord] /\ faults' \in 0 .. MaxFaults
    BY <1>0, <1>7, Blank, FaultForm DEF ClaimLost, DataTyped
  <2> QED BY <1>0, <1>7, <2>1 DEF ClaimLost, DataTyped, Typed
<1>8. CASE DeliveryTimeout(r)
  <2>1. [run[r] EXCEPT !.aborted = TRUE] \in RunRecord
    BY <1>0 DEF RunRecord
  <2>2. run' \in [Runs -> RunRecord] /\ faults' \in 0 .. MaxFaults
    BY <1>0, <1>8, <2>1, FaultForm DEF DeliveryTimeout, DataTyped
  <2> QED BY <1>0, <1>8, <2>2 DEF DeliveryTimeout, DataTyped, Typed
<1>9. CASE SettleFails(r)
  <2>1. faults' \in 0 .. MaxFaults
    BY <1>9, FaultForm DEF SettleFails
  <2>2. Unleased(Outcome(r)) \in OutboxRecord /\ Unleased("dispatched") \in OutboxRecord
    BY <1>0, UnleasedForm DEF Outcome
  <2>3. record' \in OutboxRecord
    BY <1>0, <1>9, <2>2 DEF SettleFails, DataTyped
  <2>4. run' \in [Runs -> RunRecord] /\ call' \in [Runs -> [Consumers -> CallRecord]]
    <3>1. CASE RunTo(r, "failing") /\ UNCHANGED call
      BY <1>0, <3>1, RunToForm DEF DataTyped, RunPhase
    <3>2. CASE End(r)
      BY <1>0, <3>2, EndForm
    <3> QED BY <1>9, <3>1, <3>2 DEF SettleFails
  <2> QED BY <1>0, <1>9, <2>1, <2>3, <2>4 DEF SettleFails, DataTyped, Typed
<1> QED BY <1>1, <1>2, <1>3, <1>4, <1>5, <1>6, <1>7, <1>8, <1>9 DEF RunStep

\* A claim takes a free run for the manager, with a generation of its own.
LEMMA ClaimForm ==
  ASSUME Typed, NEW m \in Managers, Claim(m)
  PROVE  \E r \in Runs :
           /\ run[r].phase = "free" /\ ClaimDue(m, r)
           /\ record' \in OutboxRecord /\ run' \in [Runs -> RunRecord]
           /\ /\ record'.status = "dispatching" /\ record'.attempts = record.attempts + 1
              /\ record'.owner = m /\ record'.ttl = Lease
           /\ \A q \in Runs \ {r} : run'[q] = run[q]
           /\ /\ run'[r].mgr = m /\ run'[r].attempts = record.attempts + 1
              /\ run'[r].phase = "claimed" /\ run'[r].lag = 0 /\ run'[r].want = Idle
<1>1. PICK r \in Runs : run[r].phase = "free" /\ ClaimDue(m, r)
  BY DEF Claim
<1>2. record \in OutboxRecord /\ run \in [Runs -> RunRecord]
  BY DEF Typed, DataTyped
<1>3. PICK next \in Nat : next = record.attempts + 1
  BY <1>2 DEF OutboxRecord
<1>4. PICK new \in OutboxRecord :
        new = [status |-> "dispatching", attempts |-> next, owner |-> m, ttl |-> Lease]
  BY Ends DEF OutboxRecord
<1>5. PICK taken \in RunRecord :
        taken = [Free EXCEPT !.mgr = m, !.phase = "claimed", !.attempts = next]
  BY Blank DEF RunRecord, RunPhase
<1>6. /\ taken.mgr = m /\ taken.attempts = next
      /\ taken.phase = "claimed" /\ taken.lag = 0 /\ taken.want = Idle
  BY <1>5 DEF Free
<1>7. record' = new /\ run' = [run EXCEPT ![r] = taken]
  BY <1>1, <1>3, <1>4, <1>5 DEF ClaimDue
<1> QED BY <1>1, <1>2, <1>3, <1>4, <1>6, <1>7
\* The steps of the managers, the administrator and the record itself keep the types.
LEMMA OtherTypes ==
  ASSUME Typed,
         \/ Publish \/ Tick \/ Expire \/ PurgeExpired \/ Administration
         \/ \E m \in Managers : Claim(m) \/ Shutdown(m) \/ Close(m) \/ Crash(m)
  PROVE  Typed'
<1>0. DataTyped /\ NoInbox \in [Consumers -> InboxEntry]
  BY Blank DEF Typed, NoInbox
<1>1. CASE Publish
  BY <1>0, <1>1 DEF Publish, DataTyped, Typed, OutboxRecord
<1>2. CASE Tick
  <2>1. faults' \in 0 .. MaxFaults
    <3>1. MaxFaults \in Nat /\ faults \in 0 .. MaxFaults
      BY DeliveryConstants DEF Typed
    <3>2. /\ faults' = faults + Cardinality(LateOnes) + Cardinality(LateCalls)
                            + Cardinality(SlowOnes) + Cardinality(SlowCalls)
          /\ faults' <= MaxFaults
      BY <1>2 DEF Tick
    <3> QED BY <3>1, <3>2, FaultsCounted
  <2> QED BY <1>2, <2>1, TickForm DEF Tick, Typed
<1>3. CASE Expire
  BY <1>0, <1>3 DEF Expire, DataTyped, Typed
<1>4. CASE PurgeExpired
  BY <1>0, <1>4, UnleasedForm DEF PurgeExpired, DataTyped, Typed
<1>5. CASE Replay
  <2>1. Unleased("queued") \in OutboxRecord
    BY <1>0, UnleasedForm
  <2>2. record' \in OutboxRecord
    BY <1>5, <2>1 DEF Replay, OutboxRecord
  <2>3. admin' \in 0 .. MaxAdmin
    BY <1>5, DeliveryConstants DEF Replay, Again, Typed
  <2> QED BY <1>0, <1>5, <2>2, <2>3 DEF Replay, DataTyped, Typed
<1>6. CASE RetryDeadLetter
  <2>1. admin' \in 0 .. MaxAdmin
    BY <1>6, DeliveryConstants DEF RetryDeadLetter, Again, Typed
  <2> QED BY <1>0, <1>6, <2>1 DEF RetryDeadLetter, DataTyped, Typed, OutboxRecord
<1>7. CASE CancelScheduled
  BY <1>0, <1>7 DEF CancelScheduled, DataTyped, Typed, OutboxRecord
<1>8. CASE \E m \in Managers : Claim(m)
  <2>1. PICK m \in Managers : Claim(m)
    BY <1>8
  <2>2. PICK r \in Runs : ClaimDue(m, r) /\ record' \in OutboxRecord /\ run' \in [Runs -> RunRecord]
    BY <2>1, ClaimForm
  <2> QED BY <1>0, <2>2 DEF ClaimDue, DataTyped, Typed
<1>9. CASE \E m \in Managers : Shutdown(m)
  <2>1. PICK m \in Managers : Shutdown(m)
    BY <1>9
  <2>2. run' \in [Runs -> RunRecord]
    <3>1. \A r \in Runs : [run[r] EXCEPT !.aborted = TRUE] \in RunRecord
      BY <1>0 DEF DataTyped, RunRecord
    <3> QED BY <1>0, <2>1, <3>1 DEF Shutdown, DataTyped
  <2> QED BY <1>0, <2>1, <2>2 DEF Shutdown, DataTyped, Typed
<1>10. CASE \E m \in Managers : Close(m)
  BY <1>0, <1>10 DEF Close, DataTyped, Typed
<1>11. CASE \E m \in Managers : Crash(m)
  <2>1. PICK m \in Managers : Crash(m)
    BY <1>11
  <2>2. run' \in [Runs -> RunRecord] /\ call' \in [Runs -> [Consumers -> CallRecord]]
    BY <1>0, <2>1, Blank DEF Crash, DataTyped
  <2>3. faults' \in 0 .. MaxFaults
    BY <2>1, FaultForm DEF Crash
  <2> QED BY <1>0, <2>1, <2>2, <2>3 DEF Crash, DataTyped, Typed
<1> QED BY <1>1, <1>2, <1>3, <1>4, <1>5, <1>6, <1>7, <1>8, <1>9, <1>10, <1>11 DEF Administration

\* The type invariant.
LEMMA TypeStep == Typed /\ [Next]_vars => Typed'
<1> SUFFICES ASSUME Typed, [Next]_vars PROVE Typed'
  OBVIOUS
<1>1. CASE UNCHANGED vars
  BY <1>1 DEF vars, Typed, DataTyped
<1>2. CASE Next
  BY <1>2, CallTypes, RunTypes, OtherTypes DEF Next, Failure
<1> QED BY <1>1, <1>2

\* The state every variable starts in is typed.
LEMMA TypeInit == Init => Typed
<1> SUFFICES ASSUME Init PROVE Typed
  OBVIOUS
<1>1. record \in OutboxRecord
  BY Ends DEF Init, OutboxRecord
<1>2. 0 \in 0 .. MaxFaults /\ 0 \in 0 .. MaxAdmin
  BY DeliveryConstants
<1>3. /\ inbox \in [Consumers -> InboxEntry]
      /\ run \in [Runs -> RunRecord] /\ call \in [Runs -> [Consumers -> CallRecord]]
      /\ state \in [Managers -> {"running", "draining", "closed"}]
  BY Blank DEF Init, NoInbox
<1> QED BY <1>1, <1>2, <1>3 DEF Init, Typed, DataTyped

\* Every variable stays in its type (no hypothesis but the constants').
THEOREM DeliveryTyped == Spec => []TypeOK
<1>1. Spec => []Typed
  BY TypeInit, TypeStep, PTL DEF Spec
<1> QED BY <1>1, TypeParts, PTL
--------------------------------------------------------------------------------
(* The fence.                                                              *)

\* A run keeps its manager and its generation until it is free.
RunKept(r) ==
    \/ run'[r] = Free \/ run'[r] = run[r]
    \/ /\ run[r].phase = "free" /\ run'[r].phase = "free"
       /\ run'[r].mgr = run[r].mgr /\ run'[r].want = run[r].want
    \/ /\ run[r].phase # "free" /\ run'[r].phase # "free"
       /\ run'[r].mgr = run[r].mgr /\ run'[r].attempts = run[r].attempts

\* A step that gives out no generation and takes no lease keeps the fence.
LEMMA FenceKept ==
  ASSUME FenceInv, \A r \in Runs : RunKept(r), record'.attempts = record.attempts,
         record'.owner # None => record'.status = "dispatching"
  PROVE  FenceInv'
<1>1. \A r \in Runs : run'[r].phase # "free" =>
         /\ run[r].phase # "free"
         /\ run'[r].mgr = run[r].mgr /\ run'[r].attempts = run[r].attempts
  BY DEF RunKept, Free
<1>2. \A r \in Runs : run'[r].phase = "free" => run'[r].mgr = None /\ run'[r].want = Idle
  BY DEF RunKept, FenceInv, Free
<1> QED BY <1>1, <1>2 DEF FenceInv

\* Ended and free runs are kept.
LEMMA EndKept ==
  ASSUME DataTyped, NEW r \in Runs, End(r), run[r].phase # "free"
  PROVE  \A q \in Runs : RunKept(q)
<1>1. [run[r] EXCEPT !.phase = "ended"] \in RunRecord
  BY DEF DataTyped, RunRecord, RunPhase
<1>2. PICK over \in RunRecord : over = [run[r] EXCEPT !.phase = "ended"]
  BY <1>1
<1>3. /\ over.phase = "ended" /\ over.mgr = run[r].mgr /\ over.attempts = run[r].attempts
  BY <1>2 DEF DataTyped, RunRecord
<1>4. run'[r] \in {Free, over} /\ \A q \in Runs \ {r} : run'[q] = run[q]
  BY <1>2, EndForm
<1> QED BY <1>3, <1>4 DEF RunKept

\* A change of phase keeps the run.
LEMMA RunToKept ==
  ASSUME DataTyped, NEW r \in Runs, NEW p \in RunPhase \ {"free"}, RunTo(r, p),
         run[r].phase # "free"
  PROVE  \A q \in Runs : RunKept(q)
<1>1. run[r] \in RunRecord
  BY DEF DataTyped
<1>2. run'[r] = [run[r] EXCEPT !.phase = p] /\ \A q \in Runs \ {r} : run'[q] = run[q]
  BY RunToForm
<1>3. run'[r].phase = p /\ run'[r].mgr = run[r].mgr /\ run'[r].attempts = run[r].attempts
  BY <1>1, <1>2 DEF RunRecord
<1> QED BY <1>2, <1>3 DEF RunKept

\* The steps of the runs keep the fence.
LEMMA RunFence ==
  ASSUME Typed, FenceInv, NEW r \in Runs,
         \/ RunStep(r) \/ DeliveryEnds(r) \/ RunRenewed(r)
         \/ ClaimLost(r) \/ DeliveryTimeout(r) \/ SettleFails(r)
  PROVE  FenceInv'
<1>0. DataTyped /\ run[r] \in RunRecord /\ run \in [Runs -> RunRecord]
  BY DEF Typed, DataTyped
<1>a. \A s \in {"queued", "dispatched", "failed", "dead", "purged"} :
        Unleased(s).owner = None /\ Unleased(s).attempts = record.attempts
  BY <1>0, UnleasedForm
<1>b. record.owner # None => record.status = "dispatching"
  BY DEF FenceInv
<1>c. Outcome(r) \in {"dead", "failed"}
  BY DEF Outcome
<1>1. CASE ClaimAnswered(r)
  <2>1. \A q \in Runs : RunKept(q)
    BY <1>0, <1>1 DEF ClaimAnswered, RunKept, RunRecord
  <2> QED BY <1>1, <1>b, <2>1, FenceKept DEF ClaimAnswered
<1>2. CASE ConsumersSettle(r)
  <2>1. \E p \in RunPhase \ {"free"} : RunTo(r, p) /\ run[r].phase # "free"
    BY <1>2 DEF ConsumersSettle, MaySettle, RunPhase
  <2> QED BY <1>0, <1>2, <1>b, <2>1, RunToKept, FenceKept DEF ConsumersSettle
<1>3. CASE Complete(r)
  <2>1. run[r].phase # "free" /\ record' \in {record, Unleased("dispatched")}
    BY <1>3 DEF Complete
  <2>2. \A q \in Runs : RunKept(q)
    BY <1>0, <1>3, <2>1, EndKept, RunToKept DEF Complete, RunPhase
  <2> QED BY <1>a, <1>b, <2>1, <2>2, FenceKept
<1>4. CASE Reject(r)
  <2>1. run[r].phase # "free" /\ record' \in {record, Unleased(Outcome(r))} /\ End(r)
    BY <1>4 DEF Reject
  <2>2. \A q \in Runs : RunKept(q)
    BY <1>0, <2>1, EndKept
  <2> QED BY <1>a, <1>b, <1>c, <2>1, <2>2, FenceKept
<1>5. CASE DeliveryEnds(r)
  <2>1. \E p \in RunPhase \ {"free"} : RunTo(r, p) /\ run[r].phase # "free"
    BY <1>5 DEF DeliveryEnds, RunPhase
  <2> QED BY <1>0, <1>5, <1>b, <2>1, RunToKept, FenceKept DEF DeliveryEnds
<1>6. CASE RunRenewed(r)
  <2>1. run[r].phase # "free"
    BY <1>6 DEF RunRenewed, FenceInv
  <2>2. \A q \in Runs : RunKept(q)
    BY <1>6, <2>1, RunRenewedForm DEF RunKept
  <2>3. record'.attempts = record.attempts /\ (record'.owner # None => record'.status = "dispatching")
    BY <1>6, <1>b, RunRenewedForm
  <2> QED BY <2>2, <2>3, FenceKept
<1>7. CASE ClaimLost(r)
  <2>1. \A q \in Runs : RunKept(q)
    BY <1>0, <1>7 DEF ClaimLost, RunKept
  <2> QED BY <1>7, <1>b, <2>1, FenceKept DEF ClaimLost
<1>8. CASE DeliveryTimeout(r)
  <2>1. \A q \in Runs : RunKept(q)
    BY <1>0, <1>8 DEF DeliveryTimeout, RunKept, RunRecord
  <2> QED BY <1>8, <1>b, <2>1, FenceKept DEF DeliveryTimeout
<1>9. CASE SettleFails(r)
  <2>1. /\ run[r].phase # "free"
        /\ record' \in {record, Unleased(Outcome(r)), Unleased("dispatched")}
        /\ End(r) \/ RunTo(r, "failing")
    BY <1>9 DEF SettleFails
  <2>2. \A q \in Runs : RunKept(q)
    BY <1>0, <2>1, EndKept, RunToKept DEF RunPhase
  <2> QED BY <1>a, <1>b, <1>c, <2>1, <2>2, FenceKept
<1> QED BY <1>1, <1>2, <1>3, <1>4, <1>5, <1>6, <1>7, <1>8, <1>9 DEF RunStep

\* A claim gives out the next generation.
LEMMA ClaimFence == ASSUME Typed, FenceInv, NEW m \in Managers, Claim(m) PROVE FenceInv'
<1>1. PICK r \in Runs :
         /\ run[r].phase = "free"
         /\ record'.status = "dispatching" /\ record'.attempts = record.attempts + 1
         /\ \A q \in Runs \ {r} : run'[q] = run[q]
         /\ run'[r].mgr = m /\ run'[r].attempts = record.attempts + 1
         /\ run'[r].phase = "claimed"
  BY ClaimForm
<1>2. /\ record.attempts \in Nat
      /\ \A q \in Runs : run[q].attempts \in Nat
  BY DEF Typed, DataTyped, OutboxRecord, RunRecord
<1>3. \A q \in Runs \ {r} : run[q].phase # "free" => run[q].attempts < record.attempts + 1
  BY <1>2 DEF FenceInv
<1> QED BY <1>1, <1>2, <1>3 DEF FenceInv

\* The steps of a call leave the runs and the record alone, but for an abort.
LEMMA CallFence ==
  ASSUME Typed, FenceInv, NEW r \in Runs, NEW c \in Consumers,
         \/ CallStep(r, c) \/ HandlerEnds(r, c) \/ CallRenewed(r, c) \/ InboxCompleteFails(r, c)
  PROVE  FenceInv'
<1>1. record' = record
  BY DEF CallStep, TakeSlot, InboxClaim, BusyAborted, InboxAnswered, InboxComplete, InboxRelease,
         HandlerEnds, CallRenewed, InboxCompleteFails
<1>2. \A q \in Runs : RunKept(q)
  <2>1. CASE CallRenewed(r, c)
    BY <2>1, CallRenewedForm DEF RunKept
  <2>2. CASE ~CallRenewed(r, c)
    BY <2>2 DEF CallStep, TakeSlot, InboxClaim, BusyAborted, InboxAnswered, InboxComplete,
                InboxRelease, HandlerEnds, InboxCompleteFails, RunKept
  <2> QED BY <2>1, <2>2
<1> QED BY <1>1, <1>2, FenceKept DEF FenceInv

\* Attempts are reset only while no run is in progress, and so the fence always holds.
LEMMA FenceStep ==
  ASSUME QuietAdmin, Typed, FenceInv, [Next]_vars PROVE FenceInv'
<1>0. DataTyped /\ run \in [Runs -> RunRecord]
  BY DEF Typed, DataTyped
<1>b. record.owner # None => record.status = "dispatching"
  BY DEF FenceInv
<1>1. CASE \/ UNCHANGED vars \/ Publish \/ Expire \/ CancelScheduled
           \/ \E m \in Managers : Close(m)
  <2>1. \A r \in Runs : RunKept(r)
    BY <1>1 DEF vars, Publish, Expire, CancelScheduled, Close, RunKept
  <2>2. record'.attempts = record.attempts
    BY <1>0, <1>1 DEF vars, Publish, Expire, CancelScheduled, Close, DataTyped, OutboxRecord
  <2>3. record'.owner # None => record'.status = "dispatching"
    BY <1>0, <1>1, <1>b DEF vars, Publish, Expire, CancelScheduled, Close, DataTyped, OutboxRecord
  <2> QED BY <2>1, <2>2, <2>3, FenceKept
<1>2. CASE Tick
  <2>1. \A r \in Runs : RunKept(r)
    <3>1. \A r \in Runs : run[r].phase = "free" => NextWant(run[r].want, FALSE) = run[r].want
      BY DEF FenceInv, NextWant
    <3>2. \A r \in Runs : run[r].phase = "free" => ~Renewing(r)
      BY DEF Renewing
    <3>3. \A r \in Runs : /\ run'[r].mgr = run[r].mgr /\ run'[r].attempts = run[r].attempts
                          /\ run'[r].phase = run[r].phase
      BY <1>2, TickForm
    <3>4. \A r \in Runs : run'[r].want = NextWant(run[r].want, Renewing(r) /\ ~run[r].aborted)
      BY <1>2, TickForm
    <3>5. \A r \in Runs : run[r].phase = "free" => run'[r].want = run[r].want
      BY <3>1, <3>2, <3>4
    <3> QED BY <3>3, <3>5 DEF RunKept
  <2> QED BY <1>2, <1>b, <2>1, TickForm, FenceKept
<1>3. CASE PurgeExpired
  <2>1. \A r \in Runs : RunKept(r)
    BY <1>3 DEF PurgeExpired, RunKept
  <2> QED BY <1>0, <1>3, <2>1, UnleasedForm, FenceKept DEF PurgeExpired
<1>4. CASE Replay \/ RetryDeadLetter
  <2>1. \A r \in Runs : run'[r].phase = "free" /\ run'[r].mgr = None /\ run'[r].want = Idle
    BY <1>4 DEF Replay, RetryDeadLetter, Again, QuietAdmin, FenceInv
  <2>2. record'.owner = None
    <3>1. record \in OutboxRecord
      BY <1>0 DEF DataTyped
    <3>2. CASE Replay
      <4>1. Unleased("queued").owner = None /\ Unleased("queued") \in OutboxRecord
        BY <1>0, UnleasedForm
      <4> QED BY <3>2, <4>1 DEF Replay, OutboxRecord
    <3>3. CASE RetryDeadLetter
      BY <1>b, <3>1, <3>3 DEF RetryDeadLetter, OutboxRecord
    <3> QED BY <1>4, <3>2, <3>3
  <2> QED BY <2>1, <2>2 DEF FenceInv
<1>5. CASE \E m \in Managers : Claim(m)
  BY <1>5, ClaimFence
<1>6. CASE \E m \in Managers : Shutdown(m)
  <2>1. \A r \in Runs : RunKept(r)
    <3>1. \A r \in Runs : LET told == [run[r] EXCEPT !.aborted = TRUE]
                          IN /\ told.phase = run[r].phase /\ told.mgr = run[r].mgr
                             /\ told.attempts = run[r].attempts /\ told.want = run[r].want
      BY <1>0 DEF RunRecord
    <3>2. \A r \in Runs : run'[r] \in {run[r], [run[r] EXCEPT !.aborted = TRUE]}
      BY <1>6 DEF Shutdown
    <3> QED BY <3>1, <3>2 DEF RunKept
  <2> QED BY <1>6, <1>b, <2>1, FenceKept DEF Shutdown
<1>7. CASE \E m \in Managers : Crash(m)
  <2>1. \A r \in Runs : RunKept(r)
    BY <1>7 DEF Crash, RunKept
  <2> QED BY <1>7, <1>b, <2>1, FenceKept DEF Crash
<1>8. CASE \E r \in Runs : \/ RunStep(r) \/ DeliveryEnds(r) \/ RunRenewed(r)
                           \/ ClaimLost(r) \/ DeliveryTimeout(r) \/ SettleFails(r)
  BY <1>8, RunFence
<1>9. CASE \E r \in Runs, c \in Consumers :
             CallStep(r, c) \/ HandlerEnds(r, c) \/ CallRenewed(r, c) \/ InboxCompleteFails(r, c)
  BY <1>9, CallFence
<1> QED BY <1>1, <1>2, <1>3, <1>4, <1>5, <1>6, <1>7, <1>8, <1>9 DEF Next, Failure, Administration

\* No run is in progress at first, and nothing is leased.
LEMMA FenceInit == Init => FenceInv
BY DEF Init, FenceInv, Free

\* Owner and generation tell the runs in progress apart.
THEOREM FenceIsUnique == ASSUME QuietAdmin PROVE Spec => []UniqueFence
<1>1. Init => Typed /\ FenceInv
  BY TypeInit, FenceInit
<1>2. Typed /\ FenceInv /\ [Next]_vars => (Typed /\ FenceInv)'
  BY QuietAdmin, TypeStep, FenceStep
<1>3. Typed /\ FenceInv => UniqueFence
  <2> SUFFICES ASSUME Typed, FenceInv PROVE UniqueFence
    OBVIOUS
  <2>1. \A r \in Runs : run[r].mgr # None => run[r].phase # "free"
    BY DEF FenceInv
  <2>2. None \notin Managers
    BY DeliveryConstants
  <2>3. \A r \in Runs : run[r].phase # "free" => run[r].mgr # None
    BY <2>2 DEF FenceInv
  <2> QED BY <2>1, <2>3 DEF FenceInv, UniqueFence
<1> QED BY <1>1, <1>2, <1>3, PTL DEF Spec
--------------------------------------------------------------------------------
(* The calls.                                                              *)

\* A call that is neither over nor still to be made belongs to a run that is consuming, and so
\* does one whose renewal is pending.
LEMMA CallingRun ==
  ASSUME DataTyped, CallInv, NEW r \in Runs, NEW c \in Consumers,
         call[r][c].phase \notin {"none", "done", "failed"} \/ call[r][c].want # Idle
  PROVE  run[r].phase = "consuming"
<1>1. run[r].phase \in RunPhase /\ CallFits(r, c)
  BY DEF DataTyped, RunRecord, CallInv
<1> QED BY <1>1 DEF CallFits, Over, RunPhase

\* A call that moves on fits its run, which is consuming and stays so.
LEMMA CallFitsMoved ==
  ASSUME DataTyped, CallInv, NEW r \in Runs, NEW c \in Consumers, NEW p \in CallPhase,
         run' = run, CallTo(r, c, p),
         call[r][c].phase \notin {"none", "done", "failed"},
         p \in {"none", "slot", "inbox", "claimed"} => call[r][c].want = Idle
  PROVE  \A q \in Runs, d \in Consumers : CallFits(q, d)'
<1>1. run[r].phase = "consuming"
  BY CallingRun
<1>2. call'[r][c].phase = p /\ call'[r][c].want = call[r][c].want
  BY CallToForm
<1>3. \A q \in Runs, d \in Consumers : (q # r \/ d # c) => call'[q][d] = call[q][d]
  BY CallToForm
<1> QED BY <1>1, <1>2, <1>3 DEF CallInv, CallFits

\* The calls of a run whose phase is kept still fit when they have not moved.
LEMMA CallFitsKept ==
  ASSUME CallInv,
         \A q \in Runs : run'[q].phase = run[q].phase,
         \A q \in Runs, d \in Consumers :
           /\ call'[q][d].phase = call[q][d].phase
           /\ call[q][d].want = Idle =>
                call'[q][d].want = Idle \/ call[q][d].phase \in {"handling", "completing", "releasing"}
  PROVE  \A q \in Runs, d \in Consumers : CallFits(q, d)'
BY DEF CallInv, CallFits, Over

\* Steps of a call keep the calls fitting their runs.
LEMMA CallFitsCalls ==
  ASSUME Typed, CallInv, NEW r \in Runs, NEW c \in Consumers,
         \/ CallStep(r, c) \/ HandlerEnds(r, c) \/ CallRenewed(r, c) \/ InboxCompleteFails(r, c)
  PROVE  \A q \in Runs, d \in Consumers : CallFits(q, d)'
<1>0. DataTyped
  BY DEF Typed
<1>1. CASE CallRenewed(r, c)
  <2>1. \A q \in Runs : run'[q].phase = run[q].phase
    BY <1>1, CallRenewedForm
  <2>2. \A q \in Runs, d \in Consumers :
           /\ call'[q][d].phase = call[q][d].phase
           /\ call[q][d].want = Idle => call'[q][d].want = Idle
    BY <1>1, CallRenewedForm
  <2> QED BY <2>1, <2>2, CallFitsKept
<1>2. CASE ~CallRenewed(r, c)
  <2>1. PICK p \in CallPhase :
           /\ run' = run /\ CallTo(r, c, p)
           /\ call[r][c].phase \notin {"none", "done", "failed"}
           /\ p \in {"none", "slot", "inbox", "claimed"} =>
                call[r][c].phase \in {"none", "slot", "inbox", "claimed"}
    <3>1. CASE TakeSlot(r, c)
      BY <3>1 DEF TakeSlot, CallPhase
    <3>2. CASE InboxClaim(r, c)
      BY <3>2 DEF InboxClaim, CallPhase
    <3>3. CASE BusyAborted(r, c)
      BY <3>3 DEF BusyAborted, CallPhase
    <3>4. CASE InboxAnswered(r, c)
      BY <3>4 DEF InboxAnswered, CallPhase
    <3>5. CASE InboxComplete(r, c)
      BY <3>5 DEF InboxComplete, CallPhase
    <3>6. CASE InboxRelease(r, c)
      BY <3>6 DEF InboxRelease, CallPhase
    <3>7. CASE HandlerEnds(r, c)
      BY <3>7 DEF HandlerEnds, CallPhase
    <3>8. CASE InboxCompleteFails(r, c)
      BY <3>8 DEF InboxCompleteFails, CallPhase
    <3> QED BY <1>2, <3>1, <3>2, <3>3, <3>4, <3>5, <3>6, <3>7, <3>8 DEF CallStep
  <2>2. p \in {"none", "slot", "inbox", "claimed"} => call[r][c].want = Idle
    BY <2>1 DEF CallInv, CallFits
  <2> QED BY <1>0, <2>1, <2>2, CallFitsMoved
<1> QED BY <1>1, <1>2

\* A run that ends makes no calls.
LEMMA CallFitsEnd ==
  ASSUME DataTyped, CallInv, NEW r \in Runs, End(r)
  PROVE  \A q \in Runs, d \in Consumers : CallFits(q, d)'
<1>1. run'[r].phase \in {"free", "ended"}
  <2>1. [run[r] EXCEPT !.phase = "ended"].phase = "ended" /\ Free.phase = "free"
    BY DEF DataTyped, RunRecord, Free
  <2>2. run'[r] = IF run[r].want = Idle THEN Free ELSE [run[r] EXCEPT !.phase = "ended"]
    BY EndForm
  <2> QED BY <2>1, <2>2
<1>2. \A d \in Consumers : call'[r][d] = NoCall
  BY EndForm
<1>3. \A q \in Runs \ {r} : run'[q] = run[q] /\ call'[q] = call[q]
  BY EndForm
<1> QED BY <1>1, <1>2, <1>3 DEF CallInv, CallFits, NoCall

\* A run whose calls are over moves on, to a completion only when they are all done.
LEMMA CallFitsRun ==
  ASSUME DataTyped, CallInv, NEW r \in Runs, NEW p \in {"delivering", "completing", "failing", "dying"},
         RunTo(r, p), call' = call,
         \A d \in Consumers : call[r][d].phase \in Over /\ call[r][d].want = Idle,
         p \in {"delivering", "completing"} => \A d \in Consumers : call[r][d].phase = "done"
  PROVE  \A q \in Runs, d \in Consumers : CallFits(q, d)'
<1>1. p \in RunPhase
  BY DEF RunPhase
<1>2. run'[r].phase = p /\ \A q \in Runs \ {r} : run'[q] = run[q]
  BY <1>1, RunToForm
<1> QED BY <1>2 DEF CallInv, CallFits, Over
\* The steps of the runs keep the calls fitting.
LEMMA CallFitsRuns ==
  ASSUME Typed, FenceInv, CallInv, NEW r \in Runs,
         \/ RunStep(r) \/ DeliveryEnds(r) \/ RunRenewed(r)
         \/ ClaimLost(r) \/ DeliveryTimeout(r) \/ SettleFails(r)
  PROVE  \A q \in Runs, d \in Consumers : CallFits(q, d)'
<1>0. DataTyped /\ run[r] \in RunRecord /\ run \in [Runs -> RunRecord]
  BY DEF Typed, DataTyped
<1>1. CASE ClaimAnswered(r)
  <2>1. /\ run'[r].phase = "consuming"
        /\ \A q \in Runs \ {r} : run'[q] = run[q] /\ call'[q] = call[q]
    BY <1>0, <1>1 DEF ClaimAnswered, DataTyped, RunRecord
  <2>2. \A d \in Consumers : call'[r][d] = [NoCall EXCEPT !.phase = "slot"]
    BY <1>0, <1>1 DEF ClaimAnswered, DataTyped
  <2>3. \A d \in Consumers : call'[r][d].phase = "slot" /\ call'[r][d].want = Idle
    BY <2>2 DEF NoCall
  <2> QED BY <2>1, <2>3 DEF CallInv, CallFits
<1>2. CASE ConsumersSettle(r)
  <2>1. \A d \in Consumers : call[r][d].phase \in Over /\ call[r][d].want = Idle
    BY <1>2 DEF ConsumersSettle, MaySettle, Settled, Over
  <2>2. ~Failed(r) => \A d \in Consumers : call[r][d].phase = "done"
    BY <2>1 DEF Failed, Over
  <2>3. PICK p \in {"delivering", "completing", "failing"} :
           RunTo(r, p) /\ (p # "failing" => ~Failed(r))
    BY <1>2 DEF ConsumersSettle
  <2> QED BY <1>0, <1>2, <2>1, <2>2, <2>3, CallFitsRun DEF ConsumersSettle
<1>3. CASE Complete(r)
  <2>1. CASE End(r)
    BY <1>0, <2>1, CallFitsEnd
  <2>2. CASE RunTo(r, "failing") /\ call' = call
    <3>1. \A d \in Consumers : call[r][d].phase \in Over /\ call[r][d].want = Idle
      BY <1>3 DEF Complete, CallInv, CallFits
    <3> QED BY <1>0, <2>2, <3>1, CallFitsRun
  <2> QED BY <1>3, <2>1, <2>2 DEF Complete
<1>4. CASE Reject(r)
  BY <1>0, <1>4, CallFitsEnd DEF Reject
<1>5. CASE DeliveryEnds(r)
  <2>1. \A d \in Consumers : /\ call[r][d].phase \in Over /\ call[r][d].want = Idle
                             /\ call[r][d].phase = "done"
    BY <1>5 DEF DeliveryEnds, CallInv, CallFits
  <2>2. PICK p \in {"completing", "failing", "dying"} : RunTo(r, p)
    BY <1>5 DEF DeliveryEnds
  <2> QED BY <1>0, <1>5, <2>1, <2>2, CallFitsRun DEF DeliveryEnds
<1>6. CASE RunRenewed(r)
  <2>1. /\ call' = call /\ \A q \in Runs \ {r} : run'[q] = run[q]
        /\ IF run[r].phase = "ended" THEN run'[r] = Free ELSE run'[r].phase = run[r].phase
    BY <1>6, RunRenewedForm DEF RunRenewed
  <2> QED BY <2>1 DEF CallInv, CallFits, Free
<1>7. CASE ClaimLost(r)
  <2>1. call' = call /\ run'[r] = Free /\ \A q \in Runs \ {r} : run'[q] = run[q]
    BY <1>0, <1>7 DEF ClaimLost
  <2> QED BY <1>7, <2>1 DEF ClaimLost, CallInv, CallFits, Free
<1>8. CASE DeliveryTimeout(r)
  <2>1. \A q \in Runs : run'[q].phase = run[q].phase
    BY <1>0, <1>8 DEF DeliveryTimeout, RunRecord
  <2> QED BY <1>8, <2>1, CallFitsKept DEF DeliveryTimeout
<1>9. CASE SettleFails(r)
  <2>1. CASE End(r)
    BY <1>0, <2>1, CallFitsEnd
  <2>2. CASE run[r].phase = "completing" /\ RunTo(r, "failing") /\ call' = call
    <3>1. \A d \in Consumers : call[r][d].phase \in Over /\ call[r][d].want = Idle
      BY <2>2 DEF CallInv, CallFits
    <3> QED BY <1>0, <2>2, <3>1, CallFitsRun
  <2> QED BY <1>9, <2>1, <2>2 DEF SettleFails
<1> QED BY <1>1, <1>2, <1>3, <1>4, <1>5, <1>6, <1>7, <1>8, <1>9 DEF RunStep

\* Every step keeps the calls fitting their runs.
LEMMA CallFitsStep ==
  ASSUME Typed, FenceInv, CallInv, [Next]_vars
  PROVE  \A q \in Runs, d \in Consumers : CallFits(q, d)'
<1>0. DataTyped /\ run \in [Runs -> RunRecord]
  BY DEF Typed, DataTyped
<1>1. CASE \/ UNCHANGED vars \/ Publish \/ Expire \/ PurgeExpired \/ Administration
           \/ \E m \in Managers : Close(m)
  <2>1. run' = run /\ call' = call
    BY <1>1 DEF vars, Publish, Expire, PurgeExpired, Administration, Replay, RetryDeadLetter,
                CancelScheduled, Close
  <2> QED BY <2>1, CallFitsKept
<1>2. CASE Tick
  <2>1. \A q \in Runs : run'[q].phase = run[q].phase
    BY <1>2, TickForm
  <2>2. \A q \in Runs, d \in Consumers :
          /\ call'[q][d].phase = call[q][d].phase
          /\ call'[q][d].want = NextWant(call[q][d].want, CallRenewing(q, d) /\ ~run[q].aborted)
    BY <1>2, TickForm
  <2>3. \A q \in Runs, d \in Consumers :
          call[q][d].want = Idle =>
            call'[q][d].want = Idle \/ call[q][d].phase \in {"handling", "completing", "releasing"}
    BY <2>2 DEF NextWant, CallRenewing
  <2> QED BY <2>1, <2>2, <2>3, CallFitsKept
<1>3. CASE \E m \in Managers : Claim(m)
  <2>1. PICK m \in Managers : Claim(m)
    BY <1>3
  <2>2. PICK r \in Runs :
          /\ run[r].phase = "free" /\ ClaimDue(m, r) /\ run'[r].phase = "claimed"
          /\ \A q \in Runs \ {r} : run'[q] = run[q]
    BY <2>1, ClaimForm
  <2>3. call' = call
    BY <2>2 DEF ClaimDue
  <2> QED BY <2>2, <2>3 DEF CallInv, CallFits
<1>4. CASE \E m \in Managers : Shutdown(m)
  <2>1. \A q \in Runs : run'[q].phase = run[q].phase
    <3>1. \A q \in Runs : [run[q] EXCEPT !.aborted = TRUE].phase = run[q].phase
      BY <1>0 DEF RunRecord
    <3> QED BY <1>4, <3>1 DEF Shutdown
  <2> QED BY <1>4, <2>1, CallFitsKept DEF Shutdown
<1>5. CASE \E m \in Managers : Crash(m)
  <2>1. PICK m \in Managers : Crash(m)
    BY <1>5
  <2>2. \A q \in Runs :
          \/ run'[q] = Free /\ \A d \in Consumers : call'[q][d] = NoCall
          \/ run'[q] = run[q] /\ call'[q] = call[q]
    BY <2>1 DEF Crash
  <2> QED BY <2>2 DEF CallInv, CallFits, Free, NoCall
<1>6. CASE \E r \in Runs : \/ RunStep(r) \/ DeliveryEnds(r) \/ RunRenewed(r)
                           \/ ClaimLost(r) \/ DeliveryTimeout(r) \/ SettleFails(r)
  BY <1>6, CallFitsRuns
<1>7. CASE \E r \in Runs, c \in Consumers :
             CallStep(r, c) \/ HandlerEnds(r, c) \/ CallRenewed(r, c) \/ InboxCompleteFails(r, c)
  BY <1>7, CallFitsCalls
<1> QED BY <1>1, <1>2, <1>3, <1>4, <1>5, <1>6, <1>7 DEF Next, Failure
\* These steps leave the inbox alone.
LEMMA InboxAlone ==
  ASSUME [Next]_vars, ~Tick, ~PurgeExpired, ~Replay,
         \A r \in Runs, c \in Consumers :
           /\ ~InboxClaim(r, c) /\ ~InboxComplete(r, c) /\ ~InboxRelease(r, c)
           /\ ~InboxCompleteFails(r, c) /\ ~CallRenewed(r, c)
  PROVE  inbox' = inbox
<1>1. CASE UNCHANGED vars
  BY <1>1 DEF vars
<1>2. CASE \E r \in Runs, c \in Consumers : CallStep(r, c) \/ HandlerEnds(r, c)
  BY <1>2 DEF CallStep, TakeSlot, BusyAborted, InboxAnswered, HandlerEnds
<1>3. CASE \E r \in Runs : \/ RunStep(r) \/ DeliveryEnds(r) \/ RunRenewed(r)
                           \/ ClaimLost(r) \/ DeliveryTimeout(r) \/ SettleFails(r)
  BY <1>3 DEF RunStep, ClaimAnswered, ConsumersSettle, Complete, Reject, DeliveryEnds,
              RunRenewed, ClaimLost, DeliveryTimeout, SettleFails
<1>4. CASE \E m \in Managers : Claim(m) \/ Shutdown(m) \/ Close(m) \/ Crash(m)
  BY <1>4 DEF Claim, ClaimDue, Shutdown, Close, Crash
<1>5. CASE Publish \/ Expire \/ RetryDeadLetter \/ CancelScheduled
  BY <1>5 DEF Publish, Expire, RetryDeadLetter, CancelScheduled
<1> QED BY <1>1, <1>2, <1>3, <1>4, <1>5 DEF Next, Failure, Administration

\* A completion is forgotten by a replay and by the purge of the event only, and nobody owns
\* a completed entry.
LEMMA CompletionsKept ==
  ASSUME Typed, CompleteIsFinal, [Next]_vars
  PROVE  /\ CompleteIsFinal'
         /\ \A c \in Consumers :
              inbox[c].state = "complete" /\ ~Replay /\ ~PurgeExpired =>
                inbox'[c].state = "complete"
<1>0. inbox \in [Consumers -> InboxEntry] /\ None \notin Runs
  BY DeliveryConstants DEF Typed, DataTyped
<1>a. Completed.state = "complete" /\ Completed.owner = None /\ NoEntry.state = "none"
  BY DEF Completed, NoEntry
<1>1. CASE \E r \in Runs, c \in Consumers : InboxClaim(r, c)
  <2>1. PICK r \in Runs, c \in Consumers : InboxClaim(r, c)
    BY <1>1
  <2>2. \/ inbox' = inbox
        \/ /\ inbox[c].state # "complete" /\ inbox'[c].state = "claimed"
           /\ \A d \in Consumers \ {c} : inbox'[d] = inbox[d]
    BY <1>0, <2>1 DEF InboxClaim, Duplicate
  <2> QED BY <2>2 DEF CompleteIsFinal
<1>2. CASE \E r \in Runs, c \in Consumers : InboxComplete(r, c) \/ InboxCompleteFails(r, c)
  <2>1. PICK c \in Consumers : inbox' \in {inbox, [inbox EXCEPT ![c] = Completed]}
    BY <1>2 DEF InboxComplete, InboxCompleteFails
  <2> QED BY <1>0, <1>a, <2>1 DEF CompleteIsFinal
<1>3. CASE \E r \in Runs, c \in Consumers : InboxRelease(r, c)
  <2>1. PICK r \in Runs, c \in Consumers : InboxRelease(r, c)
    BY <1>3
  <2>2. inbox' = inbox \/ (inbox[c].owner = r /\ inbox' = [inbox EXCEPT ![c] = NoEntry])
    BY <2>1 DEF InboxRelease
  <2>3. inbox[c].owner = r => inbox[c].state # "complete"
    BY <1>0 DEF CompleteIsFinal
  <2> QED BY <1>0, <1>a, <2>2, <2>3 DEF CompleteIsFinal
<1>4. CASE \E r \in Runs, c \in Consumers : CallRenewed(r, c)
  <2>1. \A c \in Consumers : inbox'[c].state = inbox[c].state /\ inbox'[c].owner = inbox[c].owner
    BY <1>4, CallRenewedForm
  <2> QED BY <2>1 DEF CompleteIsFinal
<1>5. CASE Tick
  <2>1. \A c \in Consumers : inbox'[c].state = inbox[c].state /\ inbox'[c].owner = inbox[c].owner
    BY <1>5, TickForm
  <2> QED BY <2>1 DEF CompleteIsFinal
<1>6. CASE Replay \/ PurgeExpired
  <2>1. \A c \in Consumers : inbox'[c] = NoEntry
    BY <1>6 DEF Replay, PurgeExpired, NoInbox
  <2> QED BY <1>6, <1>a, <2>1 DEF CompleteIsFinal
<1>7. CASE inbox' = inbox
  BY <1>7 DEF CompleteIsFinal
<1> QED BY <1>1, <1>2, <1>3, <1>4, <1>5, <1>6, <1>7, InboxAlone

\* These steps leave the calls alone.
LEMMA CallsAlone ==
  ASSUME [Next]_vars, ~Tick,
         \A r \in Runs, c \in Consumers :
           /\ ~CallStep(r, c) /\ ~HandlerEnds(r, c) /\ ~CallRenewed(r, c)
           /\ ~InboxCompleteFails(r, c),
         \A r \in Runs : ~ClaimAnswered(r) /\ ~Complete(r) /\ ~Reject(r) /\ ~SettleFails(r),
         \A m \in Managers : ~Crash(m)
  PROVE  call' = call
<1>1. CASE UNCHANGED vars
  BY <1>1 DEF vars
<1>2. CASE \E r \in Runs : \/ ConsumersSettle(r) \/ DeliveryEnds(r) \/ RunRenewed(r)
                           \/ ClaimLost(r) \/ DeliveryTimeout(r)
  BY <1>2 DEF ConsumersSettle, DeliveryEnds, RunRenewed, ClaimLost, DeliveryTimeout
<1>3. CASE \E m \in Managers : Claim(m) \/ Shutdown(m) \/ Close(m)
  BY <1>3 DEF Claim, ClaimDue, Shutdown, Close
<1>4. CASE Publish \/ Expire \/ PurgeExpired \/ Administration
  BY <1>4 DEF Publish, Expire, PurgeExpired, Administration, Replay, RetryDeadLetter,
              CancelScheduled
<1> QED BY <1>1, <1>2, <1>3, <1>4 DEF Next, Failure, RunStep

\* Where a step leads a call: to where it was, to where its own step leads, or nowhere.
LEMMA CallsMove ==
  ASSUME Typed, [Next]_vars, NEW r \in Runs, NEW c \in Consumers
  PROVE  \/ /\ call'[r][c].phase = call[r][c].phase
            /\ Tick \/ CallRenewed(r, c) \/ call'[r][c] = call[r][c]
         \/ call'[r][c].phase \in {"none", "slot"}
         \/ TakeSlot(r, c) /\ call'[r][c].phase \in {"inbox", "failed"}
         \/ InboxClaim(r, c) /\ call'[r][c].phase = IF Duplicate(c) THEN "done" ELSE "claimed"
         \/ BusyAborted(r, c) /\ call'[r][c].phase = "failed"
         \/ InboxAnswered(r, c) /\ call'[r][c].phase = IF run[r].aborted THEN "releasing" ELSE "handling"
         \/ HandlerEnds(r, c) /\ call'[r][c].phase \in {"completing", "releasing"}
         \/ /\ InboxComplete(r, c)
            /\ \/ call'[r][c].phase = "done" /\ inbox' = [inbox EXCEPT ![c] = Completed]
               \/ call'[r][c].phase = "releasing"
         \/ InboxRelease(r, c) /\ call'[r][c].phase = "failed"
         \/ InboxCompleteFails(r, c) /\ call'[r][c].phase = "releasing"
<1>0. DataTyped
  BY DEF Typed
<1>1. CASE Tick
  BY <1>1, TickForm
<1>2. CASE \E q \in Runs : ClaimAnswered(q)
  <2>1. PICK q \in Runs : ClaimAnswered(q)
    BY <1>2
  <2>2. CASE q = r
    <3>1. call'[r][c] = [NoCall EXCEPT !.phase = "slot"]
      BY <1>0, <2>1, <2>2 DEF ClaimAnswered, DataTyped
    <3> QED BY <3>1 DEF NoCall
  <2>3. CASE q # r
    BY <1>0, <2>1, <2>3 DEF ClaimAnswered, DataTyped
  <2> QED BY <2>2, <2>3
<1>3. CASE \E q \in Runs : Complete(q) \/ Reject(q) \/ SettleFails(q)
  <2>1. PICK q \in Runs : call' = call \/ End(q)
    BY <1>3 DEF Complete, Reject, SettleFails
  <2>2. call'[r] = call[r] \/ call'[r][c] = NoCall
    BY <1>0, <2>1, EndForm
  <2> QED BY <2>2 DEF NoCall
<1>4. CASE \E m \in Managers : Crash(m)
  <2>1. call'[r] = call[r] \/ call'[r][c] = NoCall
    BY <1>4 DEF Crash
  <2> QED BY <2>1 DEF NoCall
<1>5. CASE \E q \in Runs, d \in Consumers : CallRenewed(q, d)
  BY <1>5, CallRenewedForm
<1>6. CASE \E q \in Runs, d \in Consumers :
             CallStep(q, d) \/ HandlerEnds(q, d) \/ InboxCompleteFails(q, d)
  <2>1. PICK q \in Runs, d \in Consumers :
             CallStep(q, d) \/ HandlerEnds(q, d) \/ InboxCompleteFails(q, d)
    BY <1>6
  <2>2. \A p \in CallPhase : CallTo(r, c, p) => call'[r][c].phase = p
    BY <1>0, CallToForm
  <2>3. {"inbox", "failed", "done", "claimed", "releasing", "handling", "completing"} \subseteq CallPhase
    BY DEF CallPhase
  <2>4. CASE r # q \/ c # d
    <3>1. \E p \in CallPhase : CallTo(q, d, p)
      BY <2>1, <2>3 DEF CallStep, TakeSlot, InboxClaim, BusyAborted, InboxAnswered, InboxComplete,
                        InboxRelease, HandlerEnds, InboxCompleteFails
    <3> QED BY <1>0, <2>4, <3>1, CallToForm
  <2>5. CASE r = q /\ c = d
    <3>1. CASE TakeSlot(r, c)
      BY <2>2, <2>3, <2>5, <3>1 DEF TakeSlot
    <3>2. CASE InboxClaim(r, c)
      BY <2>2, <2>3, <2>5, <3>2 DEF InboxClaim
    <3>3. CASE BusyAborted(r, c)
      BY <2>2, <2>3, <2>5, <3>3 DEF BusyAborted
    <3>4. CASE InboxAnswered(r, c)
      BY <2>2, <2>3, <2>5, <3>4 DEF InboxAnswered
    <3>5. CASE InboxComplete(r, c)
      BY <2>2, <2>3, <2>5, <3>5 DEF InboxComplete
    <3>6. CASE InboxRelease(r, c)
      BY <2>2, <2>3, <2>5, <3>6 DEF InboxRelease
    <3>7. CASE HandlerEnds(r, c)
      BY <2>2, <2>3, <2>5, <3>7 DEF HandlerEnds
    <3>8. CASE InboxCompleteFails(r, c)
      BY <2>2, <2>3, <2>5, <3>8 DEF InboxCompleteFails
    <3> QED BY <2>1, <2>5, <3>1, <3>2, <3>3, <3>4, <3>5, <3>6, <3>7, <3>8 DEF CallStep
  <2> QED BY <2>4, <2>5
<1>7. CASE call' = call
  BY <1>7
<1> QED BY <1>1, <1>2, <1>3, <1>4, <1>5, <1>6, <1>7, CallsAlone
\* A purged record stays purged: nobody holds its lease.
LEMMA PurgedForever ==
  ASSUME Typed, FenceInv, [Next]_vars, record.status = "purged"
  PROVE  record'.status = "purged"
<1>0. record \in OutboxRecord
  BY DEF Typed, DataTyped
<1>1. record.owner = None
  BY DEF FenceInv
<1>2. \A r \in Runs : run[r].phase # "free" => ~HoldsLease(r)
  BY <1>1, DeliveryConstants DEF FenceInv, HoldsLease
<1>3. CASE \E r \in Runs : Complete(r) \/ Reject(r) \/ SettleFails(r)
  BY <1>2, <1>3 DEF Complete, Reject, SettleFails
<1>4. CASE \E r \in Runs : RunRenewed(r)
  BY <1>4, RunRenewedForm
<1>5. CASE Tick
  BY <1>5, TickForm
<1>6. CASE \E r \in Runs : ClaimAnswered(r) \/ ConsumersSettle(r) \/ DeliveryEnds(r)
                           \/ ClaimLost(r) \/ DeliveryTimeout(r)
  BY <1>6 DEF ClaimAnswered, ConsumersSettle, DeliveryEnds, ClaimLost, DeliveryTimeout
<1>7. CASE \E m \in Managers : Claim(m) \/ Shutdown(m) \/ Close(m) \/ Crash(m)
  BY <1>7 DEF Claim, ClaimDue, Due, Shutdown, Close, Crash
<1>8. CASE \E r \in Runs, c \in Consumers :
             CallStep(r, c) \/ HandlerEnds(r, c) \/ CallRenewed(r, c) \/ InboxCompleteFails(r, c)
  BY <1>8 DEF CallStep, TakeSlot, InboxClaim, BusyAborted, InboxAnswered, InboxComplete,
              InboxRelease, HandlerEnds, CallRenewed, InboxCompleteFails
<1>9. CASE \/ UNCHANGED vars \/ Publish \/ Expire \/ PurgeExpired \/ Administration
  BY <1>9 DEF vars, Publish, Expire, PurgeExpired, Administration, Replay, RetryDeadLetter,
              CancelScheduled
<1> QED BY <1>3, <1>4, <1>5, <1>6, <1>7, <1>8, <1>9 DEF Next, Failure, RunStep

\* Every step keeps the calls and the inbox together.
LEMMA CallStepKept ==
  ASSUME QuietAdmin, Typed, FenceInv, CallInv, [Next]_vars PROVE CallInv'
<1>1. \A q \in Runs, d \in Consumers : CallFits(q, d)'
  BY CallFitsStep
<1>2. /\ CompleteIsFinal'
      /\ \A c \in Consumers :
           inbox[c].state = "complete" /\ ~Replay /\ ~PurgeExpired => inbox'[c].state = "complete"
  BY CompletionsKept DEF CallInv
<1>3. DoneIsComplete'
  <2> SUFFICES ASSUME record'.status # "purged", NEW r \in Runs, NEW c \in Consumers,
                      call'[r][c].phase = "done"
               PROVE  inbox'[c].state = "complete"
    BY DEF DoneIsComplete
  <2>1. record.status # "purged" /\ ~PurgeExpired
    <3>1. record \in OutboxRecord /\ DataTyped
      BY DEF Typed, DataTyped
    <3> QED BY <3>1, PurgedForever, UnleasedForm DEF PurgeExpired
  <2>2. ~Replay
    <3> SUFFICES ASSUME Replay PROVE FALSE
      OBVIOUS
    <3>1. call' = call /\ run[r].phase = "free"
      BY DEF Replay, Again, QuietAdmin
    <3> QED BY <3>1 DEF CallInv, CallFits
  <2>3. CASE call[r][c].phase = "done"
    BY <1>2, <2>1, <2>2, <2>3 DEF CallInv, DoneIsComplete
  <2>4. CASE InboxClaim(r, c) /\ Duplicate(c)
    BY <1>2, <2>1, <2>2, <2>4 DEF Duplicate
  <2>5. CASE inbox' = [inbox EXCEPT ![c] = Completed]
    BY <2>5 DEF Typed, DataTyped, Completed, NoEntry
  <2> QED BY <2>3, <2>4, <2>5, CallsMove
<1> QED BY <1>1, <1>2, <1>3 DEF CallInv
--------------------------------------------------------------------------------
(* The leases.                                                             *)

\* A run stays what it is, but for its phase, and is not told to go on after an abort.
RunStays(r) ==
    /\ run'[r].mgr = run[r].mgr /\ run'[r].attempts = run[r].attempts
    /\ run'[r].lag = run[r].lag /\ run'[r].want = run[r].want
    /\ ~run'[r].aborted => ~run[r].aborted

\* Where a step other than a tick leads a run.
LEMMA RunsMove ==
  ASSUME Typed, [Next]_vars, ~Tick, NEW r \in Runs
  PROVE  \/ run'[r].phase \in {"free", "ended", "completing", "failing", "dying"}
         \/ /\ RunStays(r)
            /\ \/ run'[r].phase = run[r].phase
               \/ run[r].phase = "consuming" /\ run'[r].phase = "delivering"
         \/ /\ ClaimAnswered(r) /\ run'[r].phase = "consuming"
            /\ run'[r].mgr = run[r].mgr /\ run'[r].attempts = run[r].attempts
            /\ run'[r].want = run[r].want /\ (~run'[r].aborted => ~run[r].aborted)
         \/ /\ RunRenewed(r) /\ run'[r].phase = run[r].phase
            /\ run'[r].mgr = run[r].mgr /\ run'[r].attempts = run[r].attempts
            /\ run'[r].lag = run[r].lag /\ run'[r].want = Idle
            /\ ~run'[r].aborted => ~run[r].aborted /\ HoldsLease(r)
         \/ /\ \E m \in Managers : Claim(m) /\ run'[r].mgr = m /\ record'.owner = m
            /\ record'.attempts = run'[r].attempts /\ record'.ttl = Lease
            /\ run[r].phase = "free" /\ run'[r].phase = "claimed"
            /\ run'[r].lag = 0 /\ run'[r].want = Idle
<1>0. DataTyped /\ run \in [Runs -> RunRecord] /\ run[r] \in RunRecord
  BY DEF Typed, DataTyped
<1>1. CASE run' = run
  BY <1>1 DEF RunStays
<1>2. CASE \E q \in Runs : ClaimAnswered(q)
  <2>1. PICK q \in Runs : ClaimAnswered(q)
    BY <1>2
  <2>2. CASE q = r
    BY <1>0, <2>1, <2>2 DEF ClaimAnswered, RunRecord
  <2>3. CASE q # r
    BY <1>0, <2>1, <2>3 DEF ClaimAnswered, RunStays
  <2> QED BY <2>2, <2>3
<1>3. CASE \E q \in Runs : ConsumersSettle(q)
  <2>1. PICK q \in Runs : ConsumersSettle(q)
    BY <1>3
  <2>2. PICK p \in {"failing", "delivering", "completing"} : RunTo(q, p) /\ run[q].phase = "consuming"
    BY <2>1 DEF ConsumersSettle, MaySettle
  <2>3. run' = [run EXCEPT ![q] = [run[q] EXCEPT !.phase = p]]
    BY <1>0, <2>2 DEF RunTo
  <2>4. CASE q = r
    <3>1. run'[r] = [run[r] EXCEPT !.phase = p]
      BY <1>0, <2>3, <2>4
    <3> QED BY <1>0, <2>2, <2>4, <3>1 DEF RunStays, RunRecord
  <2>5. CASE q # r
    BY <1>0, <2>3, <2>5 DEF RunStays
  <2> QED BY <2>4, <2>5
<1>4. CASE \E q \in Runs : Complete(q) \/ Reject(q) \/ SettleFails(q) \/ DeliveryEnds(q)
  <2>1. PICK q \in Runs : \/ End(q)
                          \/ RunTo(q, "failing") \/ RunTo(q, "completing") \/ RunTo(q, "dying")
    BY <1>4 DEF Complete, Reject, SettleFails, DeliveryEnds
  <2>2. CASE q = r
    <3>1. \A p \in RunPhase : [run[r] EXCEPT !.phase = p].phase = p
      BY <1>0 DEF RunRecord
    <3>2. Free.phase = "free" /\ {"failing", "completing", "dying", "ended"} \subseteq RunPhase
      BY DEF Free, RunPhase
    <3>3. \/ run'[r] = Free
          \/ \E p \in {"failing", "completing", "dying", "ended"} : run'[r] = [run[r] EXCEPT !.phase = p]
      BY <1>0, <2>1, <2>2 DEF End, RunTo
    <3> QED BY <3>1, <3>2, <3>3
  <2>3. CASE q # r
    BY <1>0, <2>1, <2>3 DEF End, RunTo, RunStays
  <2> QED BY <2>2, <2>3
<1>5. CASE \E q \in Runs : RunRenewed(q)
  <2>1. PICK q \in Runs : RunRenewed(q)
    BY <1>5
  <2>2. CASE q = r
    BY <2>1, <2>2, RunRenewedForm DEF Free
  <2>3. CASE q # r
    BY <2>1, <2>3, RunRenewedForm DEF RunStays
  <2> QED BY <2>2, <2>3
<1>6. CASE \E q \in Runs : ClaimLost(q) \/ DeliveryTimeout(q)
  BY <1>0, <1>6 DEF ClaimLost, DeliveryTimeout, RunStays, RunRecord, Free
<1>7. CASE \E m \in Managers : Claim(m)
  <2>1. PICK m \in Managers : Claim(m)
    BY <1>7
  <2> QED BY <2>1, ClaimForm DEF RunStays
<1>8. CASE \E m \in Managers : Shutdown(m) \/ Crash(m)
  <2>1. run'[r] = run[r] \/ run'[r] = Free \/ run'[r] = [run[r] EXCEPT !.aborted = TRUE]
    BY <1>8 DEF Shutdown, Crash
  <2> QED BY <1>0, <2>1 DEF RunStays, RunRecord, Free
<1>9. CASE \E q \in Runs, c \in Consumers : CallRenewed(q, c)
  BY <1>9, CallRenewedForm DEF RunStays
<1>10. CASE \/ UNCHANGED vars \/ Publish \/ Expire \/ PurgeExpired \/ Administration
            \/ \E m \in Managers : Close(m)
            \/ \E q \in Runs, c \in Consumers :
                 CallStep(q, c) \/ HandlerEnds(q, c) \/ InboxCompleteFails(q, c)
  <2>1. run' = run
    BY <1>10 DEF vars, Publish, Expire, PurgeExpired, Administration, Replay, RetryDeadLetter,
                 CancelScheduled, Close, CallStep, TakeSlot, InboxClaim, BusyAborted, InboxAnswered,
                 InboxComplete, InboxRelease, HandlerEnds, InboxCompleteFails
  <2> QED BY <1>1, <2>1
<1> QED BY <1>2, <1>3, <1>4, <1>5, <1>6, <1>7, <1>8, <1>9, <1>10 DEF Next, Failure, RunStep

\* A lease that is kept has not run out.
LEMMA KeptIsLive ==
  ASSUME LongLeases, NEW ttl \in 0 .. Lease, NEW phase, NEW lag \in 0 .. ClaimLag, NEW want,
         Kept(ttl, phase, lag, want)
  PROVE  ttl > 0 /\ want \in {Idle, Lease}
BY DeliveryConstants DEF LongLeases, Kept
\* No step but a renewal of its own and the passing of time touches the lease of a run that
\* goes on unaborted.
LEMMA LeaseHeld ==
  ASSUME QuietAdmin, LongLeases, Typed, FenceInv, LeaseInv, [Next]_vars, NEW r \in Runs,
         ~run[r].aborted, run[r].phase \in {"claimed", "consuming", "delivering"}
  PROVE  /\ HoldsLease(r) /\ record.status = "dispatching" /\ record.ttl > 0
         /\ ~PurgeExpired /\ ~Replay /\ \A m \in Managers : ~Claim(m)
         /\ ~Tick => record'.owner = record.owner /\ record'.attempts = record.attempts
         /\ ~Tick /\ ~RunRenewed(r) => record'.ttl = record.ttl
<1>0. DataTyped /\ record \in OutboxRecord /\ run[r] \in RunRecord
  BY DEF Typed, DataTyped
<1>1. HoldsLease(r) /\ Kept(record.ttl, run[r].phase, run[r].lag, run[r].want)
  BY DEF LeaseInv, RunLeased
<1>2. record.ttl > 0
  BY <1>0, <1>1, KeptIsLive DEF OutboxRecord, RunRecord
<1>3. record.status = "dispatching"
  BY <1>1, DeliveryConstants DEF FenceInv, HoldsLease
<1>4. \A q \in Runs : run[q].phase # "free" /\ HoldsLease(q) => q = r
  BY <1>1 DEF FenceInv, HoldsLease
<1>5. ~PurgeExpired /\ ~Replay /\ ~RetryDeadLetter /\ \A m \in Managers : ~Claim(m)
  <2>1. record.ttl # 0
    BY <1>2
  <2>2. ~Due
    BY <1>3, <2>1 DEF Due
  <2>3. \A m \in Managers, q \in Runs : ~ClaimDue(m, q)
    BY <2>2 DEF ClaimDue
  <2>4. \A m \in Managers : ~Claim(m)
    BY <2>3, ClaimForm
  <2>5. ~PurgeExpired
    BY <1>3, <2>1 DEF PurgeExpired
  <2>6. ~Replay /\ ~RetryDeadLetter
    BY <1>3 DEF Replay, RetryDeadLetter
  <2> QED BY <2>4, <2>5, <2>6
<1>6. CASE \E q \in Runs : Complete(q) \/ Reject(q) \/ SettleFails(q)
  <2>1. PICK q \in Runs : Complete(q) \/ Reject(q) \/ SettleFails(q)
    BY <1>6
  <2>2. run[q].phase \in {"completing", "failing", "dying"}
    BY <2>1 DEF Complete, Reject, SettleFails
  <2>3. ~HoldsLease(q)
    BY <1>4, <2>2
  <2>4. record' = record
    BY <2>1, <2>3 DEF Complete, Reject, SettleFails
  <2> QED BY <1>1, <1>2, <1>3, <1>5, <2>4
<1>7. CASE \E q \in Runs : RunRenewed(q)
  <2>1. PICK q \in Runs : RunRenewed(q)
    BY <1>7
  <2>2. run[q].phase # "free"
    BY <2>1 DEF RunRenewed, FenceInv
  <2>3. record'.owner = record.owner /\ record'.attempts = record.attempts
    BY <2>1, RunRenewedForm
  <2>4. q # r => record' = record
    BY <1>4, <2>1, <2>2, RunRenewedForm
  <2> QED BY <1>1, <1>2, <1>3, <1>5, <2>1, <2>3, <2>4
<1>8. CASE \/ UNCHANGED vars \/ Expire
           \/ \E m \in Managers : Shutdown(m) \/ Close(m) \/ Crash(m)
           \/ \E q \in Runs : \/ ClaimAnswered(q) \/ ConsumersSettle(q) \/ DeliveryEnds(q)
                              \/ ClaimLost(q) \/ DeliveryTimeout(q)
           \/ \E q \in Runs, c \in Consumers :
                CallStep(q, c) \/ HandlerEnds(q, c) \/ CallRenewed(q, c) \/ InboxCompleteFails(q, c)
  <2>1. record' = record
    <3>1. CASE \/ UNCHANGED vars \/ Expire \/ \E m \in Managers : Shutdown(m) \/ Close(m) \/ Crash(m)
      BY <3>1 DEF vars, Expire, Shutdown, Close, Crash
    <3>2. CASE \E q \in Runs : \/ ClaimAnswered(q) \/ ConsumersSettle(q) \/ DeliveryEnds(q)
                               \/ ClaimLost(q) \/ DeliveryTimeout(q)
      BY <3>2 DEF ClaimAnswered, ConsumersSettle, DeliveryEnds, ClaimLost, DeliveryTimeout
    <3>3. CASE \E q \in Runs, c \in Consumers :
                 CallStep(q, c) \/ HandlerEnds(q, c) \/ CallRenewed(q, c) \/ InboxCompleteFails(q, c)
      BY <3>3 DEF CallStep, TakeSlot, InboxClaim, BusyAborted, InboxAnswered, InboxComplete,
                  InboxRelease, HandlerEnds, CallRenewed, InboxCompleteFails
    <3> QED BY <1>8, <3>1, <3>2, <3>3
  <2> QED BY <1>1, <1>2, <1>3, <1>5, <2>1
<1>9. ~Publish /\ ~CancelScheduled
  BY <1>3 DEF Publish, CancelScheduled
<1> QED BY <1>1, <1>2, <1>3, <1>5, <1>6, <1>7, <1>8, <1>9 DEF Next, Failure, Administration, RunStep

\* No step but its own touches the inbox lease of a handler that goes on unaborted.
LEMMA EntryHeld ==
  ASSUME QuietAdmin, LongLeases, Typed, FenceInv, CallInv, LeaseInv, [Next]_vars,
         NEW r \in Runs, NEW c \in Consumers,
         ~run[r].aborted, call[r][c].phase \in {"claimed", "handling"}
  PROVE  /\ inbox[c].state = "claimed" /\ inbox[c].owner = r /\ inbox[c].ttl > 0
         /\ ~Tick => inbox'[c].state = "claimed" /\ inbox'[c].owner = r
         /\ ~Tick /\ ~CallRenewed(r, c) => inbox'[c].ttl = inbox[c].ttl
<1>0. DataTyped /\ inbox \in [Consumers -> InboxEntry] /\ inbox[c] \in InboxEntry
      /\ call[r][c] \in CallRecord
  BY DEF Typed, DataTyped
<1>1. /\ inbox[c].state = "claimed" /\ inbox[c].owner = r
      /\ Kept(inbox[c].ttl, call[r][c].phase, call[r][c].lag, call[r][c].want)
  BY DEF LeaseInv, CallLeased
<1>2. inbox[c].ttl > 0
  BY <1>0, <1>1, KeptIsLive DEF InboxEntry, CallRecord
<1>3. run[r].phase = "consuming"
  BY <1>0, CallingRun
<1>4. ~PurgeExpired /\ ~Replay
  BY <1>3, LeaseHeld
<1>5. ASSUME NEW q \in Runs, NEW d \in Consumers,
             \/ InboxClaim(q, d) \/ InboxComplete(q, d) \/ InboxRelease(q, d)
             \/ InboxCompleteFails(q, d)
      PROVE  inbox'[c] = inbox[c]
  <2>1. CASE d # c
    BY <1>0, <1>5, <2>1 DEF InboxClaim, InboxComplete, InboxRelease, InboxCompleteFails
  <2>2. CASE d = c
    <3>1. ~InboxClaim(q, c)
      BY <1>1, <1>2 DEF InboxClaim, Busy, Live
    <3>2. call[q][c].phase \in {"completing", "releasing"}
      BY <1>5, <2>2, <3>1 DEF InboxComplete, InboxRelease, InboxCompleteFails
    <3>3. inbox[c].owner # q
      BY <1>1, <3>2
    <3> QED BY <1>5, <2>2, <3>1, <3>3 DEF InboxComplete, InboxRelease, InboxCompleteFails
  <2> QED BY <2>1, <2>2
<1>6. ASSUME NEW q \in Runs, NEW d \in Consumers, CallRenewed(q, d)
      PROVE  /\ inbox'[c].state = "claimed" /\ inbox'[c].owner = r
             /\ ~CallRenewed(r, c) => inbox'[c].ttl = inbox[c].ttl
  <2>1. inbox'[c].state = "claimed" /\ inbox'[c].owner = r
    BY <1>1, <1>6, CallRenewedForm
  <2>2. d # c \/ q # r => inbox'[c] = inbox[c]
    BY <1>1, <1>6, CallRenewedForm
  <2> QED BY <1>6, <2>1, <2>2
<1> QED BY <1>1, <1>2, <1>4, <1>5, <1>6, InboxAlone

\* Time passes for a lease and its renewals alike.
LEMMA KeptTicks ==
  ASSUME LongLeases, NEW ttl \in 0 .. Lease, NEW phase, NEW lag \in 0 .. ClaimLag, NEW want,
         Kept(ttl, phase, lag, want), ~Late(want)
  PROVE  /\ phase = "claimed" => Kept(Left(ttl), phase, lag + 1, NextWant(want, FALSE))
         /\ phase # "claimed" => Kept(Left(ttl), phase, 0, NextWant(want, TRUE))
<1>1. ttl > 0 /\ want = Idle
  BY KeptIsLive DEF Late
<1>2. Left(ttl) = ttl - 1 /\ NextWant(want, FALSE) = Idle /\ NextWant(want, TRUE) = Lease
  BY <1>1 DEF Left, NextWant
<1>3. Lease \in Nat /\ ClaimLag \in Nat /\ Lease # Idle
  BY DeliveryConstants DEF Idle
<1>4. CASE phase = "claimed"
  <2>1. ttl + lag >= Lease
    BY <1>1, <1>3, <1>4 DEF Kept
  <2>2. (ttl - 1) + (lag + 1) >= Lease
    BY <1>3, <2>1
  <2> QED BY <1>2, <1>4, <2>2 DEF Kept
<1>5. CASE phase # "claimed"
  <2>1. ttl + ClaimLag >= Lease
    BY <1>1, <1>3, <1>5 DEF Kept
  <2>2. (ttl - 1) + ClaimLag + 1 >= Lease
    BY <1>3, <2>1
  <2> QED BY <1>2, <1>5, <2>2 DEF Kept
<1> QED BY <1>4, <1>5

\* A tick keeps the leases.
LEMMA LeaseTick ==
  ASSUME LongLeases, Typed, CallInv, LeaseInv, Tick PROVE LeaseInv'
<1>0. DataTyped /\ record \in OutboxRecord
  BY DEF Typed, DataTyped
<1>1. ASSUME NEW r \in Runs, ~run'[r].aborted,
             run'[r].phase \in {"claimed", "consuming", "delivering"}
      PROVE  HoldsLease(r)' /\ Kept(record'.ttl, run'[r].phase, run'[r].lag, run'[r].want)
  <2>1. run[r] \in RunRecord
    BY <1>0 DEF DataTyped
  <2>2. /\ run'[r].mgr = run[r].mgr /\ run'[r].attempts = run[r].attempts
        /\ run'[r].phase = run[r].phase
        /\ run'[r].lag = IF run[r].phase = "claimed" THEN run[r].lag + 1 ELSE 0
        /\ run'[r].want = NextWant(run[r].want, Renewing(r) /\ ~run[r].aborted)
        /\ ~run[r].aborted /\ ~Late(run[r].want)
    BY <1>1, TickForm
  <2>3. /\ record'.attempts = record.attempts /\ record'.owner = record.owner
        /\ record'.ttl = Left(record.ttl)
    BY TickForm
  <2>4. HoldsLease(r) /\ Kept(record.ttl, run[r].phase, run[r].lag, run[r].want)
    BY <1>1, <2>2 DEF LeaseInv, RunLeased
  <2>5. Renewing(r) <=> run[r].phase # "claimed"
    BY <1>1, <2>2 DEF Renewing
  <2>6. run'[r].want = IF run[r].phase = "claimed" THEN NextWant(run[r].want, FALSE)
                       ELSE NextWant(run[r].want, TRUE)
    BY <2>2, <2>5 DEF NextWant
  <2>7. Kept(record'.ttl, run'[r].phase, run'[r].lag, run'[r].want)
    <3>1. record.ttl \in 0 .. Lease /\ run[r].lag \in 0 .. ClaimLag
      BY <1>0, <2>1 DEF OutboxRecord, RunRecord
    <3>2. CASE run[r].phase = "claimed"
      <4>1. Kept(Left(record.ttl), run[r].phase, run[r].lag + 1, NextWant(run[r].want, FALSE))
        BY <2>2, <2>4, <3>1, <3>2, KeptTicks
      <4> QED BY <2>2, <2>3, <2>6, <3>2, <4>1
    <3>3. CASE run[r].phase # "claimed"
      <4>1. Kept(Left(record.ttl), run[r].phase, 0, NextWant(run[r].want, TRUE))
        BY <2>2, <2>4, <3>1, <3>3, KeptTicks
      <4> QED BY <2>2, <2>3, <2>6, <3>3, <4>1
    <3> QED BY <3>2, <3>3
  <2> QED BY <2>2, <2>3, <2>4, <2>7 DEF HoldsLease
<1>2. ASSUME NEW r \in Runs, NEW c \in Consumers, ~run'[r].aborted,
             call'[r][c].phase \in {"claimed", "handling"}
      PROVE  /\ inbox'[c].state = "claimed" /\ inbox'[c].owner = r
             /\ Kept(inbox'[c].ttl, call'[r][c].phase, call'[r][c].lag, call'[r][c].want)
  <2>1. call[r][c] \in CallRecord /\ inbox[c] \in InboxEntry
    BY <1>0 DEF DataTyped
  <2>2. ~run[r].aborted /\ ~Late(call[r][c].want)
    BY <1>2, TickForm
  <2>3. /\ call'[r][c].phase = call[r][c].phase
        /\ call'[r][c].lag = IF call[r][c].phase = "claimed" THEN call[r][c].lag + 1 ELSE 0
        /\ call'[r][c].want = NextWant(call[r][c].want, CallRenewing(r, c) /\ ~run[r].aborted)
    BY TickForm
  <2>4. /\ inbox'[c].state = inbox[c].state /\ inbox'[c].owner = inbox[c].owner
        /\ inbox'[c].ttl = Left(inbox[c].ttl)
    BY TickForm
  <2>5. /\ inbox[c].state = "claimed" /\ inbox[c].owner = r
        /\ Kept(inbox[c].ttl, call[r][c].phase, call[r][c].lag, call[r][c].want)
    BY <1>2, <2>2, <2>3 DEF LeaseInv, CallLeased
  <2>6. CallRenewing(r, c) <=> call[r][c].phase # "claimed"
    BY <1>2, <2>3 DEF CallRenewing
  <2>7. call'[r][c].want = IF call[r][c].phase = "claimed" THEN NextWant(call[r][c].want, FALSE)
                           ELSE NextWant(call[r][c].want, TRUE)
    BY <2>2, <2>3, <2>6 DEF NextWant
  <2>8. Kept(inbox'[c].ttl, call'[r][c].phase, call'[r][c].lag, call'[r][c].want)
    <3>1. inbox[c].ttl \in 0 .. Lease /\ call[r][c].lag \in 0 .. ClaimLag
      BY <2>1 DEF InboxEntry, CallRecord
    <3>2. CASE call[r][c].phase = "claimed"
      <4>1. Kept(Left(inbox[c].ttl), call[r][c].phase, call[r][c].lag + 1,
                 NextWant(call[r][c].want, FALSE))
        BY <2>2, <2>5, <3>1, <3>2, KeptTicks
      <4> QED BY <2>3, <2>4, <2>7, <3>2, <4>1
    <3>3. CASE call[r][c].phase # "claimed"
      <4>1. Kept(Left(inbox[c].ttl), call[r][c].phase, 0, NextWant(call[r][c].want, TRUE))
        BY <2>2, <2>5, <3>1, <3>3, KeptTicks
      <4> QED BY <2>3, <2>4, <2>7, <3>3, <4>1
    <3> QED BY <3>2, <3>3
  <2> QED BY <2>4, <2>5, <2>8
<1> QED BY <1>1, <1>2 DEF LeaseInv, RunLeased, CallLeased
\* A claim that is answered leaves the lease as long as the answer may take.
LEMMA KeptAnswered ==
  ASSUME NEW ttl \in 0 .. Lease, NEW phase, NEW lag \in 0 .. ClaimLag, NEW want,
         Kept(ttl, "claimed", lag, want), phase # "claimed", NEW new
  PROVE  want = Idle /\ Kept(ttl, phase, new, want)
<1>1. want = Idle /\ ttl + lag >= Lease
  BY DEF Kept
<1>2. ttl + ClaimLag >= Lease
  BY <1>1, DeliveryConstants
<1> QED BY <1>1, <1>2 DEF Kept

\* A renewal that is answered in time restores the lease.
LEMMA KeptRenewed ==
  ASSUME NEW ttl, NEW phase, NEW lag, NEW want, Kept(ttl, phase, lag, want), want # Idle, NEW new
  PROVE  phase # "claimed" /\ Kept(want, phase, new, Idle)
<1>1. phase # "claimed" /\ want = Lease
  BY DEF Kept
<1>2. Lease + ClaimLag >= Lease
  BY DeliveryConstants
<1> QED BY <1>1, <1>2 DEF Kept

\* A lease just taken is whole.
LEMMA KeptTaken == Kept(Lease, "claimed", 0, Idle)
BY DeliveryConstants DEF Kept

\* The runs that go on unaborted keep their leases.
LEMMA RunLeasedStep ==
  ASSUME QuietAdmin, LongLeases, Typed, FenceInv, LeaseInv, [Next]_vars, ~Tick, NEW r \in Runs
  PROVE  RunLeased(r)'
<1> SUFFICES ASSUME ~run'[r].aborted, run'[r].phase \in {"claimed", "consuming", "delivering"}
             PROVE  HoldsLease(r)' /\ Kept(record'.ttl, run'[r].phase, run'[r].lag, run'[r].want)
  BY DEF RunLeased
<1>0. run[r] \in RunRecord /\ record \in OutboxRecord
  BY DEF Typed, DataTyped
<1>a. record.ttl \in 0 .. Lease /\ run[r].lag \in 0 .. ClaimLag
  BY <1>0 DEF RunRecord, OutboxRecord
<1>1. CASE /\ RunStays(r)
           /\ \/ run'[r].phase = run[r].phase
              \/ run[r].phase = "consuming" /\ run'[r].phase = "delivering"
  <2>1. ~run[r].aborted /\ run[r].phase \in {"claimed", "consuming", "delivering"}
    BY <1>1 DEF RunStays
  <2>2. HoldsLease(r) /\ Kept(record.ttl, run[r].phase, run[r].lag, run[r].want)
    BY <2>1 DEF LeaseInv, RunLeased
  <2>3. record'.owner = record.owner /\ record'.attempts = record.attempts
    BY <2>1, LeaseHeld
  <2>4. HoldsLease(r)'
    BY <1>1, <2>2, <2>3 DEF HoldsLease, RunStays
  <2>5. CASE ~RunRenewed(r)
    <3>1. record'.ttl = record.ttl
      BY <2>1, <2>5, LeaseHeld
    <3>2. Kept(record.ttl, run'[r].phase, run[r].lag, run[r].want)
      BY <1>1, <2>2 DEF Kept
    <3> QED BY <1>1, <2>4, <3>1, <3>2 DEF RunStays
  <2>6. CASE RunRenewed(r)
    <3>1. run[r].want # Idle /\ run[r].phase # "ended"
      BY <2>1, <2>6 DEF RunRenewed
    <3>2. run'[r].want = Idle
      BY <2>6, <3>1, RunRenewedForm
    <3> QED BY <1>1, <3>1, <3>2 DEF RunStays
  <2> QED BY <2>5, <2>6
<1>2. CASE /\ ClaimAnswered(r) /\ run'[r].phase = "consuming"
           /\ run'[r].mgr = run[r].mgr /\ run'[r].attempts = run[r].attempts
           /\ run'[r].want = run[r].want /\ (~run'[r].aborted => ~run[r].aborted)
  <2>1. ~run[r].aborted /\ run[r].phase = "claimed" /\ record' = record
    BY <1>2 DEF ClaimAnswered
  <2>2. HoldsLease(r) /\ Kept(record.ttl, "claimed", run[r].lag, run[r].want)
    BY <2>1 DEF LeaseInv, RunLeased
  <2>3. Kept(record.ttl, "consuming", run'[r].lag, run[r].want)
    BY <1>a, <2>2, KeptAnswered
  <2> QED BY <1>2, <2>1, <2>2, <2>3 DEF HoldsLease
<1>3. CASE /\ RunRenewed(r) /\ run'[r].phase = run[r].phase
           /\ run'[r].mgr = run[r].mgr /\ run'[r].attempts = run[r].attempts
           /\ run'[r].lag = run[r].lag /\ run'[r].want = Idle
           /\ ~run'[r].aborted => ~run[r].aborted /\ HoldsLease(r)
  <2>1. HoldsLease(r) /\ Kept(record.ttl, run[r].phase, run[r].lag, run[r].want)
    BY <1>3 DEF LeaseInv, RunLeased
  <2>2. run[r].want # Idle
    BY <1>3 DEF RunRenewed
  <2>3. Kept(run[r].want, run[r].phase, run[r].lag, Idle)
    BY <2>1, <2>2, KeptRenewed
  <2>4. /\ record'.owner = record.owner /\ record'.attempts = record.attempts
        /\ record'.ttl = run[r].want
    BY <1>3, <2>1, RunRenewedForm
  <2> QED BY <1>3, <2>1, <2>3, <2>4 DEF HoldsLease
<1>4. CASE /\ \E m \in Managers : Claim(m) /\ run'[r].mgr = m /\ record'.owner = m
           /\ record'.attempts = run'[r].attempts /\ record'.ttl = Lease
           /\ run[r].phase = "free" /\ run'[r].phase = "claimed"
           /\ run'[r].lag = 0 /\ run'[r].want = Idle
  BY <1>4, KeptTaken DEF HoldsLease
<1> QED BY <1>1, <1>2, <1>3, <1>4, RunsMove

\* The handlers that go on unaborted keep theirs.
LEMMA CallLeasedStep ==
  ASSUME QuietAdmin, LongLeases, Typed, FenceInv, CallInv, LeaseInv, [Next]_vars, ~Tick,
         Typed', CallInv', NEW r \in Runs, NEW c \in Consumers
  PROVE  CallLeased(r, c)'
<1> SUFFICES ASSUME ~run'[r].aborted, call'[r][c].phase \in {"claimed", "handling"}
             PROVE  /\ inbox'[c].state = "claimed" /\ inbox'[c].owner = r
                    /\ Kept(inbox'[c].ttl, call'[r][c].phase, call'[r][c].lag, call'[r][c].want)
  BY DEF CallLeased
<1>0. DataTyped /\ call[r][c] \in CallRecord /\ inbox[c] \in InboxEntry
  BY DEF Typed, DataTyped
<1>a. inbox[c].ttl \in 0 .. Lease /\ call[r][c].lag \in 0 .. ClaimLag
  BY <1>0 DEF CallRecord, InboxEntry
<1>b. ~run[r].aborted
  <2>1. run'[r].phase = "consuming"
    <3>1. run'[r].phase \in RunPhase
      BY DEF Typed, DataTyped, RunRecord
    <3>2. CallFits(r, c)'
      BY DEF CallInv
    <3> QED BY <3>1, <3>2 DEF CallFits, Over, RunPhase
  <2> QED BY <2>1, RunsMove DEF RunStays
<1>1. CASE InboxClaim(r, c) /\ call'[r][c].phase = "claimed"
  <2>1. ~Duplicate(c) /\ CallTo(r, c, "claimed")
    <3>1. "done" \in CallPhase
      BY DEF CallPhase
    <3>2. CallTo(r, c, "done") => call'[r][c].phase = "done"
      BY <1>0, <3>1, CallToForm
    <3> QED BY <1>1, <3>2 DEF InboxClaim
  <2>2. call'[r][c].lag = 0 /\ call'[r][c].want = call[r][c].want
    BY <1>0, <2>1, CallToForm DEF CallPhase
  <2>3. call[r][c].want = Idle
    BY <1>1 DEF InboxClaim, CallInv, CallFits
  <2>4. inbox'[c] = [state |-> "claimed", owner |-> r, ttl |-> Lease]
    BY <1>1, <2>1 DEF InboxClaim, Typed, DataTyped
  <2> QED BY <1>1, <2>2, <2>3, <2>4, KeptTaken
<1>2. CASE InboxAnswered(r, c) /\ call'[r][c].phase = "handling"
  <2>1. call[r][c].phase = "claimed" /\ inbox' = inbox /\ CallTo(r, c, "handling")
    BY <1>2, <1>b DEF InboxAnswered
  <2>2. call'[r][c].want = call[r][c].want
    BY <1>0, <2>1, CallToForm DEF CallPhase
  <2>3. /\ inbox[c].state = "claimed" /\ inbox[c].owner = r
        /\ Kept(inbox[c].ttl, "claimed", call[r][c].lag, call[r][c].want)
    BY <1>b, <2>1 DEF LeaseInv, CallLeased
  <2>4. Kept(inbox[c].ttl, "handling", call'[r][c].lag, call[r][c].want)
    BY <1>a, <2>3, KeptAnswered
  <2> QED BY <1>2, <2>1, <2>2, <2>3, <2>4
<1>3. CASE CallRenewed(r, c)
  <2>0. call[r][c].want # Idle
    BY <1>3 DEF CallRenewed
  <2>1. call'[r][c].phase = call[r][c].phase /\ call'[r][c].want = Idle
    BY <1>3, CallRenewedForm
  <2>2. /\ inbox[c].state = "claimed" /\ inbox[c].owner = r
        /\ Kept(inbox[c].ttl, call[r][c].phase, call[r][c].lag, call[r][c].want)
    BY <1>b, <2>1 DEF LeaseInv, CallLeased
  <2>3. /\ inbox'[c].state = "claimed" /\ inbox'[c].owner = r
        /\ inbox'[c].ttl = call[r][c].want
    BY <1>3, <2>2, CallRenewedForm
  <2>4. Kept(call[r][c].want, call[r][c].phase, call'[r][c].lag, Idle)
    BY <2>0, <2>2, KeptRenewed
  <2> QED BY <2>1, <2>3, <2>4
<1>4. CASE call'[r][c] = call[r][c] /\ ~CallRenewed(r, c)
  <2>1. /\ inbox[c].state = "claimed" /\ inbox[c].owner = r
        /\ Kept(inbox[c].ttl, call[r][c].phase, call[r][c].lag, call[r][c].want)
    BY <1>4, <1>b DEF LeaseInv, CallLeased
  <2>2. /\ inbox'[c].state = "claimed" /\ inbox'[c].owner = r
        /\ inbox'[c].ttl = inbox[c].ttl
    BY <1>4, <1>b, EntryHeld
  <2> QED BY <1>4, <2>1, <2>2
<1> QED BY <1>1, <1>2, <1>3, <1>4, CallsMove

\* With leases long enough every step keeps them.
LEMMA LeaseStep ==
  ASSUME QuietAdmin, LongLeases, Typed, FenceInv, CallInv, LeaseInv, [Next]_vars,
         Typed', CallInv'
  PROVE  LeaseInv'
<1>1. CASE Tick
  BY <1>1, LeaseTick
<1>2. CASE ~Tick
  <2>1. \A r \in Runs : RunLeased(r)'
    BY <1>2, RunLeasedStep
  <2>2. \A r \in Runs, c \in Consumers : CallLeased(r, c)'
    BY <1>2, CallLeasedStep
  <2> QED BY <2>1, <2>2 DEF LeaseInv
<1> QED BY <1>1, <1>2

--------------------------------------------------------------------------------
(* What follows.                                                           *)

\* Nothing is called and nothing is leased at first.
LEMMA CallsInit == Init => CallInv /\ LeaseInv
BY DEF Init, CallInv, CallFits, DoneIsComplete, CompleteIsFinal, LeaseInv, RunLeased, CallLeased,
       Free, NoCall, NoInbox, NoEntry

\* What holds while nobody resets attempts under a run.
QuietInv == Typed /\ FenceInv /\ CallInv

\* The calls, the inbox and the fence stay together.
LEMMA QuietInvariant == ASSUME QuietAdmin PROVE Spec => []QuietInv
<1>1. Init => QuietInv
  BY TypeInit, FenceInit, CallsInit DEF QuietInv
<1>2. QuietInv /\ [Next]_vars => QuietInv'
  BY QuietAdmin, TypeStep, FenceStep, CallStepKept DEF QuietInv
<1> QED BY <1>1, <1>2, PTL DEF Spec

\* With leases long enough, what goes on unaborted is leased.
LEMMA LeaseInvariant == ASSUME QuietAdmin, LongLeases PROVE Spec => [](QuietInv /\ LeaseInv)
<1>1. Init => QuietInv /\ LeaseInv
  BY TypeInit, FenceInit, CallsInit DEF QuietInv
<1>2. QuietInv /\ LeaseInv /\ [Next]_vars => (QuietInv /\ LeaseInv)'
  BY QuietAdmin, LongLeases, TypeStep, FenceStep, CallStepKept, LeaseStep DEF QuietInv
<1> QED BY <1>1, <1>2, PTL DEF Spec

\* Only a run that is completing and holds the lease dispatches the event.
LEMMA DispatchedBy ==
  ASSUME Typed, [Next]_vars, record.status # "dispatched", record'.status = "dispatched"
  PROVE  \E r \in Runs : run[r].phase = "completing" /\ HoldsLease(r)
<1>0. DataTyped /\ record \in OutboxRecord
  BY DEF Typed, DataTyped
<1>a. \A s \in {"queued", "dispatched", "failed", "dead", "purged"} : Unleased(s).status = s
  BY <1>0, UnleasedForm
<1>b. \A r \in Runs : Outcome(r) \in {"dead", "failed"}
  BY DEF Outcome
<1>1. CASE \E r \in Runs : Complete(r)
  BY <1>1 DEF Complete
<1>2. CASE \E r \in Runs : SettleFails(r)
  BY <1>a, <1>b, <1>2 DEF SettleFails
<1>3. CASE \E r \in Runs : Reject(r)
  BY <1>a, <1>b, <1>3 DEF Reject
<1>4. CASE \E r \in Runs : RunRenewed(r)
  BY <1>4, RunRenewedForm
<1>5. CASE Tick
  BY <1>5, TickForm
<1>6. CASE \E r \in Runs : ClaimAnswered(r) \/ ConsumersSettle(r) \/ DeliveryEnds(r)
                           \/ ClaimLost(r) \/ DeliveryTimeout(r)
  BY <1>6 DEF ClaimAnswered, ConsumersSettle, DeliveryEnds, ClaimLost, DeliveryTimeout
<1>7. CASE \E m \in Managers : Shutdown(m) \/ Close(m) \/ Crash(m)
  BY <1>7 DEF Shutdown, Close, Crash
<1>8. CASE \E m \in Managers : Claim(m)
  BY <1>8, ClaimForm
<1>9. CASE \E r \in Runs, c \in Consumers :
             CallStep(r, c) \/ HandlerEnds(r, c) \/ CallRenewed(r, c) \/ InboxCompleteFails(r, c)
  BY <1>9 DEF CallStep, TakeSlot, InboxClaim, BusyAborted, InboxAnswered, InboxComplete,
              InboxRelease, HandlerEnds, CallRenewed, InboxCompleteFails
<1>10. CASE UNCHANGED vars \/ Publish \/ Expire \/ RetryDeadLetter \/ CancelScheduled
  BY <1>0, <1>10 DEF vars, Publish, Expire, RetryDeadLetter, CancelScheduled, OutboxRecord
<1>11. CASE PurgeExpired
  BY <1>a, <1>11 DEF PurgeExpired
<1>12. CASE Replay
  <2>1. Unleased("queued") \in OutboxRecord /\ Unleased("queued").status = "queued"
    BY <1>0, UnleasedForm
  <2> QED BY <1>12, <2>1 DEF Replay, OutboxRecord
<1> QED BY <1>1, <1>2, <1>3, <1>4, <1>5, <1>6, <1>7, <1>8, <1>9, <1>10, <1>11, <1>12
        DEF Next, Failure, Administration, RunStep

\* An event is dispatched only when every consumer has completed it since it was last replayed:
\* the run that dispatches it holds the lease, hence the event was not purged meanwhile.
THEOREM DispatchNeedsConsumers == ASSUME QuietAdmin PROVE Spec => DispatchedAfterConsumers
<1>1. ASSUME QuietInv, [Next]_vars, record.status # "dispatched", record'.status = "dispatched"
      PROVE  \A c \in Consumers : inbox[c].state = "complete"
  <2>0. DataTyped /\ record \in OutboxRecord
    BY <1>1 DEF QuietInv, Typed, DataTyped
  <2>1. \E r \in Runs : run[r].phase = "completing" /\ HoldsLease(r)
    BY <1>1, DispatchedBy DEF QuietInv
  <2>2. PICK r \in Runs : run[r].phase = "completing" /\ HoldsLease(r)
    BY <2>1
  <2>3. record.status = "dispatching"
    BY <1>1, <2>2, DeliveryConstants DEF QuietInv, FenceInv, HoldsLease
  <2>4. \A c \in Consumers : call[r][c].phase = "done"
    BY <1>1, <2>2 DEF QuietInv, CallInv, CallFits
  <2> QED BY <1>1, <2>3, <2>4 DEF QuietInv, CallInv, DoneIsComplete
<1>2. QuietInv /\ [Next]_vars =>
        [record.status # "dispatched" /\ record'.status = "dispatched"
           => \A c \in Consumers : inbox[c].state = "complete"]_vars
  BY <1>1
<1> QED BY <1>2, QuietInvariant, PTL DEF Spec, DispatchedAfterConsumers

\* Two handlers of one consumer overlap only if all but one have been told to abort.
THEOREM LiveHandlersAreAlone == ASSUME QuietAdmin, LongLeases PROVE Spec => []OneLiveHandler
<1>1. LeaseInv => OneLiveHandler
  BY DEF LeaseInv, CallLeased, OneLiveHandler, Handling
<1> QED BY <1>1, LeaseInvariant, PTL

\* And so do two deliveries to the destination.
THEOREM LiveDeliveriesAreAlone == ASSUME QuietAdmin, LongLeases PROVE Spec => []OneLiveDelivery
<1>1. QuietInv /\ LeaseInv => OneLiveDelivery
  BY DEF QuietInv, FenceInv, LeaseInv, RunLeased, HoldsLease, OneLiveDelivery
<1> QED BY <1>1, LeaseInvariant, PTL

\* What a consumer has completed it does not handle again, whatever becomes of the run that
\* delivered it; only a replay or the purge of the event forgets the completion.
THEOREM CompletedIsNotHandledAgain == ASSUME QuietAdmin, LongLeases PROVE Spec => HandledOnce
<1>1. ASSUME QuietInv, LeaseInv, [Next]_vars, NEW c \in Consumers,
             inbox[c].state = "complete", record'.status # "purged", admin' = admin
      PROVE  /\ inbox'[c].state = "complete"
             /\ \A r \in Runs : Handling(r, c)' => Handling(r, c)
  <2>1. ~Replay
    <3>1. admin + 1 # admin
      BY <1>1, DeliveryConstants DEF QuietInv, Typed
    <3> QED BY <1>1, <3>1 DEF Replay, Again
  <2>2. ~PurgeExpired
    BY <1>1, UnleasedForm DEF PurgeExpired, QuietInv, Typed
  <2>3. inbox'[c].state = "complete"
    BY <1>1, <2>1, <2>2, CompletionsKept DEF QuietInv, CallInv
  <2>4. ASSUME NEW r \in Runs, call'[r][c].phase = "handling"
        PROVE  call[r][c].phase = "handling"
    <3>1. ~(InboxAnswered(r, c) /\ ~run[r].aborted)
      <4> SUFFICES ASSUME InboxAnswered(r, c), ~run[r].aborted PROVE FALSE
        OBVIOUS
      <4>1. call[r][c].phase = "claimed"
        BY DEF InboxAnswered
      <4> QED BY <1>1, <4>1 DEF LeaseInv, CallLeased
    <3> QED BY <1>1, <2>4, <3>1, CallsMove DEF QuietInv
  <2> QED BY <2>3, <2>4 DEF Handling
<1>2. QuietInv /\ LeaseInv /\ [Next]_vars =>
        [\A c \in Consumers :
            inbox[c].state = "complete" /\ record'.status # "purged" /\ admin' = admin =>
              /\ inbox'[c].state = "complete"
              /\ \A r \in Runs : Handling(r, c)' => Handling(r, c)]_vars
  BY <1>1
<1> QED BY <1>2, LeaseInvariant, PTL DEF Spec, HandledOnce

--------------------------------------------------------------------------------
(* The contract.                                                           *)

\* The stages of a call's phases and of a run's.
LEMMA PhaseStages ==
  /\ HandStage("handling") = "handling" /\ HandStage("completing") = "handled"
  /\ \A p \in CallPhase \ {"handling", "completing"} : HandStage(p) = "idle"
  /\ WorkStage("delivering") = "delivering" /\ WorkStage("completing") = "delivered"
  /\ \A p \in RunPhase \ {"delivering", "completing"} : WorkStage(p) = "idle"
BY DEF HandStage, WorkStage

\* A stage of the contract tells the phase.
LEMMA StagePhases ==
  /\ \A p \in CallPhase : /\ HandStage(p) = "handling" <=> p = "handling"
                          /\ HandStage(p) = "handled" <=> p = "completing"
  /\ \A p \in RunPhase : /\ WorkStage(p) = "delivering" <=> p = "delivering"
                         /\ WorkStage(p) = "delivered" <=> p = "completing"
BY PhaseStages DEF CallPhase, RunPhase

\* The hands and the work of the contract, looked up.
LEMMA LookedUp ==
  /\ \A r \in Runs, c \in Consumers : Hand[r][c] = HandStage(call[r][c].phase)
  /\ \A r \in Runs : Work[r] = WorkStage(run[r].phase)
BY DEF Hand, Work

\* While no call changes its stage the hands are the same.
LEMMA HandKept ==
  ASSUME \A r \in Runs, c \in Consumers :
           HandStage(call'[r][c].phase) = HandStage(call[r][c].phase)
  PROVE  Hand' = Hand
BY DEF Hand

\* And so is the work while no run does.
LEMMA WorkKept ==
  ASSUME \A r \in Runs : WorkStage(run'[r].phase) = WorkStage(run[r].phase)
  PROVE  Work' = Work
BY DEF Work

\* A step of a call moves its hand.
LEMMA HandMoves ==
  ASSUME DataTyped, NEW r \in Runs, NEW c \in Consumers, NEW p \in CallPhase, CallTo(r, c, p)
  PROVE  Hand' = [Hand EXCEPT ![r][c] = HandStage(p)]
<1>1. /\ call'[r][c].phase = p
      /\ \A q \in Runs, d \in Consumers : (q # r \/ d # c) => call'[q][d] = call[q][d]
  BY CallToForm
<1>2. ASSUME NEW q \in Runs
      PROVE  [d \in Consumers |-> HandStage(call'[q][d].phase)] =
             IF q = r THEN [Hand[r] EXCEPT ![c] = HandStage(p)] ELSE Hand[q]
  <2>1. CASE q = r
    BY <1>1, <2>1 DEF Hand
  <2>2. CASE q # r
    BY <1>1, <2>2 DEF Hand
  <2> QED BY <2>1, <2>2
<1>3. Hand' = [q \in Runs |-> IF q = r THEN [Hand[r] EXCEPT ![c] = HandStage(p)] ELSE Hand[q]]
  BY <1>2 DEF Hand
<1> QED BY <1>3 DEF Hand

\* A step of a run moves its work, and tells nobody anything.
LEMMA WorkMoves ==
  ASSUME DataTyped, NEW r \in Runs, NEW p \in RunPhase \ {"free", "ended"}, RunTo(r, p),
         run[r].phase \notin {"free", "ended"}
  PROVE  Work' = [Work EXCEPT ![r] = WorkStage(p)] /\ Told' = Told
<1>1. /\ run'[r].phase = p /\ run'[r].aborted = run[r].aborted
      /\ \A q \in Runs \ {r} : run'[q] = run[q]
  BY RunToForm DEF DataTyped, RunRecord
<1>2. Work' = [Work EXCEPT ![r] = WorkStage(p)]
  BY <1>1 DEF Work
<1>3. Told' = Told
  BY <1>1 DEF Told
<1> QED BY <1>2, <1>3

\* While the calls are the same, so are the hands; and likewise for the rest.
LEMMA ContractKept ==
  /\ UNCHANGED call => Hand' = Hand
  /\ UNCHANGED run => Work' = Work /\ Told' = Told
  /\ UNCHANGED inbox => CompletedBy' = CompletedBy
  /\ UNCHANGED record => Stage' = Stage
BY DEF Hand, Work, Told, CompletedBy, Stage

\* The members of the contract's sets.
LEMMA ContractSets ==
  /\ Told \subseteq Runs /\ CompletedBy \subseteq Consumers
  /\ \A r \in Runs : r \in Told <=> run[r].aborted /\ run[r].phase \notin {"free", "ended"}
  /\ \A c \in Consumers : c \in CompletedBy <=> inbox[c].state = "complete"
BY DEF Told, CompletedBy

\* What nobody but the runs hears of is a message to them, or nothing.
LEMMA ToldOnly ==
  ASSUME UNCHANGED <<Stage, CompletedBy, Hand, Work>>, Told \subseteq Told', Told' \subseteq Runs
  PROVE  Contract!Next
<1>1. Contract!Tell(Told')
  BY DEF Contract!Tell
<1>2. Told' \in SUBSET Runs
  OBVIOUS
<1> QED BY <1>1, <1>2 DEF Contract!Next

\* Runs that end leave nothing of their own behind.
LEMMA RunsLeave ==
  ASSUME NEW D \in SUBSET Runs,
         \A r \in D : /\ run'[r].phase \in {"free", "ended"}
                      /\ \A c \in Consumers : call'[r][c].phase = "none",
         \A r \in Runs \ D : run'[r] = run[r] /\ call'[r] = call[r]
  PROVE  /\ Hand' = [r \in Runs |-> IF r \in D THEN [c \in Consumers |-> "idle"] ELSE Hand[r]]
         /\ Work' = [r \in Runs |-> IF r \in D THEN "idle" ELSE Work[r]]
         /\ Told' = Told \ D
<1>1. /\ HandStage("none") = "idle"
      /\ WorkStage("free") = "idle" /\ WorkStage("ended") = "idle"
  BY PhaseStages DEF CallPhase, RunPhase
<1>2. \A r \in Runs : [c \in Consumers |-> HandStage(call'[r][c].phase)] =
                      IF r \in D THEN [c \in Consumers |-> "idle"] ELSE Hand[r]
  BY <1>1 DEF Hand
<1>3. \A r \in Runs : WorkStage(run'[r].phase) = IF r \in D THEN "idle" ELSE Work[r]
  BY <1>1 DEF Work
<1>4. Told' = Told \ D
  BY DEF Told
<1> QED BY <1>2, <1>3, <1>4 DEF Hand, Work

\* A settlement ends its run.
LEMMA EndLeaves ==
  ASSUME DataTyped, NEW r \in Runs, End(r)
  PROVE  /\ Hand' = [q \in Runs |-> IF q \in {r} THEN [c \in Consumers |-> "idle"] ELSE Hand[q]]
         /\ Work' = [q \in Runs |-> IF q \in {r} THEN "idle" ELSE Work[q]]
         /\ Told' = Told \ {r}
<1>1. /\ run'[r] = Free \/ run'[r] = [run[r] EXCEPT !.phase = "ended"]
      /\ \A q \in Runs \ {r} : run'[q] = run[q] /\ call'[q] = call[q]
      /\ \A c \in Consumers : call'[r][c] = NoCall
  BY EndForm
<1>2. run[r] \in RunRecord
  BY DEF DataTyped
<1>3. [run[r] EXCEPT !.phase = "ended"].phase = "ended"
  BY <1>2 DEF RunRecord
<1>4. Free.phase = "free" /\ NoCall.phase = "none"
  BY DEF Free, NoCall
<1>5. {r} \in SUBSET Runs
  OBVIOUS
<1>6. \A q \in {r} : /\ run'[q].phase \in {"free", "ended"}
                      /\ \A c \in Consumers : call'[q][c].phase = "none"
  BY <1>1, <1>3, <1>4
<1>7. \A q \in Runs \ {r} : run'[q] = run[q] /\ call'[q] = call[q]
  BY <1>1
<1> QED BY <1>5, <1>6, <1>7, RunsLeave

\* A run at rest in the contract that ends, leaves only the list of those told.
LEMMA RestLeaves ==
  ASSUME DataTyped, NEW r \in Runs, Contract!AtRest(r), End(r)
  PROVE  Hand' = Hand /\ Work' = Work /\ Told' = Told \ {r}
<1>1. /\ Hand' = [q \in Runs |-> IF q \in {r} THEN [c \in Consumers |-> "idle"] ELSE Hand[q]]
      /\ Work' = [q \in Runs |-> IF q \in {r} THEN "idle" ELSE Work[q]]
      /\ Told' = Told \ {r}
  BY EndLeaves
<1>2. Work[r] = "idle" /\ \A c \in Consumers : Hand[r][c] = "idle"
  BY DEF Contract!AtRest
<1>3. /\ \A q \in Runs : Work'[q] = Work[q]
      /\ \A q \in Runs, c \in Consumers : Hand'[q][c] = Hand[q][c]
  BY <1>1, <1>2
<1>4. Hand' = Hand
  BY <1>3, HandKept, LookedUp DEF Hand
<1>5. Work' = Work
  BY <1>3 DEF Work
<1> QED BY <1>1, <1>4, <1>5

\* A run whose calls are over is at rest until it is at the destination.
LEMMA OverRests ==
  ASSUME Typed, CallInv, NEW r \in Runs,
         \/ run[r].phase \in {"free", "claimed", "failing", "dying", "ended"}
         \/ run[r].phase = "consuming" /\ Settled(r)
  PROVE  Contract!AtRest(r)
<1>0. DataTyped
  BY DEF Typed
<1>1. WorkStage(run[r].phase) = "idle"
  BY PhaseStages DEF RunPhase
<1>2. \A c \in Consumers : call[r][c].phase \in {"none", "done", "failed"}
  BY DEF CallInv, CallFits, Over, Settled
<1>3. \A c \in Consumers : HandStage(call[r][c].phase) = "idle"
  BY <1>2, PhaseStages DEF CallPhase
<1> QED BY <1>1, <1>3, LookedUp DEF Contract!AtRest

\* What only an end changes is that of a delivery.
LEMMA EndStep ==
  ASSUME DataTyped, NEW r \in Runs, End(r), UNCHANGED <<Stage, CompletedBy>>
  PROVE  Contract!Next
<1>1. Contract!Leave({r})
  BY EndLeaves DEF Contract!Leave
<1> QED BY <1>1 DEF Contract!Next

\* What a call's step changes besides its phase.
LEMMA CallStepOnly ==
  ASSUME NEW r \in Runs, NEW c \in Consumers,
         \/ CallStep(r, c) \/ HandlerEnds(r, c) \/ InboxCompleteFails(r, c)
  PROVE  UNCHANGED record /\ UNCHANGED run
BY DEF CallStep, TakeSlot, InboxClaim, BusyAborted, InboxAnswered, InboxComplete, InboxRelease,
       HandlerEnds, InboxCompleteFails

\* A call that moves between stages the contract does not tell apart.
LEMMA CallHidden ==
  ASSUME Typed, NEW r \in Runs, NEW c \in Consumers, NEW p \in CallPhase, CallTo(r, c, p),
         HandStage(p) = HandStage(call[r][c].phase),
         UNCHANGED record, UNCHANGED run, UNCHANGED CompletedBy
  PROVE  Contract!Next
<1>0. DataTyped
  BY DEF Typed
<1>1. /\ call'[r][c].phase = p
      /\ \A q \in Runs, d \in Consumers : (q # r \/ d # c) => call'[q][d] = call[q][d]
  BY <1>0, CallToForm
<1>2. Hand' = Hand
  BY <1>1, HandKept
<1> QED BY <1>2, ContractKept, ContractSets, ToldOnly

\* A handler is started by a call that holds the entry: nobody else may be at work untold, nor
\* is the consumer's part complete.
LEMMA HandlerStarts ==
  ASSUME Typed, CallInv, LeaseInv, NEW r \in Runs, NEW c \in Consumers,
         InboxAnswered(r, c), ~run[r].aborted
  PROVE  Contract!Next
<1>0. DataTyped /\ call[r][c].phase = "claimed" /\ CallTo(r, c, "handling")
  BY DEF Typed, InboxAnswered
<1>1. inbox[c].state = "claimed" /\ inbox[c].owner = r
  BY <1>0 DEF LeaseInv, CallLeased
<1>2. run[r].phase = "consuming"
  BY <1>0, CallingRun
<1>3. r \notin Told /\ c \notin CompletedBy
  BY <1>1, ContractSets
<1>4. Work[r] = "idle" /\ Hand[r][c] = "idle"
  BY <1>0, <1>2, PhaseStages, LookedUp DEF CallPhase, RunPhase
<1>5. ASSUME NEW q \in Runs \ {r}, Hand[q][c] = "handling" PROVE q \in Told
  <2>1. call[q][c] \in CallRecord
    BY <1>0 DEF DataTyped
  <2>2. call[q][c].phase = "handling"
    BY <1>5, <2>1, StagePhases, LookedUp DEF CallRecord
  <2>3. run[q].phase = "consuming"
    BY <1>0, <2>2, CallingRun
  <2>4. run[q].aborted
    BY <1>1, <2>2 DEF LeaseInv, CallLeased
  <2> QED BY <2>3, <2>4, ContractSets
<1>6. Hand' = [Hand EXCEPT ![r][c] = "handling"]
  BY <1>0, HandMoves, PhaseStages DEF CallPhase
<1>7. UNCHANGED <<Stage, CompletedBy, Work, Told>>
  BY ContractKept DEF InboxAnswered
<1>8. Contract!Start(r, c)
  BY <1>3, <1>4, <1>5, <1>6, <1>7 DEF Contract!Start, Contract!HandOf
<1> QED BY <1>8 DEF Contract!Next

\* A handler that ends leaves a completion to be stored, or does not.
LEMMA HandlerIsOver ==
  ASSUME Typed, NEW r \in Runs, NEW c \in Consumers, HandlerEnds(r, c)
  PROVE  Contract!Next
<1>0. DataTyped /\ call[r][c].phase = "handling"
  BY DEF Typed, HandlerEnds
<1>1. PICK p \in {"completing", "releasing"} : CallTo(r, c, p)
  BY DEF HandlerEnds
<1>2. HandStage(p) \in {"handled", "idle"} /\ p \in CallPhase
  BY PhaseStages DEF CallPhase
<1>3. Hand' = [Hand EXCEPT ![r][c] = HandStage(p)]
  BY <1>0, <1>1, <1>2, HandMoves
<1>4. Hand[r][c] = "handling"
  BY <1>0, PhaseStages, LookedUp
<1>5. UNCHANGED <<Stage, CompletedBy, Work, Told>>
  BY ContractKept DEF HandlerEnds
<1>6. Contract!HandlerEnds(r, c)
  BY <1>2, <1>3, <1>4, <1>5 DEF Contract!HandlerEnds, Contract!HandOf
<1> QED BY <1>6 DEF Contract!Next

\* A completion is stored by the owner of the entry, which was not complete, or not at all.
LEMMA CompletionSettles ==
  ASSUME Typed, CallInv, NEW r \in Runs, NEW c \in Consumers,
         InboxComplete(r, c) \/ InboxCompleteFails(r, c)
  PROVE  Contract!Next
<1>0. DataTyped /\ inbox \in [Consumers -> InboxEntry] /\ call[r][c].phase = "completing"
  BY DEF Typed, DataTyped, InboxComplete, InboxCompleteFails
<1>1. PICK p \in {"done", "releasing"} : CallTo(r, c, p)
  BY DEF InboxComplete, InboxCompleteFails
<1>2. \/ UNCHANGED inbox
      \/ inbox[c].owner = r /\ inbox' = [inbox EXCEPT ![c] = Completed]
  BY DEF InboxComplete, InboxCompleteFails
<1>3. Hand' = [Hand EXCEPT ![r][c] = "idle"]
  BY <1>0, <1>1, HandMoves, PhaseStages DEF CallPhase
<1>4. Hand[r][c] = "handled"
  BY <1>0, PhaseStages, LookedUp
<1>5. UNCHANGED <<Stage, Work, Told>>
  BY ContractKept, CallStepOnly DEF CallStep
<1>6. \/ UNCHANGED CompletedBy
      \/ c \notin CompletedBy /\ CompletedBy' = CompletedBy \cup {c}
  <2>1. CASE UNCHANGED inbox
    BY <2>1, ContractKept
  <2>2. CASE inbox[c].owner = r /\ inbox' = [inbox EXCEPT ![c] = Completed]
    <3>1. inbox[c].state # "complete"
      BY <2>2, DeliveryConstants DEF CallInv, CompleteIsFinal
    <3>2. Completed.state = "complete"
      BY DEF Completed, NoEntry
    <3> QED BY <1>0, <2>2, <3>1, <3>2 DEF CompletedBy
  <2> QED BY <1>2, <2>1, <2>2
<1>7. Contract!Settle(r, c)
  BY <1>3, <1>4, <1>5, <1>6 DEF Contract!Settle, Contract!HandOf
<1> QED BY <1>7 DEF Contract!Next

\* The inbox entries that are taken and given back are not those of completions.
LEMMA EntriesHidden ==
  ASSUME Typed, CallInv, NEW r \in Runs, NEW c \in Consumers,
         InboxClaim(r, c) \/ InboxRelease(r, c)
  PROVE  UNCHANGED CompletedBy
<1>0. inbox \in [Consumers -> InboxEntry]
  BY DEF Typed, DataTyped
<1>1. CASE InboxClaim(r, c)
  BY <1>0, <1>1 DEF InboxClaim, Duplicate, CompletedBy
<1>2. CASE InboxRelease(r, c)
  <2>1. inbox[c].owner = r => inbox[c].state # "complete"
    BY DeliveryConstants DEF CallInv, CompleteIsFinal
  <2> QED BY <1>0, <1>2, <2>1 DEF InboxRelease, NoEntry, CompletedBy
<1> QED BY <1>1, <1>2

\* The steps of a call are steps of the contract.
LEMMA CallContract ==
  ASSUME Typed, CallInv, LeaseInv, NEW r \in Runs, NEW c \in Consumers,
         \/ CallStep(r, c) \/ HandlerEnds(r, c) \/ InboxCompleteFails(r, c) \/ CallRenewed(r, c)
  PROVE  Contract!Next
<1>0. DataTyped
  BY DEF Typed
<1>a. \A p \in {"slot", "inbox", "claimed", "releasing", "done", "failed"} :
        p \in CallPhase /\ HandStage(p) = "idle"
  BY PhaseStages DEF CallPhase
<1>1. CASE TakeSlot(r, c) \/ BusyAborted(r, c)
  <2>1. PICK p \in {"failed", "inbox"} : CallTo(r, c, p)
    BY <1>1 DEF TakeSlot, BusyAborted
  <2>2. /\ call[r][c].phase \in {"slot", "inbox"}
        /\ UNCHANGED record /\ UNCHANGED run /\ UNCHANGED inbox
    BY <1>1 DEF TakeSlot, BusyAborted
  <2> QED BY <1>a, <2>1, <2>2, CallHidden, ContractKept
<1>2. CASE InboxClaim(r, c) \/ InboxRelease(r, c)
  <2>1. PICK p \in {"done", "claimed", "failed"} : CallTo(r, c, p)
    BY <1>2 DEF InboxClaim, InboxRelease
  <2>2. call[r][c].phase \in {"inbox", "releasing"} /\ UNCHANGED record /\ UNCHANGED run
    BY <1>2 DEF InboxClaim, InboxRelease
  <2> QED BY <1>2, <1>a, <2>1, <2>2, CallHidden, EntriesHidden
<1>3. CASE InboxAnswered(r, c) /\ run[r].aborted
  <2>1. CallTo(r, c, "releasing") /\ call[r][c].phase = "claimed"
    BY <1>3 DEF InboxAnswered
  <2>2. UNCHANGED record /\ UNCHANGED run /\ UNCHANGED inbox
    BY <1>3 DEF InboxAnswered
  <2> QED BY <1>a, <2>1, <2>2, CallHidden, ContractKept
<1>4. CASE InboxAnswered(r, c) /\ ~run[r].aborted
  BY <1>4, HandlerStarts
<1>5. CASE HandlerEnds(r, c)
  BY <1>5, HandlerIsOver
<1>6. CASE InboxComplete(r, c) \/ InboxCompleteFails(r, c)
  BY <1>6, CompletionSettles
<1>7. CASE CallRenewed(r, c)
  <2>1. /\ \A d \in Consumers : inbox'[d].state = inbox[d].state
        /\ \A q \in Runs : /\ run'[q].phase = run[q].phase
                           /\ run[q].aborted => run'[q].aborted
        /\ \A q \in Runs, d \in Consumers : call'[q][d].phase = call[q][d].phase
    BY <1>7, CallRenewedForm
  <2>2. Hand' = Hand /\ Work' = Work
    BY <2>1, HandKept, WorkKept
  <2>3. UNCHANGED <<Stage, CompletedBy>>
    BY <1>7, <2>1 DEF CallRenewed, Stage, CompletedBy
  <2>4. Told \subseteq Told' /\ Told' \subseteq Runs
    BY <2>1 DEF Told
  <2> QED BY <2>2, <2>3, <2>4, ToldOnly
<1> QED BY <1>1, <1>2, <1>3, <1>4, <1>5, <1>6, <1>7 DEF CallStep

\* A run is called by its manager's claim: the contract does not see it.
LEMMA ClaimHidden ==
  ASSUME Typed, CallInv, NEW r \in Runs, ClaimAnswered(r)
  PROVE  Contract!Next
<1>0. DataTyped /\ run[r] \in RunRecord
  BY DEF Typed, DataTyped
<1>1. run[r].phase = "claimed" /\ \A c \in Consumers : call[r][c].phase = "none"
  BY DEF ClaimAnswered, CallInv, CallFits
<1>2. /\ run'[r].phase = "consuming" /\ run'[r].aborted = run[r].aborted
      /\ \A q \in Runs \ {r} : run'[q] = run[q] /\ call'[q] = call[q]
      /\ \A c \in Consumers : call'[r][c].phase = "slot"
  BY <1>0 DEF ClaimAnswered, DataTyped, NoCall, RunRecord
<1>3. Work' = Work
  BY <1>1, <1>2, WorkKept, PhaseStages DEF RunPhase
<1>4. Hand' = Hand
  BY <1>1, <1>2, HandKept, PhaseStages DEF CallPhase
<1>5. Told' = Told
  BY <1>1, <1>2 DEF Told
<1>6. UNCHANGED <<Stage, CompletedBy>>
  BY ContractKept DEF ClaimAnswered
<1> QED BY <1>3, <1>4, <1>5, <1>6, ToldOnly, ContractSets

\* Whose calls are all done, has seen every consumer complete, unless the event was purged.
LEMMA DoneByAll ==
  ASSUME CallInv, NEW r \in Runs, \A c \in Consumers : call[r][c].phase = "done"
  PROVE  CompletedBy = Consumers \/ Stage = "purged"
BY DEF CallInv, DoneIsComplete, CompletedBy, Stage

\* The consumers have settled: a delivery begins, or the run fails.
LEMMA SettlingIsDelivery ==
  ASSUME Typed, FenceInv, CallInv, LeaseInv, NEW r \in Runs, ConsumersSettle(r)
  PROVE  Contract!Next
<1>0. DataTyped /\ run[r].phase = "consuming" /\ Settled(r)
  BY DEF Typed, ConsumersSettle, MaySettle
<1>1. Contract!AtRest(r)
  BY <1>0, OverRests
<1>2. UNCHANGED <<Stage, CompletedBy, Hand>>
  BY ContractKept DEF ConsumersSettle
<1>3. CASE RunTo(r, "failing")
  <2>1. Work' = [Work EXCEPT ![r] = "idle"] /\ Told' = Told
    BY <1>0, <1>3, WorkMoves, PhaseStages DEF RunPhase
  <2>2. Work[r] = "idle"
    BY <1>1 DEF Contract!AtRest
  <2>3. Work' = Work
    BY <2>1, <2>2 DEF Work
  <2> QED BY <1>2, <2>1, <2>3, ToldOnly, ContractSets
<1>4. CASE RunTo(r, IF Bound THEN "delivering" ELSE "completing") /\ ~Failed(r)
  <2>1. /\ Work' = [Work EXCEPT ![r] = IF Bound THEN "delivering" ELSE "delivered"]
        /\ Told' = Told
    BY <1>0, <1>4, WorkMoves, PhaseStages DEF RunPhase
  <2>2. \A c \in Consumers : call[r][c].phase = "done"
    BY <1>0, <1>4 DEF Settled, Failed
  <2>3. CompletedBy = Consumers \/ Stage = "purged"
    BY <2>2, DoneByAll
  <2>4. ASSUME r \notin Told, NEW q \in Runs \ {r}, Work[q] = "delivering" PROVE q \in Told
    <3>1. ~run[r].aborted
      BY <1>0, <2>4, ContractSets
    <3>2. run[q] \in RunRecord
      BY <1>0 DEF DataTyped
    <3>3. run[q].phase = "delivering"
      BY <2>4, <3>2, StagePhases, LookedUp DEF RunRecord
    <3>4. record.attempts = run[r].attempts
      BY <1>0, <3>1 DEF LeaseInv, RunLeased, HoldsLease
    <3>5. run[q].attempts # run[r].attempts
      BY <1>0, <3>3 DEF FenceInv
    <3>6. run[q].aborted
      BY <3>3, <3>4, <3>5 DEF LeaseInv, RunLeased, HoldsLease
    <3> QED BY <3>3, <3>6, ContractSets
  <2>5. Contract!Deliver(r)
    BY <1>1, <1>2, <2>1, <2>3, <2>4 DEF Contract!Deliver, Contract!WorkOf
  <2> QED BY <2>5 DEF Contract!Next
<1> QED BY <1>3, <1>4 DEF ConsumersSettle

\* A run leaves the destination, or what it has done there comes to nothing.
LEMMA DeliveryIsOver ==
  ASSUME Typed, NEW r \in Runs, NEW p \in {"completing", "failing", "dying"}, RunTo(r, p),
         \/ run[r].phase = "delivering"
         \/ run[r].phase = "completing" /\ p # "completing",
         UNCHANGED <<Stage, inbox, call>>
  PROVE  Contract!Next
<1>0. DataTyped
  BY DEF Typed
<1>1. Work' = [Work EXCEPT ![r] = WorkStage(p)] /\ Told' = Told
  BY <1>0, WorkMoves DEF RunPhase
<1>2. /\ run[r].phase = "delivering" => Work[r] = "delivering"
      /\ run[r].phase = "completing" => Work[r] = "delivered"
      /\ WorkStage(p) = IF p = "completing" THEN "delivered" ELSE "idle"
  BY PhaseStages, LookedUp DEF RunPhase
<1>3. UNCHANGED <<CompletedBy, Hand>>
  BY ContractKept
<1>4. Contract!DeliveryEnds(r)
  BY <1>1, <1>2, <1>3 DEF Contract!DeliveryEnds, Contract!WorkOf
<1> QED BY <1>4 DEF Contract!Next

\* Who holds the lease works on an open event.
LEMMA HeldIsOpen ==
  ASSUME FenceInv, NEW r \in Runs, run[r].phase # "free", HoldsLease(r)
  PROVE  record.status = "dispatching" /\ Stage = "open"
BY DeliveryConstants DEF FenceInv, HoldsLease, Stage

\* A run that has completed everything dispatches the event.
LEMMA CompletionDispatches ==
  ASSUME Typed, FenceInv, CallInv, NEW r \in Runs, run[r].phase = "completing", HoldsLease(r),
         record' = Unleased("dispatched"), UNCHANGED inbox,
         End(r) \/ (RunTo(r, "failing") /\ UNCHANGED call)
  PROVE  Contract!Next
<1>0. DataTyped
  BY DEF Typed
<1>1. Stage = "open"
  BY HeldIsOpen
<1>2. Stage' = "dispatched"
  BY <1>0, UnleasedForm DEF Stage
<1>3. \A c \in Consumers : call[r][c].phase = "done"
  BY DEF CallInv, CallFits
<1>4. CompletedBy = Consumers /\ CompletedBy' = CompletedBy
  BY <1>1, <1>3, DoneByAll, ContractKept
<1>5. Work[r] = "delivered"
  BY PhaseStages, LookedUp
<1>6. /\ Work' = [Work EXCEPT ![r] = "idle"] /\ Hand' = Hand
      /\ Told' = Told \/ Told' = Told \ {r}
  <2>1. CASE End(r)
    <3>1. /\ Hand' = [q \in Runs |-> IF q \in {r} THEN [c \in Consumers |-> "idle"] ELSE Hand[q]]
          /\ Work' = [q \in Runs |-> IF q \in {r} THEN "idle" ELSE Work[q]]
          /\ Told' = Told \ {r}
      BY <1>0, <2>1, EndLeaves
    <3>2. \A c \in Consumers : Hand[r][c] = "idle"
      BY <1>3, PhaseStages, LookedUp DEF CallPhase
    <3>3. \A q \in Runs, c \in Consumers : Hand'[q][c] = Hand[q][c]
      BY <3>1, <3>2
    <3>4. Hand' = Hand
      BY <3>3, HandKept, LookedUp DEF Hand
    <3>5. Work' = [Work EXCEPT ![r] = "idle"]
      BY <3>1 DEF Work
    <3> QED BY <3>1, <3>4, <3>5
  <2>2. CASE RunTo(r, "failing") /\ UNCHANGED call
    BY <1>0, <2>2, WorkMoves, PhaseStages, ContractKept DEF RunPhase
  <2> QED BY <2>1, <2>2
<1>7. Contract!Dispatch(r)
  BY <1>1, <1>2, <1>4, <1>5, <1>6 DEF Contract!Dispatch, Contract!Becomes, Contract!WorkOf
<1> QED BY <1>7 DEF Contract!Next

\* A run that has failed leaves; it gives the event up with its last attempt.
LEMMA RejectionLeaves ==
  ASSUME Typed, FenceInv, CallInv, NEW r \in Runs, run[r].phase \in {"failing", "dying"},
         \/ record' = record
         \/ HoldsLease(r) /\ record' = Unleased(Outcome(r)),
         UNCHANGED inbox, End(r)
  PROVE  Contract!Next
<1>0. DataTyped
  BY DEF Typed
<1>1. UNCHANGED CompletedBy
  BY ContractKept
<1>2. CASE record' = record
  BY <1>0, <1>1, <1>2, EndStep, ContractKept
<1>3. CASE HoldsLease(r) /\ record' = Unleased(Outcome(r))
  <2>1. record.status = "dispatching" /\ Stage = "open"
    BY <1>3, HeldIsOpen
  <2>2. Outcome(r) \in {"dead", "failed"}
    BY DEF Outcome
  <2>3. record'.status = Outcome(r)
    BY <1>0, <1>3, <2>2, UnleasedForm
  <2>4. CASE Outcome(r) = "failed"
    <3>1. Stage' = Stage
      BY <2>1, <2>3, <2>4 DEF Stage
    <3> QED BY <1>0, <1>1, <3>1, EndStep
  <2>5. CASE Outcome(r) = "dead"
    <3>1. Stage' = "dead"
      BY <2>3, <2>5 DEF Stage
    <3>2. Contract!AtRest(r)
      BY OverRests
    <3>3. Hand' = Hand /\ Work' = Work /\ Told' = Told \ {r}
      BY <1>0, <3>2, RestLeaves
    <3>4. Contract!GiveUp(r)
      BY <1>1, <2>1, <3>1, <3>2, <3>3 DEF Contract!GiveUp, Contract!Becomes
    <3> QED BY <3>4 DEF Contract!Next
  <2> QED BY <2>2, <2>4, <2>5
<1> QED BY <1>2, <1>3

\* The steps of a run are steps of the contract.
LEMMA RunContract ==
  ASSUME Typed, FenceInv, CallInv, LeaseInv, NEW r \in Runs,
         \/ RunStep(r) \/ DeliveryEnds(r) \/ RunRenewed(r)
         \/ ClaimLost(r) \/ DeliveryTimeout(r) \/ SettleFails(r)
  PROVE  Contract!Next
<1>0. DataTyped
  BY DEF Typed
<1>1. CASE ClaimAnswered(r)
  BY <1>1, ClaimHidden
<1>2. CASE ConsumersSettle(r)
  BY <1>2, SettlingIsDelivery
<1>3. CASE DeliveryEnds(r)
  <2>1. PICK p \in {"completing", "failing", "dying"} : RunTo(r, p)
    BY <1>3 DEF DeliveryEnds
  <2>2. run[r].phase = "delivering" /\ UNCHANGED <<Stage, inbox, call>>
    BY <1>3, ContractKept DEF DeliveryEnds
  <2> QED BY <2>1, <2>2, DeliveryIsOver
<1>4. CASE Complete(r)
  <2>1. run[r].phase = "completing" /\ UNCHANGED inbox
    BY <1>4 DEF Complete
  <2>2. CASE HoldsLease(r) /\ End(r) /\ record' = Unleased("dispatched")
    BY <2>1, <2>2, CompletionDispatches
  <2>3. CASE RunTo(r, "failing") /\ UNCHANGED <<record, call>>
    <3>1. UNCHANGED Stage
      BY <2>3, ContractKept
    <3> QED BY <2>1, <2>3, <3>1, DeliveryIsOver
  <2> QED BY <1>4, <2>2, <2>3 DEF Complete
<1>5. CASE Reject(r)
  BY <1>5, RejectionLeaves DEF Reject
<1>6. CASE SettleFails(r)
  <2>1. UNCHANGED inbox
    BY <1>6 DEF SettleFails
  <2>2. CASE /\ run[r].phase = "completing" /\ RunTo(r, "failing") /\ UNCHANGED call
             /\ HoldsLease(r) /\ record' = Unleased("dispatched")
    BY <2>1, <2>2, CompletionDispatches
  <2>3. CASE /\ run[r].phase = "completing" /\ RunTo(r, "failing") /\ UNCHANGED call
             /\ record' = record
    <3>1. UNCHANGED Stage
      BY <2>3, ContractKept
    <3> QED BY <2>1, <2>3, <3>1, DeliveryIsOver
  <2>4. CASE /\ run[r].phase \in {"failing", "dying"} /\ End(r)
             /\ record' \in {record, IF HoldsLease(r) THEN Unleased(Outcome(r)) ELSE record}
    BY <2>1, <2>4, RejectionLeaves
  <2> QED BY <1>6, <2>2, <2>3, <2>4 DEF SettleFails
<1>7. CASE RunRenewed(r)
  <2>1. /\ record'.status = record.status
        /\ \A q \in Runs \ {r} : run'[q] = run[q]
        /\ IF run[r].phase = "ended" THEN run'[r] = Free
           ELSE /\ run'[r].phase = run[r].phase
                /\ ~run'[r].aborted => ~run[r].aborted
    BY <1>7, RunRenewedForm
  <2>2. UNCHANGED <<Hand, CompletedBy>>
    BY <1>7, ContractKept DEF RunRenewed
  <2>3. UNCHANGED Stage
    BY <2>1 DEF Stage
  <2>4. UNCHANGED Work
    <3>1. WorkStage("ended") = "idle" /\ WorkStage(Free.phase) = "idle"
      BY PhaseStages DEF RunPhase, Free
    <3> QED BY <2>1, <3>1, WorkKept
  <2>5. Told \subseteq Told' /\ Told' \subseteq Runs
    BY <2>1 DEF Told
  <2> QED BY <2>2, <2>3, <2>4, <2>5, ToldOnly
<1>8. CASE ClaimLost(r)
  <2>1. run[r].phase = "claimed" /\ \A c \in Consumers : call[r][c].phase = "none"
    BY <1>8 DEF ClaimLost, CallInv, CallFits
  <2>2. \A q \in {r} : /\ run'[q].phase \in {"free", "ended"}
                       /\ \A c \in Consumers : call'[q][c].phase = "none"
    BY <1>0, <1>8, <2>1 DEF ClaimLost, DataTyped, Free
  <2>3. \A q \in Runs \ {r} : run'[q] = run[q] /\ call'[q] = call[q]
    BY <1>0, <1>8 DEF ClaimLost, DataTyped
  <2>4. UNCHANGED <<Stage, CompletedBy>>
    BY <1>8, ContractKept DEF ClaimLost
  <2>5. {r} \in SUBSET Runs
    OBVIOUS
  <2>6. Contract!Leave({r})
    BY <2>2, <2>3, <2>4, <2>5, RunsLeave DEF Contract!Leave
  <2> QED BY <2>5, <2>6 DEF Contract!Next
<1>9. CASE DeliveryTimeout(r)
  <2>1. \A q \in Runs : /\ run'[q].phase = run[q].phase
                        /\ run[q].aborted => run'[q].aborted
    BY <1>0, <1>9 DEF DeliveryTimeout, DataTyped, RunRecord
  <2>2. UNCHANGED <<Stage, CompletedBy, Hand>>
    BY <1>9, ContractKept DEF DeliveryTimeout
  <2>3. UNCHANGED Work
    BY <2>1, WorkKept
  <2>4. Told \subseteq Told' /\ Told' \subseteq Runs
    BY <2>1 DEF Told
  <2> QED BY <2>2, <2>3, <2>4, ToldOnly
<1> QED BY <1>1, <1>2, <1>3, <1>4, <1>5, <1>6, <1>7, <1>8, <1>9 DEF RunStep

\* An event that has expired was published.
ExpiredIsPublished == expired => record.status # "absent"

\* No step takes a publication back.
LEMMA PublishedStays ==
  ASSUME Typed, [Next]_vars, record.status # "absent"
  PROVE  record'.status # "absent"
<1>0. DataTyped /\ record \in OutboxRecord
  BY DEF Typed, DataTyped
<1>a. \A s \in {"queued", "dispatched", "failed", "dead", "purged"} : Unleased(s).status = s
  BY <1>0, UnleasedForm
<1>b. \A r \in Runs : Outcome(r) \in {"dead", "failed"}
  BY DEF Outcome
<1>1. CASE \E r \in Runs : Complete(r) \/ SettleFails(r) \/ Reject(r)
  BY <1>a, <1>b, <1>1 DEF Complete, SettleFails, Reject
<1>2. CASE \E r \in Runs : RunRenewed(r)
  BY <1>2, RunRenewedForm
<1>3. CASE Tick
  BY <1>3, TickForm
<1>4. CASE \E r \in Runs : ClaimAnswered(r) \/ ConsumersSettle(r) \/ DeliveryEnds(r)
                           \/ ClaimLost(r) \/ DeliveryTimeout(r)
  BY <1>4 DEF ClaimAnswered, ConsumersSettle, DeliveryEnds, ClaimLost, DeliveryTimeout
<1>5. CASE \E m \in Managers : Shutdown(m) \/ Close(m) \/ Crash(m)
  BY <1>5 DEF Shutdown, Close, Crash
<1>6. CASE \E m \in Managers : Claim(m)
  BY <1>6, ClaimForm
<1>7. CASE \E r \in Runs, c \in Consumers :
             CallStep(r, c) \/ HandlerEnds(r, c) \/ CallRenewed(r, c) \/ InboxCompleteFails(r, c)
  BY <1>7, CallStepOnly DEF CallRenewed
<1>8. CASE UNCHANGED vars \/ Publish \/ Expire \/ RetryDeadLetter \/ CancelScheduled
  BY <1>0, <1>8 DEF vars, Publish, Expire, RetryDeadLetter, CancelScheduled, OutboxRecord
<1>9. CASE PurgeExpired
  BY <1>a, <1>9 DEF PurgeExpired
<1>10. CASE Replay
  <2>1. Unleased("queued") \in OutboxRecord /\ Unleased("queued").status = "queued"
    BY <1>0, UnleasedForm
  <2> QED BY <1>10, <2>1 DEF Replay, OutboxRecord
<1> QED BY <1>1, <1>2, <1>3, <1>4, <1>5, <1>6, <1>7, <1>8, <1>9, <1>10
        DEF Next, Failure, Administration, RunStep

\* Only what is published expires.
LEMMA ExpiryStep ==
  ASSUME Typed, ExpiredIsPublished, [Next]_vars PROVE ExpiredIsPublished'
<1>1. CASE Expire
  BY <1>1, PublishedStays DEF Expire, ExpiredIsPublished
<1>2. CASE ~Expire
  <2>1. expired' = expired
    BY <1>2 DEF Next, vars, Publish, Tick, PurgeExpired, Claim, ClaimDue, Shutdown, Close, RunStep,
          ClaimAnswered, ConsumersSettle, Complete, Reject, DeliveryEnds, RunRenewed, CallStep,
          TakeSlot, InboxClaim, BusyAborted, InboxAnswered, InboxComplete, InboxRelease,
          HandlerEnds, CallRenewed, Failure, ClaimLost, DeliveryTimeout, SettleFails,
          InboxCompleteFails, Crash, Administration, Replay, RetryDeadLetter, CancelScheduled
  <2> QED BY <2>1, PublishedStays DEF ExpiredIsPublished
<1> QED BY <1>1, <1>2

\* The steps of a manager are hidden from the contract, but for what a crash ends.
LEMMA ManagerContract ==
  ASSUME Typed, CallInv, NEW m \in Managers, Claim(m) \/ Shutdown(m) \/ Close(m) \/ Crash(m)
  PROVE  Contract!Next
<1>0. DataTyped
  BY DEF Typed
<1>1. CASE Claim(m)
  <2>1. PICK r \in Runs : /\ run[r].phase = "free" /\ ClaimDue(m, r)
                          /\ record'.status = "dispatching" /\ run'[r].phase = "claimed"
                          /\ \A q \in Runs \ {r} : run'[q] = run[q]
    BY <1>1, ClaimForm
  <2>2. /\ record.status \in {"queued", "failed", "dispatching"}
        /\ UNCHANGED inbox /\ UNCHANGED call
        /\ run' = [run EXCEPT ![r] = [Free EXCEPT !.mgr = m, !.phase = "claimed",
                                                  !.attempts = record.attempts + 1]]
    BY <2>1 DEF ClaimDue, Due
  <2>3. ~run'[r].aborted
    <3>1. PICK x : x = record.attempts + 1
      OBVIOUS
    <3>2. run'[r] = [Free EXCEPT !.mgr = m, !.phase = "claimed", !.attempts = x]
      BY <1>0, <2>2, <3>1 DEF DataTyped
    <3> QED BY <3>2 DEF Free
  <2>4. UNCHANGED Stage
    BY <2>1, <2>2 DEF Stage
  <2>5. UNCHANGED Work
    <3>1. WorkStage("claimed") = "idle" /\ WorkStage("free") = "idle"
      BY PhaseStages DEF RunPhase
    <3> QED BY <2>1, <3>1, WorkKept
  <2>6. UNCHANGED Told
    BY <2>1, <2>3 DEF Told
  <2> QED BY <2>2, <2>4, <2>5, <2>6, ToldOnly, ContractKept, ContractSets
<1>2. CASE Shutdown(m)
  <2>1. ASSUME NEW r \in Runs
        PROVE  /\ run'[r].phase = run[r].phase
               /\ run[r].aborted => run'[r].aborted
    <3>1. run'[r] = run[r] \/ run'[r] = [run[r] EXCEPT !.aborted = TRUE]
      BY <1>2 DEF Shutdown
    <3>2. run[r] \in RunRecord
      BY <1>0 DEF DataTyped
    <3> QED BY <3>1, <3>2 DEF RunRecord
  <2>2. UNCHANGED <<Stage, CompletedBy, Hand>>
    BY <1>2, ContractKept DEF Shutdown
  <2>3. UNCHANGED Work
    BY <2>1, WorkKept
  <2>4. Told \subseteq Told' /\ Told' \subseteq Runs
    BY <2>1 DEF Told
  <2> QED BY <2>2, <2>3, <2>4, ToldOnly
<1>3. CASE Close(m)
  BY <1>3, ToldOnly, ContractKept, ContractSets DEF Close
<1>4. CASE Crash(m)
  <2>1. RunsOf(m) \in SUBSET Runs
    BY DEF RunsOf
  <2>2. \A r \in RunsOf(m) : /\ run'[r].phase \in {"free", "ended"}
                             /\ \A c \in Consumers : call'[r][c].phase = "none"
    BY <1>4, <2>1 DEF Crash, Free, NoCall
  <2>3. \A r \in Runs \ RunsOf(m) : run'[r] = run[r] /\ call'[r] = call[r]
    BY <1>4 DEF Crash
  <2>4. UNCHANGED <<Stage, CompletedBy>>
    BY <1>4, ContractKept DEF Crash
  <2>5. Contract!Leave(RunsOf(m))
    BY <2>1, <2>2, <2>3, <2>4, RunsLeave DEF Contract!Leave
  <2> QED BY <2>1, <2>5 DEF Contract!Next
<1> QED BY <1>1, <1>2, <1>3, <1>4

\* An inbox that is cleared knows no completion.
LEMMA InboxCleared == ASSUME inbox' = NoInbox PROVE CompletedBy' = {}
BY DEF NoInbox, NoEntry, CompletedBy

\* The administrator reopens an event only while no delivery is under way.
LEMMA AdminContract ==
  ASSUME QuietAdmin, Typed, CallInv, Administration PROVE Contract!Next
<1>0. DataTyped /\ record \in OutboxRecord
  BY DEF Typed, DataTyped
<1>1. CASE CancelScheduled
  <2>1. record'.status = "cancelled" /\ record.status \in {"queued", "failed"}
    BY <1>0, <1>1 DEF CancelScheduled, OutboxRecord
  <2>2. Stage = "open" /\ Stage' = "cancelled"
    BY <2>1 DEF Stage
  <2>3. UNCHANGED <<CompletedBy, Hand, Work, Told>>
    BY <1>1, ContractKept DEF CancelScheduled
  <2>4. Contract!Cancel
    BY <2>2, <2>3 DEF Contract!Cancel, Contract!Becomes
  <2> QED BY <2>4 DEF Contract!Next
<1>2. CASE Replay \/ RetryDeadLetter
  <2>1. \A r \in Runs : run[r].phase = "free"
    BY <1>2 DEF Replay, RetryDeadLetter, Again, QuietAdmin
  <2>2. Told = {} /\ \A r \in Runs : Contract!AtRest(r)
    BY <2>1, OverRests DEF Told
  <2>3. UNCHANGED <<Hand, Work, Told>>
    BY <1>2, ContractKept DEF Replay, RetryDeadLetter
  <2>4. /\ record'.status = "queued" /\ record.status \in {"dead", "dispatched", "cancelled"}
        /\ record.status = "dead" \/ inbox' = NoInbox
    <3>1. CASE Replay
      <4>1. Unleased("queued") \in OutboxRecord /\ Unleased("queued").status = "queued"
        BY <1>0, UnleasedForm
      <4> QED BY <3>1, <4>1 DEF Replay, OutboxRecord
    <3>2. CASE RetryDeadLetter
      BY <1>0, <3>2 DEF RetryDeadLetter, OutboxRecord
    <3> QED BY <1>2, <3>1, <3>2
  <2>5. Stage = record.status /\ Stage' = "open"
    BY <2>4 DEF Stage
  <2>6. CompletedBy' = {} \/ (Stage = "dead" /\ CompletedBy' = CompletedBy)
    BY <1>2, <2>5, InboxCleared, ContractKept DEF Replay, RetryDeadLetter
  <2>7. Contract!Reopen
    BY <2>2, <2>3, <2>4, <2>5, <2>6 DEF Contract!Reopen, Contract!Becomes
  <2> QED BY <2>7 DEF Contract!Next
<1> QED BY <1>1, <1>2 DEF Administration

\* Publication, time, expiry and purge.
LEMMA RecordContract ==
  ASSUME Typed, ExpiredIsPublished, Publish \/ Tick \/ Expire \/ PurgeExpired
  PROVE  Contract!Next
<1>0. DataTyped /\ record \in OutboxRecord
  BY DEF Typed, DataTyped
<1>1. CASE Publish
  <2>1. record.status = "absent" /\ record'.status = "queued"
    BY <1>0, <1>1 DEF Publish, OutboxRecord
  <2>2. Stage = "absent" /\ Stage' = "open"
    BY <2>1 DEF Stage
  <2>3. UNCHANGED <<CompletedBy, Hand, Work, Told>>
    BY <1>1, ContractKept DEF Publish
  <2>4. Contract!Publish
    BY <2>2, <2>3 DEF Contract!Publish, Contract!Becomes
  <2> QED BY <2>4 DEF Contract!Next
<1>2. CASE Tick
  <2>1. /\ record'.status = record.status
        /\ \A c \in Consumers : inbox'[c].state = inbox[c].state
        /\ \A r \in Runs : /\ run'[r].phase = run[r].phase
                           /\ ~run'[r].aborted => ~run[r].aborted
        /\ \A r \in Runs, c \in Consumers : call'[r][c].phase = call[r][c].phase
    BY <1>2, TickForm
  <2>2. UNCHANGED <<Stage, CompletedBy>>
    BY <2>1 DEF Stage, CompletedBy
  <2>3. Hand' = Hand /\ Work' = Work
    BY <2>1, HandKept, WorkKept
  <2>4. Told \subseteq Told' /\ Told' \subseteq Runs
    BY <2>1 DEF Told
  <2> QED BY <2>2, <2>3, <2>4, ToldOnly
<1>3. CASE Expire
  BY <1>3, ToldOnly, ContractKept, ContractSets DEF Expire
<1>4. CASE PurgeExpired
  <2>1. record.status \notin {"absent", "purged"} /\ record'.status = "purged"
    BY <1>0, <1>4, UnleasedForm DEF PurgeExpired, ExpiredIsPublished
  <2>2. Stage \notin {"absent", "purged"} /\ Stage' = "purged"
    BY <2>1 DEF Stage
  <2>3. CompletedBy' = {}
    BY <1>4, InboxCleared DEF PurgeExpired
  <2>4. UNCHANGED <<Hand, Work, Told>>
    BY <1>4, ContractKept DEF PurgeExpired
  <2>5. Contract!Purge
    BY <2>2, <2>3, <2>4 DEF Contract!Purge, Contract!Becomes
  <2> QED BY <2>5 DEF Contract!Next
<1> QED BY <1>1, <1>2, <1>3, <1>4

\* Nothing has happened to the event at first.
LEMMA ContractInit == Init => Contract!Init
<1> SUFFICES ASSUME Init PROVE Contract!Init
  OBVIOUS
<1>1. HandStage("none") = "idle" /\ WorkStage("free") = "idle"
  BY PhaseStages DEF CallPhase, RunPhase
<1>2. Stage = "absent" /\ CompletedBy = {} /\ Told = {}
  BY DEF Init, Stage, CompletedBy, Told, NoInbox, NoEntry, Free
<1>3. Hand = [r \in Runs |-> [c \in Consumers |-> "idle"]]
  BY <1>1 DEF Init, Hand, NoCall
<1>4. Work = [r \in Runs |-> "idle"]
  BY <1>1 DEF Init, Work, Free
<1> QED BY <1>2, <1>3, <1>4 DEF Contract!Init

\* Every step is one of the contract.
LEMMA ContractStep ==
  ASSUME QuietAdmin, Typed, FenceInv, CallInv, LeaseInv, ExpiredIsPublished, Next
  PROVE  Contract!Next
<1>1. CASE Publish \/ Tick \/ Expire \/ PurgeExpired
  BY <1>1, RecordContract
<1>2. CASE \E m \in Managers : Claim(m) \/ Shutdown(m) \/ Close(m) \/ Crash(m)
  BY <1>2, ManagerContract
<1>3. CASE \E r \in Runs : \/ RunStep(r) \/ DeliveryEnds(r) \/ RunRenewed(r)
                           \/ ClaimLost(r) \/ DeliveryTimeout(r) \/ SettleFails(r)
  BY <1>3, RunContract
<1>4. CASE \E r \in Runs, c \in Consumers :
             \/ CallStep(r, c) \/ HandlerEnds(r, c) \/ CallRenewed(r, c)
             \/ InboxCompleteFails(r, c)
  BY <1>4, CallContract
<1>5. CASE Administration
  BY <1>5, AdminContract
<1> QED BY <1>1, <1>2, <1>3, <1>4, <1>5 DEF Next, Failure

\* With leases long enough, and attempts reset only while no run is in progress, the managers
\* keep the contract of EventContract: at most one handler of a consumer and one delivery to
\* the destination go on untold, a consumer that has completed the event is not handed it
\* again before a replay, the destination comes after all consumers, and only a delivery that
\* has done all of this dispatches the event.
THEOREM DeliveryImplementsContract ==
  ASSUME QuietAdmin, LongLeases PROVE Spec => ImplementsContract
<1>1. Init => ExpiredIsPublished
  BY DEF Init, ExpiredIsPublished
<1>2. QuietInv /\ ExpiredIsPublished /\ [Next]_vars => ExpiredIsPublished'
  BY ExpiryStep DEF QuietInv
<1>3. QuietInv /\ LeaseInv /\ ExpiredIsPublished /\ [Next]_vars =>
        [Contract!Next]_(Contract!contract)
  <2> SUFFICES ASSUME QuietInv, LeaseInv, ExpiredIsPublished, [Next]_vars
               PROVE  [Contract!Next]_(Contract!contract)
    OBVIOUS
  <2>1. CASE Next
    BY <2>1, QuietAdmin, ContractStep DEF QuietInv
  <2>2. CASE UNCHANGED vars
    BY <2>2, ContractKept DEF vars, Contract!contract
  <2> QED BY <2>1, <2>2
<1> QED BY <1>1, <1>2, <1>3, ContractInit, LeaseInvariant, PTL
        DEF Spec, ImplementsContract, Contract!Spec
================================================================================
