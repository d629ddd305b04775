--------------------------- MODULE JobsStore_proofs ----------------------------
(***************************************************************************)
(* Theorems about JobsStore for every value of its constants: types,       *)
(* leases and attempts; dead letters, idempotency claims and what a step   *)
(* may never do; concurrency and capacities; the refinement of JobsLedger. *)
(***************************************************************************)
EXTENDS JobsStore, FiniteSetTheorems, TLAPS

\* A lag is a natural number.
LEMMA LagIsNat == ASSUME NEW d \in Lag PROVE d \in Nat
  BY StoreConstants DEF Lag

\* A delay is a natural number.
LEMMA DelayIsNat == ASSUME NEW x \in Delay PROVE x \in Nat
  BY StoreConstants DEF Delay

\* The statuses a run can be given.
LEMMA StatusFacts ==
    /\ \A s \in {"absent", "queued", "running", "retryable", "completed",
                 "cancelled", "dead-lettered", "deleted"} : s \in Status
    /\ Present = {"queued", "running", "retryable", "completed", "cancelled",
                  "dead-lettered"}
  BY DEF Status, Present, Live, Terminal

\* A run that ends is still a run record.
LEMMA EndedIsRun ==
  ASSUME TypeOK, NEW r \in RunId, NEW s \in Status, NEW d \in Lag
  PROVE  Ended(r, s, d) \in Run
<1>1. runs[r] \in Run
  BY DEF TypeOK
<1>2. RetentionMs - d \in Int
  BY StoreConstants, LagIsNat
<1> QED
  BY <1>1, <1>2 DEF Run, Ended, NoToken

\* A dead letter taken from a run is a dead-letter record.
LEMMA DeadLetterOfIsDeadLetter ==
  ASSUME TypeOK, NEW r \in RunId
  PROVE  DeadLetterOf(r) \in DeadLetter
  BY DEF TypeOK, Run, DeadLetterOf, DeadLetter

--------------------------------------------------------------------------------
(***************************************************************************)
(* Types, leases and attempts are one induction: giving a claim back       *)
(* uncounts an attempt, which stays a natural number only because a        *)
(* running run has counted one.  Sound says of one record, with n tokens   *)
(* issued and m attempts allowed, what LeaseExclusive and                  *)
(* AttemptsWithinPolicy say of all of them.                                *)
(***************************************************************************)
Sound(run, n, m) ==
    /\ IF run.status = "running" THEN run.token = n /\ run.token # NoToken
       ELSE run.token = NoToken
    /\ run.attempt <= m
    /\ run.status = "queued" => run.attempt = 0
    /\ run.status = "running" => run.attempt >= 1
    /\ run.status = "retryable" => run.attempt \in 1 .. m - 1

AllSound == \A r \in RunId : Sound(runs[r], issued[r], MaxAttempts[r])

RecordInv == TypeOK /\ AllSound

\* AllSound is the two invariants on the records.
LEMMA AllSoundIsBoth == AllSound <=> LeaseExclusive /\ AttemptsWithinPolicy
  BY DEF AllSound, Sound, LeaseExclusive, AttemptsWithinPolicy, RunIs

\* A run that ends is sound if it was sound and its new status is terminal.
LEMMA EndedIsSound ==
  ASSUME RecordInv, NEW r \in RunId, NEW s \in Terminal, NEW d \in Lag, NEW n
  PROVE  Ended(r, s, d) \in Run /\ Sound(Ended(r, s, d), n, MaxAttempts[r])
<1>1. runs[r] \in Run /\ Sound(runs[r], issued[r], MaxAttempts[r])
  BY DEF RecordInv, AllSound, TypeOK
<1>2. s \in Status /\ s \notin {"running", "queued", "retryable"}
  BY StatusFacts DEF Terminal
<1>3. Ended(r, s, d) \in Run
  BY <1>2, EndedIsRun DEF RecordInv
<1>4. /\ Ended(r, s, d).status = s
      /\ Ended(r, s, d).token = NoToken
      /\ Ended(r, s, d).attempt = runs[r].attempt
  BY <1>1 DEF Ended, Run
<1> QED
  BY <1>1, <1>2, <1>3, <1>4 DEF Sound

\* A run sent back for another attempt is sound if an attempt is left.
LEMMA RetryableIsSound ==
  ASSUME RecordInv, NEW r \in RunId, RunIs(r, "running"),
         runs[r].attempt < MaxAttempts[r], NEW x \in Int, NEW n,
         NEW new, new = [runs[r] EXCEPT !.status = "retryable", !.token = NoToken,
                                        !.due = x]
  PROVE  new \in Run /\ Sound(new, n, MaxAttempts[r])
<1>1. runs[r] \in Run /\ Sound(runs[r], issued[r], MaxAttempts[r])
  BY DEF RecordInv, AllSound, TypeOK
<1>2. new \in Run
  BY <1>1, StatusFacts DEF Run, NoToken
<1>3. new.status = "retryable" /\ new.token = NoToken /\ new.attempt = runs[r].attempt
  BY <1>1 DEF Run
<1> QED
  BY <1>1, <1>2, <1>3, StoreConstants DEF Sound, RunIs, Run

\* The records a run id starts and ends with are sound.
LEMMA NewAndRemovedAreSound ==
  ASSUME NEW x \in Int, NEW n, NEW r \in RunId
  PROVE  /\ NewRun(x) \in Run /\ Sound(NewRun(x), n, MaxAttempts[r])
         /\ Removed \in Run /\ Sound(Removed, n, MaxAttempts[r])
  BY StoreConstants, StatusFacts DEF NewRun, Removed, Run, Sound, NoToken

\* Each operation of the store leaves every variable in its type and every
\* record sound.
LEMMA RecordStep == RecordInv /\ [Next]_storeVars => RecordInv'
<1> SUFFICES ASSUME RecordInv, [Next]_storeVars PROVE RecordInv'
  OBVIOUS
<1> USE StoreConstants, LagIsNat, DelayIsNat, StatusFacts
<1>a. /\ runs \in [RunId -> Run] /\ issued \in [RunId -> Nat]
      /\ \A r \in RunId : runs[r] \in Run /\ Sound(runs[r], issued[r], MaxAttempts[r])
  BY DEF RecordInv, AllSound, TypeOK
<1>1. CASE Enqueue
  <2> PICK r \in RunId, k \in Key \cup {NoKey}, c \in Checksum, delay \in Delay,
           d \in Lag : AppendRun(r, k, c, delay, d)
    BY <1>1 DEF Enqueue
  <2>1. NewRun(delay) \in Run /\ Sound(NewRun(delay), issued[r], MaxAttempts[r])
    BY NewAndRemovedAreSound
  <2>2. [runId |-> r, checksum |-> c, left |-> IdempotencyMs - d] \in IdempotencyRecord
    BY DEF IdempotencyRecord
  <2>3. TypeOK'
    BY <2>1, <2>2 DEF AppendRun, TypeOK, RecordInv
  <2>4. AllSound'
    BY <1>a, <2>1 DEF AppendRun, AllSound
  <2> QED BY <2>3, <2>4 DEF RecordInv
<1>2. CASE Claim
  <2> PICK S \in SUBSET RunId, tasks \in SUBSET Task,
           limit \in 1 .. MaxConcurrentRuns, d \in Lag : ClaimDueRuns(S, tasks, limit, d)
    BY <1>2 DEF Claim
  <2>1. \A r \in S : /\ runs[r].status \in {"queued", "retryable"}
                     /\ runs[r].status = "queued" \/ runs[r].attempt < MaxAttempts[r]
    BY DEF ClaimDueRuns, Admitted, Candidates, RunIs
  <2>2. runs' \in [RunId -> Run] /\ issued' \in [RunId -> Nat]
    BY <1>a DEF ClaimDueRuns, Run
  <2>3. TypeOK'
    BY <2>2 DEF ClaimDueRuns, TypeOK, RecordInv
  <2>4. ASSUME NEW r \in RunId
        PROVE  Sound(runs'[r], issued'[r], MaxAttempts[r])
    <3>1. CASE r \notin S
      BY <3>1, <1>a DEF ClaimDueRuns
    <3>2. CASE r \in S
      <4>1. runs[r].attempt \in Nat /\ runs[r].attempt + 1 <= MaxAttempts[r]
        BY <2>1, <3>2, <1>a DEF Sound, Run
      <4>2. issued[r] \in Nat
        BY <1>a
      <4> QED BY <3>2, <4>1, <4>2 DEF ClaimDueRuns, Sound, NoToken
    <3> QED BY <3>1, <3>2
  <2> QED BY <2>3, <2>4 DEF RecordInv, AllSound
<1>3. CASE Release
  <2> PICK r \in RunId, n \in Token : ReleaseClaim(r, n)
    BY <1>3 DEF Release
  <2>1. /\ runs[r].attempt \in Nat /\ runs[r].attempt >= 1
        /\ runs[r].attempt <= MaxAttempts[r] /\ MaxAttempts[r] \in Nat
    BY <1>a DEF ReleaseClaim, Holds, RunIs, Sound, Run
  <2> DEFINE new == [status |-> IF runs[r].attempt = 1 THEN "queued" ELSE "retryable",
                     attempt |-> runs[r].attempt - 1, token |-> NoToken, due |-> 0]
  <2>2. new \in Run /\ Sound(new, issued[r], MaxAttempts[r])
    BY <2>1 DEF Run, Sound, NoToken
  <2>3. runs' = [runs EXCEPT ![r] = new]
    BY DEF ReleaseClaim
  <2> HIDE DEF new
  <2>4. TypeOK'
    BY <2>2, <2>3 DEF ReleaseClaim, TypeOK, RecordInv
  <2>5. AllSound'
    BY <1>a, <2>2, <2>3 DEF ReleaseClaim, AllSound
  <2> QED BY <2>4, <2>5 DEF RecordInv
<1>4. CASE Renew
  <2> PICK r \in RunId, n \in Token, d \in Lag : RenewLease(r, n, d)
    BY <1>4 DEF Renew
  <2> DEFINE x == IF runs[r].due >= LeaseMs - d THEN runs[r].due ELSE LeaseMs - d
  <2>1. x \in Int /\ runs' = [runs EXCEPT ![r].due = x]
    BY <1>a DEF RenewLease, Run
  <2> HIDE DEF x
  <2>2. TypeOK'
    BY <1>a, <2>1 DEF RenewLease, TypeOK, RecordInv, Run
  <2>3. AllSound'
    BY <1>a, <2>1 DEF RenewLease, AllSound, Sound, Run
  <2> QED BY <2>2, <2>3 DEF RecordInv
<1>5. CASE Complete
  <2> PICK r \in RunId, n \in Token, d \in Lag : CompleteRun(r, n, d)
    BY <1>5 DEF Complete
  <2>1. /\ Ended(r, "completed", d) \in Run
        /\ Sound(Ended(r, "completed", d), issued[r], MaxAttempts[r])
    BY EndedIsSound DEF Terminal
  <2> QED
    BY <1>a, <2>1 DEF CompleteRun, RecordInv, TypeOK, AllSound
<1>6. CASE Retry
  <2> PICK r \in RunId, n \in Token, delay \in Delay, d \in Lag :
           MarkRunRetryable(r, n, delay, d)
    BY <1>6 DEF Retry
  <2> DEFINE new == [runs[r] EXCEPT !.status = "retryable", !.token = NoToken,
                                    !.due = delay - d]
  <2>1. new \in Run /\ Sound(new, issued[r], MaxAttempts[r])
    <3>1. delay - d \in Int
      OBVIOUS
    <3>2. RunIs(r, "running") /\ runs[r].attempt < MaxAttempts[r]
      BY DEF MarkRunRetryable, Fenced, Holds
    <3> QED BY <3>1, <3>2, RetryableIsSound
  <2>2. runs' = [runs EXCEPT ![r] = new]
    BY DEF MarkRunRetryable
  <2> HIDE DEF new
  <2> QED
    BY <1>a, <2>1, <2>2 DEF MarkRunRetryable, RecordInv, TypeOK, AllSound
<1>7. CASE Bury
  <2> PICK r \in RunId, n \in Token, d \in Lag : DeadLetterRun(r, n, d)
    BY <1>7 DEF Bury
  <2>1. /\ Ended(r, "dead-lettered", d) \in Run
        /\ Sound(Ended(r, "dead-lettered", d), issued[r], MaxAttempts[r])
    BY EndedIsSound DEF Terminal
  <2>2. DeadLetterOf(r) \in DeadLetter
    BY DeadLetterOfIsDeadLetter DEF RecordInv
  <2> QED
    BY <1>a, <2>1, <2>2 DEF DeadLetterRun, RecordInv, TypeOK, AllSound
<1>8. CASE Cancel
  <2> PICK r \in RunId, n \in Token \cup {NoToken}, d \in Lag : CancelRun(r, n, d)
    BY <1>8 DEF Cancel
  <2>1. /\ Ended(r, "cancelled", d) \in Run
        /\ Sound(Ended(r, "cancelled", d), issued[r], MaxAttempts[r])
    BY EndedIsSound DEF Terminal
  <2> QED
    BY <1>a, <2>1 DEF CancelRun, RecordInv, TypeOK, AllSound
<1>9. CASE Recover
  <2> PICK S \in SUBSET RunId, d \in Lag : RecoverStaleLeases(S, d)
    BY <1>9 DEF Recover
  <2>1. \A r \in RunId :
          /\ Ended(r, "dead-lettered", d) \in Run
          /\ Sound(Ended(r, "dead-lettered", d), issued[r], MaxAttempts[r])
    BY EndedIsSound DEF Terminal
  <2> DEFINE back(r) == [runs[r] EXCEPT !.status = "retryable", !.token = NoToken,
                                        !.due = 0 - d]
  <2>2. ASSUME NEW r \in S, ~Exhausted(r)
        PROVE  back(r) \in Run /\ Sound(back(r), issued[r], MaxAttempts[r])
    <3>1. RunIs(r, "running") /\ r \in RunId
      BY DEF RecoverStaleLeases, Stale, Running
    <3>2. runs[r].attempt < MaxAttempts[r]
      BY <1>a, <2>2, <3>1 DEF Exhausted, Run
    <3>3. 0 - d \in Int
      OBVIOUS
    <3> QED BY <3>1, <3>2, <3>3, RetryableIsSound
  <2>3. runs' = [r \in RunId |-> IF r \notin S THEN runs[r]
                                 ELSE IF Exhausted(r) THEN Ended(r, "dead-lettered", d)
                                 ELSE back(r)]
    BY DEF RecoverStaleLeases
  <2> HIDE DEF back
  <2>4. runs' \in [RunId -> Run]
    BY <1>a, <2>1, <2>2, <2>3
  <2>5. deadLetters' \subseteq DeadLetter
    <3>1. \A r \in S : DeadLetterOf(r) \in DeadLetter
      BY DeadLetterOfIsDeadLetter DEF RecordInv
    <3>2. deadLetters \subseteq DeadLetter
      BY DEF RecordInv, TypeOK
    <3> QED BY <3>1, <3>2 DEF RecoverStaleLeases
  <2>6. ASSUME NEW r \in RunId
        PROVE  Sound(runs'[r], issued[r], MaxAttempts[r])
    <3>1. CASE r \notin S
      BY <3>1, <2>3, <1>a
    <3>2. CASE r \in S /\ Exhausted(r)
      BY <3>2, <2>3, <2>1
    <3>3. CASE r \in S /\ ~Exhausted(r)
      BY <3>3, <2>3, <2>2
    <3> QED BY <3>1, <3>2, <3>3
  <2> QED BY <2>4, <2>5, <2>6 DEF RecoverStaleLeases, RecordInv, TypeOK, AllSound
<1>10. CASE Requeue
  <2> PICK x \in deadLetters, r \in RunId, k \in Key \cup {NoKey}, c \in Checksum,
           d \in Lag : RequeueDeadLetter(x, r, k, c, d)
    BY <1>10 DEF Requeue
  <2>1. \A q \in RunId :
          /\ NewRun(0 - d) \in Run /\ Sound(NewRun(0 - d), issued[q], MaxAttempts[q])
          /\ Removed \in Run /\ Sound(Removed, issued[q], MaxAttempts[q])
    BY NewAndRemovedAreSound
  <2>2. [runId |-> r, checksum |-> c, left |-> IdempotencyMs - d] \in IdempotencyRecord
    BY DEF IdempotencyRecord
  <2>3. idempotency' \in [Key -> IdempotencyRecord]
    BY <2>2 DEF RequeueDeadLetter, TypeOK, RecordInv, IdempotencyRecord
  <2>4. TypeOK'
    BY <2>1, <2>3 DEF RequeueDeadLetter, TypeOK, RecordInv
  <2>5. AllSound'
    BY <1>a, <2>1 DEF RequeueDeadLetter, AllSound
  <2> QED BY <2>4, <2>5 DEF RecordInv
<1>11. CASE Cleanup
  <2> PICK S \in SUBSET RunId, K \in SUBSET Key, d \in Lag : CleanupTerminalRuns(S, K, d)
    BY <1>11 DEF Cleanup
  <2>1. \A q \in RunId : Removed \in Run /\ Sound(Removed, issued[q], MaxAttempts[q])
    BY NewAndRemovedAreSound
  <2>2. TypeOK'
    BY <2>1 DEF CleanupTerminalRuns, DeadLettersWithout, TypeOK, RecordInv,
       IdempotencyRecord
  <2>3. AllSound'
    BY <1>a, <2>1 DEF CleanupTerminalRuns, AllSound
  <2> QED BY <2>2, <2>3 DEF RecordInv
<1>12. CASE Pause
  BY <1>12 DEF Pause, SetQueuePaused, TypeOK, RecordInv, AllSound
<1>13. CASE Tick
  <2>1. \A x \in Int : Sooner(x) \in Int
    BY DEF Sooner
  <2>2. ASSUME NEW r \in RunId
        PROVE  /\ [runs[r] EXCEPT !.due = Sooner(@)] \in Run
               /\ Sound([runs[r] EXCEPT !.due = Sooner(@)], issued[r], MaxAttempts[r])
    BY <1>a, <2>1 DEF Sound, Run
  <2>3. \A k \in Key : idempotency[k] # NoRecord =>
           [idempotency[k] EXCEPT !.left = Sooner(@)] \in IdempotencyRecord
    BY <2>1 DEF TypeOK, RecordInv, IdempotencyRecord
  <2>4. idempotency' \in [Key -> IdempotencyRecord]
    BY <1>13, <2>3 DEF Tick, IdempotencyRecord
  <2>5. runs' \in [RunId -> Run] /\ AllSound'
    BY <1>13, <1>a, <2>2 DEF Tick, AllSound
  <2> QED BY <1>13, <2>4, <2>5 DEF Tick, RecordInv, TypeOK
<1>14. CASE UNCHANGED storeVars
  BY <1>14 DEF storeVars, TypeOK, RecordInv, AllSound
<1> QED
  BY <1>1, <1>2, <1>3, <1>4, <1>5, <1>6, <1>7, <1>8, <1>9, <1>10, <1>11, <1>12,
     <1>13, <1>14 DEF Next

\* The store's variables stay in their types; every run has a lease token exactly
\* while it is running, the newest issued for it; attempts stay in the policy.
THEOREM RecordsCorrect == Spec => [](TypeOK /\ LeaseExclusive /\ AttemptsWithinPolicy)
<1>1. Init => RecordInv
  BY StoreConstants, StatusFacts DEF Init, RecordInv, AllSound, Sound, TypeOK, Run,
     NoToken, IdempotencyRecord
<1>2. RecordInv /\ [Next]_storeVars => RecordInv'
  BY RecordStep
<1>3. RecordInv => TypeOK /\ LeaseExclusive /\ AttemptsWithinPolicy
  BY AllSoundIsBoth DEF RecordInv
<1> QED BY <1>1, <1>2, <1>3, PTL DEF Spec

--------------------------------------------------------------------------------
(***************************************************************************)
(* Dead letters, idempotency claims and what a step may never do: theorems *)
(* that rest on the record invariant, and are one induction: cleanup and   *)
(* requeue touch runs, dead letters and claims together.                   *)
(***************************************************************************)

StoreInv == RecordInv /\ DeadLettersMatch /\ LiveClaimKeepsRun

\* Most operations change live runs only, into anything but dead-lettered ones,
\* and leave dead letters and idempotency claims alone.
LeavesOrMoves(r) ==
    \/ runs'[r] = runs[r]
    \/ /\ runs[r].status \in Live
       /\ runs'[r].status \in Present \ {"dead-lettered"}

Plain ==
    /\ \A r \in RunId : LeavesOrMoves(r)
    /\ deadLetters' = deadLetters
    /\ idempotency' = idempotency

\* What every step of the store shows.
Promise == DeadLettersMatch' /\ LiveClaimKeepsRun' /\ TerminalKept /\ AliveKept

--------------------------------------------------------------------------------
\* A run that ends ends with its status, its attempts and a deadline.
LEMMA EndedFields ==
  ASSUME TypeOK, NEW r \in RunId, NEW s \in Status, NEW d \in Lag
  PROVE  Ended(r, s, d).status = s /\ Ended(r, s, d).attempt = runs[r].attempt
  BY DEF TypeOK, Run, Ended

\* The lease-guarded and the cancelling operations are plain.
LEMMA PlainOperations ==
  ASSUME RecordInv,
         Claim \/ Release \/ Renew \/ Complete \/ Retry \/ Cancel \/ Pause
  PROVE  Plain
<1>0. /\ \A r \in RunId : runs[r] \in Run
      /\ runs \in [RunId -> Run]
      /\ TypeOK
  BY DEF RecordInv, TypeOK
<1> USE StatusFacts DEF Plain, LeavesOrMoves
<1>1. CASE Claim
  <2> PICK S \in SUBSET RunId, tasks \in SUBSET Task,
           limit \in 1 .. MaxConcurrentRuns, d \in Lag : ClaimDueRuns(S, tasks, limit, d)
    BY <1>1 DEF Claim
  <2>1. \A r \in S : runs[r].status \in Live
    BY DEF ClaimDueRuns, Admitted, Candidates, Live
  <2>2. \A r \in RunId : runs'[r] = runs[r] \/ (r \in S /\ runs'[r].status = "running")
    BY DEF ClaimDueRuns
  <2> QED BY <2>1, <2>2 DEF ClaimDueRuns
<1>2. CASE Release
  <2> PICK r \in RunId, n \in Token : ReleaseClaim(r, n)
    BY <1>2 DEF Release
  <2>1. runs[r].status \in Live
    BY DEF ReleaseClaim, Holds, RunIs, Live
  <2>2. runs'[r].status \in {"queued", "retryable"} /\ \A q \in RunId \ {r} : runs'[q] = runs[q]
    BY <1>0 DEF ReleaseClaim
  <2> QED BY <2>1, <2>2 DEF ReleaseClaim
<1>3. CASE Renew
  <2> PICK r \in RunId, n \in Token, d \in Lag : RenewLease(r, n, d)
    BY <1>3 DEF Renew
  <2>1. runs[r].status = "running"
    BY DEF RenewLease, Fenced, Holds, RunIs
  <2>2. runs'[r].status = "running" /\ \A q \in RunId \ {r} : runs'[q] = runs[q]
    BY <1>0, <2>1 DEF RenewLease, Run
  <2> QED BY <2>1, <2>2 DEF RenewLease, Live
<1>4. CASE Complete
  <2> PICK r \in RunId, n \in Token, d \in Lag : CompleteRun(r, n, d)
    BY <1>4 DEF Complete
  <2>1. runs[r].status \in Live
    BY DEF CompleteRun, Fenced, Holds, RunIs, Live
  <2>2. Ended(r, "completed", d).status = "completed"
    BY <1>0, EndedFields
  <2>3. runs'[r].status = "completed" /\ \A q \in RunId \ {r} : runs'[q] = runs[q]
    BY <1>0, <2>2 DEF CompleteRun
  <2> QED BY <2>1, <2>3 DEF CompleteRun
<1>5. CASE Retry
  <2> PICK r \in RunId, n \in Token, delay \in Delay, d \in Lag :
           MarkRunRetryable(r, n, delay, d)
    BY <1>5 DEF Retry
  <2>1. runs[r].status \in Live
    BY DEF MarkRunRetryable, Fenced, Holds, RunIs, Live
  <2>2. runs'[r].status = "retryable" /\ \A q \in RunId \ {r} : runs'[q] = runs[q]
    BY <1>0 DEF MarkRunRetryable, Run
  <2> QED BY <2>1, <2>2 DEF MarkRunRetryable
<1>6. CASE Cancel
  <2> PICK r \in RunId, n \in Token \cup {NoToken}, d \in Lag : CancelRun(r, n, d)
    BY <1>6 DEF Cancel
  <2>1. runs[r].status \in Live
    BY DEF CancelRun, Cancellable
  <2>2. Ended(r, "cancelled", d).status = "cancelled"
    BY <1>0, EndedFields
  <2>3. runs'[r].status = "cancelled" /\ \A q \in RunId \ {r} : runs'[q] = runs[q]
    BY <1>0, <2>2 DEF CancelRun
  <2> QED BY <2>1, <2>3 DEF CancelRun
<1>7. CASE Pause
  BY <1>7 DEF Pause, SetQueuePaused
<1> QED BY <1>1, <1>2, <1>3, <1>4, <1>5, <1>6, <1>7

\* An idempotency record names a run.
LEMMA ClaimNamesRun ==
  ASSUME TypeOK, NEW k \in Key, idempotency[k] # NoRecord
  PROVE  idempotency[k].runId \in RunId /\ idempotency[k].left \in Int
  BY DEF TypeOK, IdempotencyRecord

\* A claim that is alive answers every caller, however its clock lags.
LEMMA AliveIsClaimed ==
  ASSUME TypeOK, NEW k \in Key, NoKey \notin Key, Alive(k), NEW d \in Lag
  PROVE  Claimed(k, d)
<1>1. idempotency[k].left \in Int /\ d \in Nat
  BY ClaimNamesRun, LagIsNat DEF Alive
<1> QED
  BY <1>1 DEF Alive, Claimed, Elapsed

\* Plain steps keep the promise.
LEMMA PlainPromise == ASSUME StoreInv, Plain PROVE Promise
<1>1. \A r \in RunId : /\ runs[r].status \in Present => runs'[r].status \in Present
                       /\ runs[r].status \in Terminal => runs'[r] = runs[r]
                       /\ runs'[r].status = "dead-lettered" => runs'[r] = runs[r]
  BY StatusFacts DEF Plain, LeavesOrMoves, Live, Terminal
<1>2. deadLetters \subseteq DeadLetter /\ TypeOK
  BY DEF StoreInv, RecordInv, TypeOK
<1>3. \A x \in deadLetters : x.runId \in RunId
  BY <1>2 DEF DeadLetter
<1>4. DeadLettersMatch'
  <2>1. ASSUME NEW x \in deadLetters PROVE runs'[x.runId].status = "dead-lettered"
    <3>1. runs[x.runId].status = "dead-lettered"
      BY DEF StoreInv, DeadLettersMatch, RunIs
    <3> QED BY <1>1, <1>3, <3>1 DEF Terminal
  <2>2. \A r \in RunId : runs'[r].status = "dead-lettered" => runs'[r] = runs[r]
    BY <1>1
  <2> QED BY <2>1, <2>2 DEF StoreInv, DeadLettersMatch, RunIs, Plain
<1>5. LiveClaimKeepsRun'
  <2> SUFFICES ASSUME NEW k \in Key, Alive(k)'
               PROVE  runs'[idempotency'[k].runId].status \in Present
    BY DEF LiveClaimKeepsRun
  <2>1. Alive(k) /\ idempotency'[k] = idempotency[k]
    BY DEF Alive, Plain
  <2>2. runs[idempotency[k].runId].status \in Present
    BY <2>1 DEF StoreInv, LiveClaimKeepsRun
  <2>3. idempotency[k].runId \in RunId
    BY <1>2, <2>1, ClaimNamesRun DEF Alive
  <2> QED BY <1>1, <2>1, <2>2, <2>3
<1>6. TerminalKept
  BY <1>1, StatusFacts DEF TerminalKept, Present
<1>7. AliveKept
  BY DEF AliveKept, Plain, Alive
<1> QED BY <1>4, <1>5, <1>6, <1>7 DEF Promise

--------------------------------------------------------------------------------
\* Appending puts a fresh run in and sets a record no caller could still claim.
LEMMA EnqueuePromise == ASSUME StoreInv, Enqueue PROVE Promise
<1> PICK r \in RunId, k \in Key \cup {NoKey}, c \in Checksum, delay \in Delay,
         d \in Lag : AppendRun(r, k, c, delay, d)
  BY DEF Enqueue
<1> USE StatusFacts
<1>1. TypeOK /\ runs \in [RunId -> Run] /\ idempotency \in [Key -> IdempotencyRecord]
      /\ deadLetters \subseteq DeadLetter /\ NoKey \notin Key
  BY StoreConstants DEF StoreInv, RecordInv, TypeOK
<1>2. /\ runs[r].status = "absent" /\ runs'[r].status = "queued"
      /\ \A q \in RunId \ {r} : runs'[q] = runs[q]
      /\ deadLetters' = deadLetters
  BY <1>1 DEF AppendRun, RunIs, NewRun
<1>3. \A x \in deadLetters : x.runId \in RunId /\ x.runId # r
  BY <1>1, <1>2 DEF StoreInv, DeadLettersMatch, RunIs, DeadLetter
<1>4. DeadLettersMatch'
  BY <1>2, <1>3 DEF StoreInv, DeadLettersMatch, RunIs
<1>5. ASSUME NEW q \in Key
      PROVE  \/ idempotency'[q] = idempotency[q]
             \/ q = k /\ idempotency'[q].runId = r /\ ~Alive(q)
  <2>1. CASE q # k
    BY <1>1, <2>1 DEF AppendRun
  <2>2. CASE q = k
    <3>1. ~Alive(q)
      BY <1>1, <2>2, AliveIsClaimed DEF AppendRun
    <3> QED BY <1>1, <2>2, <3>1 DEF AppendRun
  <2> QED BY <2>1, <2>2
<1>6. LiveClaimKeepsRun'
  <2> SUFFICES ASSUME NEW q \in Key, Alive(q)'
               PROVE  runs'[idempotency'[q].runId].status \in Present
    BY DEF LiveClaimKeepsRun
  <2>1. CASE idempotency'[q] = idempotency[q]
    <3>1. Alive(q) /\ idempotency[q].runId \in RunId
      BY <1>1, <2>1, ClaimNamesRun DEF Alive
    <3>2. runs[idempotency[q].runId].status \in Present
      BY <3>1 DEF StoreInv, LiveClaimKeepsRun
    <3>3. idempotency[q].runId # r
      BY <1>2, <3>2
    <3> QED BY <1>2, <2>1, <3>1, <3>2, <3>3
  <2>2. CASE idempotency'[q].runId = r
    BY <1>2, <2>2
  <2> QED BY <1>5, <2>1, <2>2
<1>7. TerminalKept
  BY <1>2 DEF TerminalKept, Live, Terminal
<1>8. AliveKept
  BY <1>5 DEF AliveKept, Alive
<1> QED BY <1>4, <1>6, <1>7, <1>8 DEF Promise

\* Set S of running runs ends dead-lettered, each with its dead letter; the runs
\* outside S are left or moved.
Buries(S) ==
    /\ S \subseteq Running
    /\ \A r \in S : runs'[r].status = "dead-lettered" /\ runs'[r].attempt = runs[r].attempt
    /\ \A r \in RunId \ S : LeavesOrMoves(r)
    /\ deadLetters' = deadLetters \cup {DeadLetterOf(r) : r \in S}
    /\ idempotency' = idempotency

LEMMA BuriesPromise == ASSUME StoreInv, NEW S, Buries(S) PROVE Promise
<1> USE StatusFacts
<1>1. TypeOK /\ runs \in [RunId -> Run] /\ deadLetters \subseteq DeadLetter
  BY DEF StoreInv, RecordInv, TypeOK
<1>2. /\ S \subseteq RunId
      /\ \A r \in S : runs[r].status = "running"
  BY DEF Buries, Running, RunIs
<1>3. \A r \in RunId \ S : /\ runs[r].status \in Present => runs'[r].status \in Present
                           /\ runs[r].status \in Terminal => runs'[r] = runs[r]
                           /\ runs'[r].status = "dead-lettered" => runs'[r] = runs[r]
  BY DEF Buries, LeavesOrMoves, Live, Terminal
<1>4. \A x \in deadLetters : x.runId \in RunId \ S
  BY <1>1, <1>2 DEF StoreInv, DeadLettersMatch, RunIs, DeadLetter
<1>5. \A r \in S : DeadLetterOf(r).runId = r /\ DeadLetterOf(r).attempts = runs[r].attempt
  BY DEF DeadLetterOf
<1>6. DeadLettersMatch'
  <2>1. ASSUME NEW x \in deadLetters' PROVE runs'[x.runId].status = "dead-lettered"
    <3>1. CASE x \in deadLetters
      <4>1. runs[x.runId].status = "dead-lettered"
        BY <3>1 DEF StoreInv, DeadLettersMatch, RunIs
      <4> QED BY <1>3, <1>4, <3>1, <4>1 DEF Terminal
    <3>2. CASE x \notin deadLetters
      <4> PICK r \in S : x = DeadLetterOf(r)
        BY <2>1, <3>2 DEF Buries
      <4> QED BY <1>5 DEF Buries
    <3> QED BY <3>1, <3>2
  <2>2. ASSUME NEW r \in RunId, runs'[r].status = "dead-lettered"
        PROVE  \E x \in deadLetters' : /\ x.runId = r
                                       /\ x.attempts = runs'[r].attempt
                                       /\ \A y \in deadLetters' : y.runId = r => y = x
    <3>1. CASE r \in S
      <4>1. DeadLetterOf(r) \in deadLetters' /\ DeadLetterOf(r).attempts = runs'[r].attempt
        BY <1>5, <3>1 DEF Buries
      <4>2. \A y \in deadLetters' : y.runId = r => y = DeadLetterOf(r)
        BY <1>4, <1>5, <3>1 DEF Buries
      <4> QED BY <1>5, <3>1, <4>1, <4>2
    <3>2. CASE r \notin S
      <4>1. runs'[r] = runs[r] /\ RunIs(r, "dead-lettered")
        BY <1>3, <2>2, <3>2 DEF RunIs
      <4> PICK x \in deadLetters : /\ x.runId = r
                                   /\ x.attempts = runs[r].attempt
                                   /\ \A y \in deadLetters : y.runId = r => y = x
        BY <4>1 DEF StoreInv, DeadLettersMatch
      <4>2. \A y \in deadLetters' : y.runId = r => y \in deadLetters
        BY <1>5, <3>2 DEF Buries
      <4> QED BY <4>1, <4>2 DEF Buries
    <3> QED BY <3>1, <3>2
  <2> QED BY <2>1, <2>2 DEF DeadLettersMatch, RunIs
<1>7. \A r \in RunId : runs[r].status \in Present => runs'[r].status \in Present
  BY <1>3 DEF Buries
<1>8. LiveClaimKeepsRun'
  <2> SUFFICES ASSUME NEW k \in Key, Alive(k)'
               PROVE  runs'[idempotency'[k].runId].status \in Present
    BY DEF LiveClaimKeepsRun
  <2>1. Alive(k) /\ idempotency'[k] = idempotency[k]
    BY DEF Alive, Buries
  <2>2. runs[idempotency[k].runId].status \in Present /\ idempotency[k].runId \in RunId
    BY <1>1, <2>1, ClaimNamesRun DEF StoreInv, LiveClaimKeepsRun, Alive
  <2> QED BY <1>7, <2>1, <2>2
<1>9. TerminalKept
  <2>1. \A r \in RunId : runs[r].status \in Terminal => r \notin S
    BY <1>2 DEF Terminal
  <2> QED BY <1>3, <1>7, <2>1 DEF TerminalKept, Present
<1>10. AliveKept
  BY DEF AliveKept, Buries, Alive
<1> QED BY <1>6, <1>8, <1>9, <1>10 DEF Promise

\* A worker's dead letter and those of stale recovery are burials.
LEMMA BuryPromise == ASSUME StoreInv, Bury \/ Recover PROVE Promise
<1> USE StatusFacts
<1>1. TypeOK /\ runs \in [RunId -> Run]
  BY DEF StoreInv, RecordInv, TypeOK
<1>2. CASE Bury
  <2> PICK r \in RunId, n \in Token, d \in Lag : DeadLetterRun(r, n, d)
    BY <1>2 DEF Bury
  <2>1. /\ Ended(r, "dead-lettered", d).status = "dead-lettered"
        /\ Ended(r, "dead-lettered", d).attempt = runs[r].attempt
    BY <1>1, EndedFields
  <2>2. runs'[r] = Ended(r, "dead-lettered", d) /\ \A q \in RunId \ {r} : runs'[q] = runs[q]
    BY <1>1 DEF DeadLetterRun
  <2>3. {r} \subseteq Running
    BY DEF DeadLetterRun, Fenced, Holds, Running
  <2>4. Buries({r})
    BY <2>1, <2>2, <2>3 DEF Buries, LeavesOrMoves, DeadLetterRun
  <2> QED BY <2>4, BuriesPromise
<1>3. CASE Recover
  <2> PICK S \in SUBSET RunId, d \in Lag : RecoverStaleLeases(S, d)
    BY <1>3 DEF Recover
  <2> DEFINE dead == {r \in S : Exhausted(r)}
  <2>1. S \subseteq Running
    BY DEF RecoverStaleLeases, Stale
  <2>2. \A r \in dead : runs'[r] = Ended(r, "dead-lettered", d)
    BY DEF RecoverStaleLeases
  <2>3. \A r \in RunId : /\ Ended(r, "dead-lettered", d).status = "dead-lettered"
                         /\ Ended(r, "dead-lettered", d).attempt = runs[r].attempt
    BY <1>1, EndedFields
  <2>4. ASSUME NEW r \in RunId \ dead PROVE LeavesOrMoves(r)
    <3>1. CASE r \notin S
      BY <3>1 DEF RecoverStaleLeases, LeavesOrMoves
    <3>2. CASE r \in S
      <4>1. runs'[r] = [runs[r] EXCEPT !.status = "retryable", !.token = NoToken,
                                       !.due = 0 - d]
        BY <2>4, <3>2 DEF RecoverStaleLeases
      <4>2. runs'[r].status = "retryable"
        BY <1>1, <4>1 DEF Run
      <4>3. runs[r].status \in Live
        BY <2>1, <3>2 DEF Running, RunIs, Live
      <4> QED BY <4>2, <4>3 DEF LeavesOrMoves
    <3> QED BY <3>1, <3>2
  <2>5. deadLetters' = deadLetters \cup {DeadLetterOf(r) : r \in dead}
        /\ idempotency' = idempotency
    BY DEF RecoverStaleLeases
  <2>6. dead \subseteq RunId
    OBVIOUS
  <2> HIDE DEF dead
  <2>7. dead \subseteq Running
    BY <2>1 DEF dead
  <2>8. Buries(dead)
    BY <2>2, <2>3, <2>4, <2>5, <2>6, <2>7 DEF Buries
  <2> QED BY <2>8, BuriesPromise
<1> QED BY <1>2, <1>3

\* The requeued run gives way to the fresh one, with every claim that names it.
LEMMA RequeuePromise == ASSUME StoreInv, Requeue PROVE Promise
<1> PICK x \in deadLetters, r \in RunId, k \in Key \cup {NoKey}, c \in Checksum,
         d \in Lag : RequeueDeadLetter(x, r, k, c, d)
  BY DEF Requeue
<1> DEFINE old == x.runId
<1> USE StatusFacts
<1>1. TypeOK /\ runs \in [RunId -> Run] /\ deadLetters \subseteq DeadLetter
      /\ NoKey \notin Key
  BY StoreConstants DEF StoreInv, RecordInv, TypeOK
<1>2. old \in RunId /\ runs[old].status = "dead-lettered" /\ runs[r].status = "absent"
  BY <1>1 DEF StoreInv, DeadLettersMatch, RunIs, DeadLetter, RequeueDeadLetter
<1>3. /\ runs'[r].status = "queued" /\ runs'[old].status = "deleted"
      /\ \A q \in RunId \ {r, old} : runs'[q] = runs[q]
  BY <1>1, <1>2 DEF RequeueDeadLetter, NewRun, Removed
<1>4. \A y \in deadLetters : y.runId \in RunId /\ runs[y.runId].status = "dead-lettered"
  BY <1>1 DEF StoreInv, DeadLettersMatch, RunIs, DeadLetter
<1>5. \A y \in deadLetters : y.runId = old => y = x
  BY <1>2 DEF StoreInv, DeadLettersMatch, RunIs
<1>6. deadLetters' = deadLetters \ {x}
  BY DEF RequeueDeadLetter
<1>7. DeadLettersMatch'
  <2>1. \A y \in deadLetters' : runs'[y.runId].status = "dead-lettered"
    BY <1>2, <1>3, <1>4, <1>5, <1>6
  <2>2. ASSUME NEW q \in RunId, runs'[q].status = "dead-lettered"
        PROVE  \E y \in deadLetters' : /\ y.runId = q
                                       /\ y.attempts = runs'[q].attempt
                                       /\ \A z \in deadLetters' : z.runId = q => z = y
    <3>1. q # old /\ runs'[q] = runs[q] /\ RunIs(q, "dead-lettered")
      BY <1>3, <2>2 DEF RunIs
    <3> PICK y \in deadLetters : /\ y.runId = q
                                 /\ y.attempts = runs[q].attempt
                                 /\ \A z \in deadLetters : z.runId = q => z = y
      BY <3>1 DEF StoreInv, DeadLettersMatch
    <3> QED BY <1>6, <3>1
  <2> QED BY <2>1, <2>2 DEF DeadLettersMatch, RunIs
<1>8. ASSUME NEW q \in Key
      PROVE  \/ q = k /\ idempotency'[q].runId = r /\ ~Alive(q)
             \/ idempotency'[q] = NoRecord /\ (Alive(q) => idempotency[q].runId = old)
             \/ idempotency'[q] = idempotency[q] /\ (Alive(q) => idempotency[q].runId # old)
  <2>1. CASE q = k
    <3>1. ~Alive(q)
      BY <1>1, <2>1, AliveIsClaimed DEF RequeueDeadLetter
    <3> QED BY <2>1, <3>1 DEF RequeueDeadLetter
  <2>2. CASE q # k
    BY <2>2 DEF RequeueDeadLetter, Alive
  <2> QED BY <2>1, <2>2
<1>9. LiveClaimKeepsRun'
  <2> SUFFICES ASSUME NEW q \in Key, Alive(q)'
               PROVE  runs'[idempotency'[q].runId].status \in Present
    BY DEF LiveClaimKeepsRun
  <2>1. CASE idempotency'[q].runId = r
    BY <1>3, <2>1
  <2>2. CASE idempotency'[q] = idempotency[q] /\ (Alive(q) => idempotency[q].runId # old)
    <3>1. Alive(q) /\ idempotency[q].runId \in RunId
      BY <1>1, <2>2, ClaimNamesRun DEF Alive
    <3>2. runs[idempotency[q].runId].status \in Present
      BY <3>1 DEF StoreInv, LiveClaimKeepsRun
    <3>3. idempotency[q].runId # r
      BY <1>2, <3>2
    <3> QED BY <1>3, <2>2, <3>1, <3>2, <3>3
  <2>3. CASE idempotency'[q] = NoRecord
    BY <2>3 DEF Alive
  <2> QED BY <1>8, <2>1, <2>2, <2>3
<1>10. TerminalKept
  BY <1>2, <1>3 DEF TerminalKept, RunIs, Live, Terminal
<1>11. AliveKept
  <2> SUFFICES ASSUME NEW q \in Key, Alive(q)
               PROVE  \/ /\ idempotency'[q] # NoRecord
                         /\ idempotency'[q].runId = idempotency[q].runId
                      \/ /\ idempotency'[q] = NoRecord
                         /\ RunIs(idempotency[q].runId, "dead-lettered")
                         /\ runs'[idempotency[q].runId].status = "deleted"
    BY DEF AliveKept
  <2>1. CASE idempotency'[q] = NoRecord /\ (Alive(q) => idempotency[q].runId = old)
    BY <1>2, <1>3, <2>1 DEF RunIs
  <2>2. CASE idempotency'[q] = idempotency[q]
    BY <2>2 DEF Alive
  <2> QED BY <1>8, <2>1, <2>2
<1> QED BY <1>7, <1>9, <1>10, <1>11 DEF Promise

\* Cleanup removes terminal runs whose retention and claims have run out on the
\* caller's clock, which lags: so they have run out.
LEMMA CleanupPromise == ASSUME StoreInv, Cleanup PROVE Promise
<1> PICK S \in SUBSET RunId, K \in SUBSET Key, d \in Lag : CleanupTerminalRuns(S, K, d)
  BY DEF Cleanup
<1> USE StatusFacts
<1>1. TypeOK /\ runs \in [RunId -> Run] /\ deadLetters \subseteq DeadLetter
      /\ idempotency \in [Key -> IdempotencyRecord] /\ NoKey \notin Key /\ d \in Nat
  BY StoreConstants, LagIsNat DEF StoreInv, RecordInv, TypeOK
<1>2. \A r \in S : runs[r].status \in Terminal /\ runs[r].due <= 0
  BY <1>1 DEF CleanupTerminalRuns, Expired, Elapsed, Run
<1>3. \A k \in Key : Alive(k) => Claimed(k, d)
  BY <1>1, AliveIsClaimed
<1>4. \A k \in Key : Alive(k) => idempotency[k].runId \notin S /\ k \notin K
  BY <1>3 DEF CleanupTerminalRuns, Expired, ExpiredKeys
<1>5. /\ \A r \in S : runs'[r].status = "deleted"
      /\ \A r \in RunId \ S : runs'[r] = runs[r]
      /\ deadLetters' = {x \in deadLetters : x.runId \notin S}
  BY DEF CleanupTerminalRuns, DeadLettersWithout, Removed
<1>6. \A k \in Key : idempotency'[k] = IF k \in K THEN NoRecord ELSE idempotency[k]
  BY DEF CleanupTerminalRuns
<1>7. DeadLettersMatch'
  <2>1. \A x \in deadLetters : x.runId \in RunId /\ runs[x.runId].status = "dead-lettered"
    BY <1>1 DEF StoreInv, DeadLettersMatch, RunIs, DeadLetter
  <2>2. \A x \in deadLetters' : runs'[x.runId].status = "dead-lettered"
    BY <1>5, <2>1
  <2>3. ASSUME NEW q \in RunId, runs'[q].status = "dead-lettered"
        PROVE  \E y \in deadLetters' : /\ y.runId = q
                                       /\ y.attempts = runs'[q].attempt
                                       /\ \A z \in deadLetters' : z.runId = q => z = y
    <3>1. q \notin S /\ runs'[q] = runs[q] /\ RunIs(q, "dead-lettered")
      BY <1>5, <2>3 DEF RunIs
    <3> PICK y \in deadLetters : /\ y.runId = q
                                 /\ y.attempts = runs[q].attempt
                                 /\ \A z \in deadLetters : z.runId = q => z = y
      BY <3>1 DEF StoreInv, DeadLettersMatch
    <3> QED BY <1>5, <3>1
  <2> QED BY <2>2, <2>3 DEF DeadLettersMatch, RunIs
<1>8. LiveClaimKeepsRun'
  <2> SUFFICES ASSUME NEW q \in Key, Alive(q)'
               PROVE  runs'[idempotency'[q].runId].status \in Present
    BY DEF LiveClaimKeepsRun
  <2>1. Alive(q) /\ idempotency'[q] = idempotency[q]
    BY <1>6 DEF Alive
  <2>2. /\ idempotency[q].runId \in RunId
        /\ runs[idempotency[q].runId].status \in Present
    BY <1>1, <2>1, ClaimNamesRun DEF StoreInv, LiveClaimKeepsRun, Alive
  <2> QED BY <1>4, <1>5, <2>1, <2>2
<1>9. TerminalKept
  <2>1. \A r \in RunId : runs[r].status \in Live => r \notin S
    BY <1>2 DEF Live, Terminal
  <2> QED BY <1>2, <1>5, <2>1 DEF TerminalKept, Present
<1>10. AliveKept
  BY <1>4, <1>6 DEF AliveKept, Alive
<1> QED BY <1>7, <1>8, <1>9, <1>10 DEF Promise

\* Time brings deadlines nearer and changes nothing else.
LEMMA TickPromise == ASSUME StoreInv, Tick PROVE Promise
<1> USE StatusFacts
<1>1. TypeOK /\ runs \in [RunId -> Run] /\ deadLetters \subseteq DeadLetter
  BY DEF StoreInv, RecordInv, TypeOK
<1>2. \A r \in RunId : runs'[r].status = runs[r].status /\ runs'[r].attempt = runs[r].attempt
  BY <1>1 DEF Tick, Run
<1>3. \A x \in deadLetters : x.runId \in RunId
  BY <1>1 DEF DeadLetter
<1>4. DeadLettersMatch'
  BY <1>2, <1>3 DEF StoreInv, DeadLettersMatch, RunIs, Tick
<1>5. ASSUME NEW k \in Key, idempotency[k] # NoRecord
      PROVE  /\ idempotency'[k] # NoRecord
             /\ idempotency'[k].runId = idempotency[k].runId
             /\ Alive(k)' => Alive(k)
  <2>1. idempotency[k] \in [runId : RunId, checksum : Checksum, left : Int]
    BY <1>1, <1>5 DEF TypeOK, IdempotencyRecord
  <2>2. Sooner(idempotency[k].left) \in Int /\ Sooner(idempotency[k].left) <= idempotency[k].left
    BY <2>1, StoreConstants DEF Sooner
  <2>3. idempotency'[k] = [idempotency[k] EXCEPT !.left = Sooner(@)]
    BY <1>5 DEF Tick
  <2>4. idempotency'[k] \in [runId : RunId, checksum : Checksum, left : Int]
    BY <2>1, <2>2, <2>3
  <2>5. idempotency'[k].runId = idempotency[k].runId
        /\ idempotency'[k].left = Sooner(idempotency[k].left)
    BY <2>1, <2>3
  <2> QED BY <1>5, <2>1, <2>2, <2>4, <2>5, StoreConstants DEF Alive
<1>6. \A k \in Key : idempotency[k] = NoRecord => idempotency'[k] = NoRecord
  BY DEF Tick
<1>7. LiveClaimKeepsRun'
  <2> SUFFICES ASSUME NEW q \in Key, Alive(q)'
               PROVE  runs'[idempotency'[q].runId].status \in Present
    BY DEF LiveClaimKeepsRun
  <2>1. Alive(q) /\ idempotency'[q].runId = idempotency[q].runId
    BY <1>5, <1>6 DEF Alive
  <2>2. /\ idempotency[q].runId \in RunId
        /\ runs[idempotency[q].runId].status \in Present
    BY <1>1, <2>1, ClaimNamesRun DEF StoreInv, LiveClaimKeepsRun, Alive
  <2> QED BY <1>2, <2>1, <2>2
<1>8. TerminalKept
  BY <1>2 DEF TerminalKept, Present
<1>9. AliveKept
  BY <1>5 DEF AliveKept, Alive
<1> QED BY <1>4, <1>7, <1>8, <1>9 DEF Promise

--------------------------------------------------------------------------------
\* Every step of the store shows the promise.
LEMMA StoreStep ==
  StoreInv /\ [Next]_storeVars =>
      StoreInv' /\ [TerminalKept]_storeVars /\ [AliveKept]_storeVars
<1> SUFFICES ASSUME StoreInv, [Next]_storeVars
             PROVE  StoreInv' /\ [TerminalKept]_storeVars /\ [AliveKept]_storeVars
  OBVIOUS
<1>1. RecordInv'
  BY RecordStep DEF StoreInv
<1>2. CASE Claim \/ Release \/ Renew \/ Complete \/ Retry \/ Cancel \/ Pause
  <2>1. Plain
    BY <1>2, PlainOperations DEF StoreInv
  <2> QED BY <1>1, <2>1, PlainPromise DEF Promise, StoreInv
<1>3. CASE Enqueue
  BY <1>1, <1>3, EnqueuePromise DEF Promise, StoreInv
<1>4. CASE Bury \/ Recover
  BY <1>1, <1>4, BuryPromise DEF Promise, StoreInv
<1>5. CASE Requeue
  BY <1>1, <1>5, RequeuePromise DEF Promise, StoreInv
<1>6. CASE Cleanup
  BY <1>1, <1>6, CleanupPromise DEF Promise, StoreInv
<1>7. CASE Tick
  BY <1>1, <1>7, TickPromise DEF Promise, StoreInv
<1>8. CASE UNCHANGED storeVars
  <2>1. DeadLettersMatch' /\ LiveClaimKeepsRun'
    BY <1>8 DEF StoreInv, DeadLettersMatch, LiveClaimKeepsRun, Alive, RunIs, storeVars
  <2> QED BY <1>1, <1>8, <2>1 DEF StoreInv
<1> QED BY <1>2, <1>3, <1>4, <1>5, <1>6, <1>7, <1>8 DEF Next

\* The store starts out without runs, dead letters and claims.
LEMMA StoreInit == Init => StoreInv
<1> SUFFICES ASSUME Init PROVE StoreInv
  OBVIOUS
<1>1. RecordInv
  BY StoreConstants, StatusFacts DEF Init, RecordInv, AllSound, Sound, TypeOK, Run,
     NoToken, IdempotencyRecord
<1>2. DeadLettersMatch /\ LiveClaimKeepsRun
  BY DEF Init, DeadLettersMatch, LiveClaimKeepsRun, Alive, RunIs
<1> QED BY <1>1, <1>2 DEF StoreInv

\* Dead letters and dead-lettered runs stay in one-to-one correspondence, and a
\* claim that is alive always names a stored run.
THEOREM DeadLettersAndClaimsHold == Spec => [](DeadLettersMatch /\ LiveClaimKeepsRun)
<1>1. StoreInv => DeadLettersMatch /\ LiveClaimKeepsRun
  BY DEF StoreInv
<1> QED BY <1>1, StoreInit, StoreStep, PTL DEF Spec

\* A claim that is alive keeps the run it names stored, so that an enqueue which finds
\* the claim has a run to return.
THEOREM LiveClaimsHold == Spec => []LiveClaimKeepsRun
<1>1. StoreInv => LiveClaimKeepsRun
  BY DEF StoreInv
<1> QED BY <1>1, StoreInit, StoreStep, PTL DEF Spec

\* Once terminal, a run only goes away, after its retention or by the requeue of
\* its dead letter; a live run never goes away.
THEOREM TerminalRunsStay == Spec => TerminalIsFinal
  BY StoreInit, StoreStep, PTL DEF Spec, TerminalIsFinal

\* While an idempotency claim is alive its key keeps naming the same run.
THEOREM ClaimsStay == Spec => ClaimedKeyIsStable
  BY StoreInit, StoreStep, PTL DEF Spec, ClaimedKeyIsStable

--------------------------------------------------------------------------------
(***************************************************************************)
(* Concurrency and the sizes of the store.  Only claims make runs run,     *)
(* only appends and requeues store runs, only burials add dead letters;    *)
(* each of them counted before it added.                                   *)
(***************************************************************************)

CapsInv == StoreInv /\ IsFiniteSet(deadLetters) /\ WithinCaps /\ ConcurrencyBounded

\* Sets of runs are finite, and a smaller one has fewer elements.
LEMMA RunSets ==
  ASSUME NEW S \in SUBSET RunId, NEW T \in SUBSET S
  PROVE  /\ IsFiniteSet(S) /\ IsFiniteSet(T)
         /\ Cardinality(S) \in Nat /\ Cardinality(T) \in Nat
         /\ Cardinality(T) <= Cardinality(S)
  BY StoreConstants, FS_Subset, FS_CardinalityType

\* One element more makes a finite set at most one larger, and a union is at most
\* as large as its parts.
LEMMA OneMore ==
  ASSUME NEW S, NEW x, IsFiniteSet(S)
  PROVE  /\ IsFiniteSet(S \cup {x})
         /\ Cardinality(S \cup {x}) \in Nat
         /\ Cardinality(S \cup {x}) <= Cardinality(S) + 1
<1>1. Cardinality(S) \in Nat
  BY FS_CardinalityType
<1>2. /\ IsFiniteSet(S \cup {x})
      /\ Cardinality(S \cup {x}) = IF x \in S THEN Cardinality(S) ELSE Cardinality(S) + 1
  BY FS_AddElement
<1> QED BY <1>1, <1>2

LEMMA UnionBound ==
  ASSUME NEW S, NEW T, IsFiniteSet(S), IsFiniteSet(T)
  PROVE  /\ IsFiniteSet(S \cup T)
         /\ Cardinality(S \cup T) \in Nat
         /\ Cardinality(S \cup T) <= Cardinality(S) + Cardinality(T)
<1>1. /\ Cardinality(S) \in Nat /\ Cardinality(T) \in Nat
  BY FS_CardinalityType
<1>2. Cardinality(S \cap T) \in Nat
  BY FS_Subset, FS_CardinalityType
<1>3. /\ IsFiniteSet(S \cup T)
      /\ Cardinality(S \cup T) = Cardinality(S) + Cardinality(T) - Cardinality(S \cap T)
  BY FS_Union
<1>4. Cardinality(S \cup T) \in Nat
  BY <1>3, FS_CardinalityType
<1> QED BY <1>1, <1>2, <1>3, <1>4

\* No other operation than a claim sets a run running.
LEMMA OnlyClaimsRun ==
  ASSUME RecordInv, [Next]_storeVars, ~Claim, NEW r \in RunId,
         runs'[r].status = "running"
  PROVE  runs[r].status = "running"
<1>1. TypeOK /\ runs \in [RunId -> Run]
  BY DEF RecordInv, TypeOK
<1> USE StatusFacts
<1>2. CASE Enqueue
  BY <1>1, <1>2 DEF Enqueue, AppendRun, NewRun
<1>3. CASE Release
  BY <1>1, <1>3 DEF Release, ReleaseClaim
<1>4. CASE Renew
  BY <1>1, <1>4 DEF Renew, RenewLease, Fenced, Holds, RunIs
<1>5. CASE Complete
  BY <1>1, <1>5, EndedFields DEF Complete, CompleteRun
<1>6. CASE Retry
  BY <1>1, <1>6 DEF Retry, MarkRunRetryable, Fenced, Holds, RunIs
<1>7. CASE Bury
  BY <1>1, <1>7, EndedFields DEF Bury, DeadLetterRun
<1>8. CASE Cancel
  BY <1>1, <1>8, EndedFields DEF Cancel, CancelRun
<1>9. CASE Recover
  BY <1>1, <1>9 DEF Recover, RecoverStaleLeases, Stale, Running, RunIs
<1>10. CASE Requeue
  BY <1>1, <1>10 DEF Requeue, RequeueDeadLetter, NewRun, Removed
<1>11. CASE Cleanup
  BY <1>11 DEF Cleanup, CleanupTerminalRuns, Removed
<1>12. CASE Pause
  BY <1>12 DEF Pause, SetQueuePaused
<1>13. CASE Tick
  BY <1>1, <1>13 DEF Tick, Run
<1>14. CASE UNCHANGED storeVars
  BY <1>14 DEF storeVars
<1> QED
  BY <1>2, <1>3, <1>4, <1>5, <1>6, <1>7, <1>8, <1>9, <1>10, <1>11, <1>12, <1>13,
     <1>14 DEF Next

\* The claims of any number of workers together stay within the concurrency.
LEMMA ConcurrencyStep ==
  ASSUME RecordInv, ConcurrencyBounded, [Next]_storeVars
  PROVE  ConcurrencyBounded'
<1>1. Running \subseteq RunId /\ Running' \subseteq RunId
      /\ \A t : RunningTask(t) \subseteq Running /\ RunningTask(t)' \subseteq Running'
  BY DEF Running, RunningTask
<1>2. /\ Cardinality(Running) \in Nat /\ Cardinality(Running') \in Nat
      /\ \A t \in Task : /\ Cardinality(RunningTask(t)) \in Nat
                         /\ Cardinality(RunningTask(t)') \in Nat
                         /\ TaskLimit[t] \in Nat
      /\ MaxConcurrentRuns \in Nat
  BY <1>1, RunSets, StoreConstants
<1>3. CASE ~Claim
  <2>1. Running' \subseteq Running
    BY <1>3, OnlyClaimsRun DEF Running, RunIs
  <2>2. \A t \in Task : RunningTask(t)' \subseteq RunningTask(t)
    BY <2>1 DEF RunningTask
  <2>3. Cardinality(Running') <= Cardinality(Running)
    BY <1>1, <2>1, RunSets
  <2>4. \A t \in Task : Cardinality(RunningTask(t)') <= Cardinality(RunningTask(t))
    BY <1>1, <2>2, RunSets
  <2> QED BY <1>2, <2>3, <2>4 DEF ConcurrencyBounded
<1>4. CASE Claim
  <2> PICK S \in SUBSET RunId, tasks \in SUBSET Task,
           limit \in 1 .. MaxConcurrentRuns, d \in Lag : ClaimDueRuns(S, tasks, limit, d)
    BY <1>4 DEF Claim
  <2> DEFINE of(t) == {s \in S : TaskOf[s] = t}
  <2>1. Admitted(S, tasks, limit, d)
    BY DEF ClaimDueRuns
  <2>2. \A r \in RunId : RunIs(r, "running")' <=> (RunIs(r, "running") \/ r \in S)
    BY DEF ClaimDueRuns, RunIs
  <2>3. Running' = Running \cup S
    BY <2>2 DEF Running
  <2>4. \A t \in Task : RunningTask(t)' = RunningTask(t) \cup of(t)
    BY <2>3 DEF RunningTask
  <2>5. IsFiniteSet(S) /\ Cardinality(S) \in Nat /\ IsFiniteSet(Running)
    BY <1>1, RunSets
  <2>6. Cardinality(Running') <= Cardinality(Running) + Cardinality(S)
    BY <2>3, <2>5, UnionBound
  <2>7. Cardinality(S) <= MaxConcurrentRuns - Cardinality(Running)
    <3>1. Cardinality(S) <= Capacity(limit)
      BY <2>1 DEF Admitted
    <3>2. limit \in Nat
      OBVIOUS
    <3> QED BY <1>2, <2>5, <3>1, <3>2 DEF Capacity
  <2>8. ASSUME NEW t \in Task
        PROVE  Cardinality(RunningTask(t)') <= TaskLimit[t]
    <3>1. CASE of(t) = {}
      BY <2>4, <3>1 DEF ConcurrencyBounded
    <3>2. CASE of(t) # {}
      <4>1. S \cap {r \in RunId : TaskOf[r] = t} # {}
        BY <3>2
      <4>2. Cardinality(of(t)) <= TaskLimit[t] - Cardinality(RunningTask(t))
        BY <2>1, <4>1 DEF Admitted, TaskSlots
      <4>3. of(t) \in SUBSET RunId /\ RunningTask(t) \in SUBSET RunId
        BY <1>1
      <4> HIDE DEF of
      <4>4. /\ IsFiniteSet(of(t)) /\ IsFiniteSet(RunningTask(t))
            /\ Cardinality(of(t)) \in Nat
        BY <4>3, RunSets
      <4>5. Cardinality(RunningTask(t)') <= Cardinality(RunningTask(t)) + Cardinality(of(t))
        BY <2>4, <4>4, UnionBound
      <4> QED BY <1>2, <4>2, <4>4, <4>5
    <3> QED BY <3>1, <3>2
  <2> QED BY <1>2, <2>5, <2>6, <2>7, <2>8 DEF ConcurrencyBounded
<1> QED BY <1>3, <1>4

\* Nothing but an append and a requeue stores a run.
LEMMA OnlyNewRunsAreStored ==
  ASSUME RecordInv, [Next]_storeVars, ~Enqueue, ~Requeue
  PROVE  Stored' \subseteq Stored
<1> SUFFICES ASSUME NEW r \in RunId, runs'[r].status \in Present
             PROVE  runs[r].status \in Present
  BY DEF Stored
<1>1. TypeOK /\ runs \in [RunId -> Run]
  BY DEF RecordInv, TypeOK
<1> USE StatusFacts
<1>2. CASE Claim \/ Release \/ Renew \/ Complete \/ Retry \/ Cancel \/ Pause
  <2>1. Plain
    BY <1>2, PlainOperations
  <2> QED BY <2>1 DEF Plain, LeavesOrMoves, Live
<1>3. CASE Bury
  BY <1>1, <1>3 DEF Bury, DeadLetterRun, Fenced, Holds, RunIs
<1>4. CASE Recover
  BY <1>1, <1>4 DEF Recover, RecoverStaleLeases, Stale, Running, RunIs
<1>5. CASE Cleanup
  BY <1>5 DEF Cleanup, CleanupTerminalRuns, Removed
<1>6. CASE Tick
  BY <1>1, <1>6 DEF Tick, Run
<1>7. CASE UNCHANGED storeVars
  BY <1>7 DEF storeVars
<1> QED BY <1>2, <1>3, <1>4, <1>5, <1>6, <1>7 DEF Next

\* The number of stored runs stays within its cap.
LEMMA RunCapStep ==
  ASSUME StoreInv, Cardinality(Stored) <= MaxRuns, [Next]_storeVars
  PROVE  Cardinality(Stored') <= MaxRuns
<1>1. TypeOK /\ runs \in [RunId -> Run] /\ deadLetters \subseteq DeadLetter
  BY DEF StoreInv, RecordInv, TypeOK
<1>2. /\ Stored \in SUBSET RunId /\ Stored' \in SUBSET RunId
      /\ IsFiniteSet(Stored) /\ Cardinality(Stored) \in Nat
      /\ Cardinality(Stored') \in Nat /\ MaxRuns \in Nat
  BY RunSets, StoreConstants DEF Stored
<1> USE StatusFacts
<1>3. CASE ~Enqueue /\ ~Requeue
  <2>1. Stored' \in SUBSET Stored
    BY <1>3, OnlyNewRunsAreStored DEF StoreInv
  <2> QED BY <1>2, <2>1, RunSets
<1>4. CASE Enqueue
  <2> PICK r \in RunId, k \in Key \cup {NoKey}, c \in Checksum, delay \in Delay,
           d \in Lag : AppendRun(r, k, c, delay, d)
    BY <1>4 DEF Enqueue
  <2>1. Stored' = Stored \cup {r}
    BY <1>1 DEF AppendRun, NewRun, Stored
  <2>2. Cardinality(Stored) < MaxRuns
    BY <1>2 DEF AppendRun, HasRoom
  <2>3. Cardinality(Stored') <= Cardinality(Stored) + 1
    BY <1>2, <2>1, OneMore
  <2> QED BY <1>2, <2>2, <2>3
<1>5. CASE Requeue
  <2> PICK x \in deadLetters, r \in RunId, k \in Key \cup {NoKey}, c \in Checksum,
           d \in Lag : RequeueDeadLetter(x, r, k, c, d)
    BY <1>5 DEF Requeue
  <2> DEFINE rest == Stored \ {x.runId}
  <2>1. x.runId \in RunId /\ runs[x.runId].status = "dead-lettered"
        /\ runs[r].status = "absent"
    BY <1>1 DEF StoreInv, DeadLettersMatch, RunIs, DeadLetter, RequeueDeadLetter
  <2>2. Stored' = rest \cup {r}
    BY <1>1, <2>1 DEF RequeueDeadLetter, NewRun, Removed, Stored
  <2>3. Cardinality(Stored) < MaxRuns + 1
    BY DEF RequeueDeadLetter, HasRoom
  <2>4. x.runId \in Stored
    BY <2>1 DEF Stored
  <2>5. IsFiniteSet(rest) /\ Cardinality(rest) = Cardinality(Stored) - 1
    BY <1>2, <2>4, FS_RemoveElement
  <2>6. Cardinality(Stored') <= Cardinality(rest) + 1
    <3> HIDE DEF rest
    <3> QED BY <2>2, <2>5, OneMore
  <2> HIDE DEF rest
  <2> QED BY <1>2, <2>3, <2>5, <2>6
<1> QED BY <1>3, <1>4, <1>5

\* Dead letters taken from a finite set of runs are no more than the runs.
LEMMA DeadLettersOf ==
  ASSUME NEW S \in SUBSET RunId
  PROVE  LET T == {DeadLetterOf(r) : r \in S}
         IN  IsFiniteSet(T) /\ Cardinality(T) <= Cardinality(S) /\ Cardinality(T) \in Nat
<1> DEFINE T == {DeadLetterOf(r) : r \in S}
           f == [r \in S |-> DeadLetterOf(r)]
<1>1. f \in Surjection(S, T)
  BY DEF Surjection
<1>2. IsFiniteSet(S)
  BY RunSets
<1> HIDE DEF f, T
<1>3. IsFiniteSet(T) /\ Cardinality(T) <= Cardinality(S)
  BY <1>1, <1>2, FS_Surjection
<1>4. Cardinality(T) \in Nat
  BY <1>3, FS_CardinalityType
<1> QED BY <1>3, <1>4 DEF T

\* The number of dead letters stays within its cap.
LEMMA DeadLetterCapStep ==
  ASSUME StoreInv, IsFiniteSet(deadLetters), Cardinality(deadLetters) <= MaxDeadLetters,
         [Next]_storeVars
  PROVE  IsFiniteSet(deadLetters') /\ Cardinality(deadLetters') <= MaxDeadLetters
<1>1. Cardinality(deadLetters) \in Nat /\ MaxDeadLetters \in Nat
  BY FS_CardinalityType, StoreConstants
<1>2. CASE deadLetters' \subseteq deadLetters
  BY <1>1, <1>2, FS_Subset, FS_CardinalityType
<1>3. CASE Bury
  <2> PICK r \in RunId, n \in Token, d \in Lag : DeadLetterRun(r, n, d)
    BY <1>3 DEF Bury
  <2>1. /\ deadLetters' = deadLetters \cup {DeadLetterOf(r)}
        /\ Cardinality(deadLetters) < MaxDeadLetters
    BY DEF DeadLetterRun
  <2>2. /\ IsFiniteSet(deadLetters')
        /\ Cardinality(deadLetters') \in Nat
        /\ Cardinality(deadLetters') <= Cardinality(deadLetters) + 1
    BY <2>1, OneMore
  <2> QED BY <1>1, <2>1, <2>2
<1>4. CASE Recover
  <2> PICK S \in SUBSET RunId, d \in Lag : RecoverStaleLeases(S, d)
    BY <1>4 DEF Recover
  <2> DEFINE dead == {r \in S : Exhausted(r)}
             new == {DeadLetterOf(r) : r \in dead}
  <2>1. deadLetters' = deadLetters \cup new
    BY DEF RecoverStaleLeases
  <2>2. CASE dead = {}
    BY <1>2, <2>1, <2>2
  <2>3. CASE dead # {}
    <3>1. Cardinality(deadLetters) + Cardinality(dead) <= MaxDeadLetters
      BY <2>3 DEF RecoverStaleLeases
    <3>2. dead \in SUBSET RunId
      OBVIOUS
    <3>3. /\ IsFiniteSet(new) /\ Cardinality(new) <= Cardinality(dead)
          /\ Cardinality(new) \in Nat
      BY <3>2, DeadLettersOf
    <3>4. Cardinality(dead) \in Nat
      BY <3>2, RunSets
    <3> HIDE DEF new, dead
    <3>5. /\ IsFiniteSet(deadLetters \cup new)
          /\ Cardinality(deadLetters \cup new) \in Nat
          /\ Cardinality(deadLetters \cup new) <= Cardinality(deadLetters) + Cardinality(new)
      BY <3>3, UnionBound
    <3> QED BY <1>1, <2>1, <3>1, <3>3, <3>4, <3>5
  <2> QED BY <2>2, <2>3
<1>5. CASE ~Bury /\ ~Recover
  <2>1. CASE Enqueue
    BY <1>2, <2>1 DEF Enqueue, AppendRun
  <2>2. CASE Requeue
    BY <1>2, <2>2 DEF Requeue, RequeueDeadLetter
  <2>3. CASE Cleanup
    BY <1>2, <2>3 DEF Cleanup, CleanupTerminalRuns, DeadLettersWithout
  <2>4. CASE Tick
    BY <1>2, <2>4 DEF Tick
  <2>5. CASE UNCHANGED storeVars
    BY <1>2, <2>5 DEF storeVars
  <2>6. CASE Claim \/ Release \/ Renew \/ Complete \/ Retry \/ Cancel \/ Pause
    BY <1>2, <2>6, PlainOperations DEF Plain, StoreInv
  <2> QED BY <1>5, <2>1, <2>2, <2>3, <2>4, <2>5, <2>6 DEF Next
<1> QED BY <1>3, <1>4, <1>5

\* The invariant holds at first, and every step keeps it.
LEMMA CapsInit == Init => CapsInv
<1> SUFFICES ASSUME Init PROVE CapsInv
  OBVIOUS
<1>1. deadLetters = {} /\ Running = {} /\ Stored = {} /\ \A t : RunningTask(t) = {}
  BY StatusFacts DEF Init, Running, RunningTask, RunIs, Stored
<1>2. IsFiniteSet({}) /\ Cardinality({}) = 0
  BY FS_EmptySet
<1>3. WithinCaps /\ IsFiniteSet(deadLetters)
  BY <1>1, <1>2, StoreConstants DEF WithinCaps
<1>4. ConcurrencyBounded
  <2>1. 0 <= MaxConcurrentRuns /\ \A t \in Task : 0 <= TaskLimit[t]
    BY StoreConstants
  <2>2. Cardinality(Running) = 0 /\ \A t \in Task : Cardinality(RunningTask(t)) = 0
    BY <1>1, <1>2
  <2> QED BY <2>1, <2>2 DEF ConcurrencyBounded
<1> QED BY <1>3, <1>4, StoreInit DEF CapsInv

LEMMA CapsStep == CapsInv /\ [Next]_storeVars => CapsInv'
<1> SUFFICES ASSUME CapsInv, [Next]_storeVars PROVE CapsInv'
  OBVIOUS
<1>1. StoreInv'
  BY StoreStep DEF CapsInv
<1>2. ConcurrencyBounded'
  BY ConcurrencyStep DEF CapsInv, StoreInv
<1>3. Cardinality(Stored') <= MaxRuns
  BY RunCapStep DEF CapsInv, WithinCaps
<1>4. IsFiniteSet(deadLetters') /\ Cardinality(deadLetters') <= MaxDeadLetters
  BY DeadLetterCapStep DEF CapsInv, WithinCaps
<1> QED BY <1>1, <1>2, <1>3, <1>4 DEF CapsInv, WithinCaps

\* The workers' claims together never exceed the global and the per-task
\* concurrency, and the store never outgrows its caps.
THEOREM StoreStaysBounded == Spec => [](ConcurrencyBounded /\ WithinCaps)
<1>1. CapsInv => ConcurrencyBounded /\ WithinCaps
  BY DEF CapsInv
<1> QED BY <1>1, CapsInit, CapsStep, PTL DEF Spec

--------------------------------------------------------------------------------
(***************************************************************************)
(* JobsStore implements JobsLedger.                                        *)
(* Every operation maps to a step of the ledger or to a stutter, because   *)
(* of what the invariants of the store say of its records: a queued run    *)
(* has no attempts, a running one at least one, a dead letter names a      *)
(* dead-lettered run, and the running runs stay within the concurrency.    *)
(***************************************************************************)

\* The stages of the statuses.
LEMMA StageTable ==
    /\ StageOf("absent") = "none"
    /\ StageOf("queued") = "waiting" /\ StageOf("retryable") = "waiting"
    /\ StageOf("running") = "held"
    /\ StageOf("completed") = "settled" /\ StageOf("dead-lettered") = "settled"
    /\ StageOf("cancelled") = "cancelled"
    /\ StageOf("deleted") = "erased"
  BY DEF StageOf

\* A stage tells the statuses it stands for.
LEMMA StageInverse ==
  ASSUME NEW s \in Status
  PROVE  /\ StageOf(s) = "held" => s = "running"
         /\ StageOf(s) = "waiting" => s \in {"queued", "retryable"}
  BY StageTable DEF Status, Present, Live, Terminal

\* The operations on one run map to steps on one run.
LEMMA OneRunSteps ==
  ASSUME RecordInv, Enqueue \/ Release \/ Complete \/ Retry \/ Bury \/ Cancel
  PROVE  Ledger!Next
<1>1. /\ runs \in [RunId -> Run]
      /\ \A r \in RunId : runs[r] \in Run /\ Sound(runs[r], issued[r], MaxAttempts[r])
  BY DEF RecordInv, AllSound, TypeOK
<1>2. TypeOK
  BY DEF RecordInv
<1> USE StatusFacts, StageTable
<1>3. CASE Enqueue
  <2> PICK r \in RunId, k \in Key \cup {NoKey}, c \in Checksum, delay \in Delay,
           d \in Lag : AppendRun(r, k, c, delay, d)
    BY <1>3 DEF Enqueue
  <2>1. Ledger!Create(r)
    BY <1>1 DEF AppendRun, RunIs, NewRun, Run, Ledger!Create, Ledger!Moved
  <2> QED BY <2>1 DEF Ledger!Next
<1>4. CASE Release
  <2> PICK r \in RunId, n \in Token : ReleaseClaim(r, n)
    BY <1>4 DEF Release
  <2>1. RunIs(r, "running") /\ runs[r].attempt \in Nat
    BY <1>1 DEF ReleaseClaim, Holds, Run
  <2>2. Ledger!GiveBack(r)
    BY <1>1, <2>1 DEF ReleaseClaim, RunIs, Ledger!GiveBack, Ledger!Moved, Ledger!Charged
  <2> QED BY <2>2 DEF Ledger!Next
<1>5. ASSUME NEW r \in RunId, RunIs(r, "running"), UNCHANGED issued,
             NEW s \in {"completed", "dead-lettered"}, NEW d \in Lag,
             runs' = [runs EXCEPT ![r] = Ended(r, s, d)]
      PROVE  Ledger!Next
  <2>1. Ended(r, s, d).status = s /\ Ended(r, s, d).attempt = runs[r].attempt
    BY <1>2, EndedFields
  <2>2. {r} \in SUBSET Ledger!In("held") /\ {r} \in SUBSET {r}
    BY <1>5 DEF Ledger!In, RunIs
  <2>3. Ledger!Return({r}, {r})
    BY <1>1, <1>5, <2>1 DEF Ledger!Return
  <2> QED BY <2>2, <2>3 DEF Ledger!Next
<1>6. CASE Complete
  BY <1>5, <1>6 DEF Complete, CompleteRun, Fenced, Holds
<1>7. CASE Bury
  BY <1>5, <1>7 DEF Bury, DeadLetterRun, Fenced, Holds
<1>8. CASE Retry
  <2> PICK r \in RunId, n \in Token, delay \in Delay, d \in Lag :
           MarkRunRetryable(r, n, delay, d)
    BY <1>8 DEF Retry
  <2>1. RunIs(r, "running") /\ runs[r].attempt < MaxAttempts[r]
    BY DEF MarkRunRetryable, Fenced, Holds
  <2>2. {r} \in SUBSET Ledger!In("held") /\ {} \in SUBSET {r}
    BY <2>1 DEF Ledger!In, RunIs
  <2>3. runs'[r].status = "retryable" /\ runs'[r].attempt = runs[r].attempt
    BY <1>1 DEF MarkRunRetryable, Run
  <2>4. Ledger!Return({r}, {})
    BY <1>1, <2>1, <2>3 DEF MarkRunRetryable, Ledger!Return
  <2> QED BY <2>2, <2>4 DEF Ledger!Next
<1>9. CASE Cancel
  <2> PICK r \in RunId, n \in Token \cup {NoToken}, d \in Lag : CancelRun(r, n, d)
    BY <1>9 DEF Cancel
  <2>1. /\ Ended(r, "cancelled", d).status = "cancelled"
        /\ Ended(r, "cancelled", d).attempt = runs[r].attempt
    BY <1>2, EndedFields
  <2>2. runs[r].status \in {"queued", "running", "retryable"}
    BY DEF CancelRun, Cancellable, Live
  <2>3. Ledger!Cancel(r)
    BY <1>1, <2>1, <2>2 DEF CancelRun, Ledger!Cancel, Ledger!Moved
  <2> QED BY <2>3 DEF Ledger!Next
<1> QED BY <1>3, <1>4, <1>6, <1>7, <1>8, <1>9

\* A claim hands runs to new holders.
LEMMA ClaimHands ==
  ASSUME RecordInv, ConcurrencyBounded', Claim
  PROVE  Ledger!Next
<1> PICK S \in SUBSET RunId, tasks \in SUBSET Task,
         limit \in 1 .. MaxConcurrentRuns, d \in Lag : ClaimDueRuns(S, tasks, limit, d)
  BY DEF Claim
<1> USE StatusFacts, StageTable
<1>1. /\ runs \in [RunId -> Run]
      /\ \A r \in RunId : runs[r] \in Run /\ Sound(runs[r], issued[r], MaxAttempts[r])
  BY DEF RecordInv, AllSound, TypeOK
<1>2. \A r \in S : /\ runs[r].status \in {"queued", "retryable"}
                   /\ runs[r].attempt < MaxAttempts[r]
  <2>1. \A r \in S : /\ runs[r].status \in {"queued", "retryable"}
                     /\ runs[r].status = "queued" \/ runs[r].attempt < MaxAttempts[r]
    BY DEF ClaimDueRuns, Admitted, Candidates, RunIs
  <2> QED BY <1>1, <2>1, StoreConstants DEF Sound
<1>3. S \in SUBSET Ledger!In("waiting")
  BY <1>2 DEF Ledger!In
<1>4. Ledger!In("held") = Running
  BY <1>1, StageInverse DEF Ledger!In, Running, RunIs, Run
<1>5. Running \cup S = Running'
  BY DEF ClaimDueRuns, Running, RunIs
<1>6. Ledger!Hand(S)
  <2>1. Cardinality(Ledger!In("held") \cup S) <= MaxConcurrentRuns
    BY <1>4, <1>5 DEF ConcurrencyBounded
  <2>2. Ledger!Cardinality(Ledger!In("held") \cup S) <= MaxConcurrentRuns
    BY <2>1, Zenon DEF Ledger!Cardinality, Cardinality, Ledger!IsFiniteSet, IsFiniteSet
  <2> QED BY <1>1, <1>2, <2>2 DEF ClaimDueRuns, Ledger!Hand, Ledger!Moved, Ledger!Charged
<1> QED BY <1>3, <1>6 DEF Ledger!Next

\* Recovery settles exhausted runs and lets the others wait.
LEMMA RecoveryReturns ==
  ASSUME RecordInv, Recover
  PROVE  Ledger!Next
<1> PICK S \in SUBSET RunId, d \in Lag : RecoverStaleLeases(S, d)
  BY DEF Recover
<1> USE StatusFacts, StageTable
<1> DEFINE dead == {r \in S : Exhausted(r)}
<1>1. /\ runs \in [RunId -> Run]
      /\ \A r \in RunId : runs[r] \in Run /\ Sound(runs[r], issued[r], MaxAttempts[r])
      /\ TypeOK
  BY DEF RecordInv, AllSound, TypeOK
<1>2. S \in SUBSET Ledger!In("held") /\ dead \in SUBSET S
  BY DEF RecoverStaleLeases, Stale, Running, RunIs, Ledger!In
<1>3. \A r \in S \ dead : runs[r].attempt < MaxAttempts[r]
  BY <1>1, StoreConstants DEF Exhausted, Run
<1>4. \A r \in dead : /\ runs'[r].status = "dead-lettered"
                      /\ runs'[r].attempt = runs[r].attempt
  BY <1>1, EndedFields DEF RecoverStaleLeases
<1>5. \A r \in S \ dead : /\ runs'[r].status = "retryable"
                          /\ runs'[r].attempt = runs[r].attempt
  BY <1>1 DEF RecoverStaleLeases, Run
<1>6. \A r \in RunId \ S : runs'[r] = runs[r]
  BY DEF RecoverStaleLeases
<1>7. Ledger!Return(S, dead)
  <2> HIDE DEF dead
  <2>1. UNCHANGED issued
    BY DEF RecoverStaleLeases
  <2>2. \A r \in RunId : r \in dead => r \in S
    BY <1>2
  <2> QED BY <1>3, <1>4, <1>5, <1>6, <2>1, <2>2 DEF Ledger!Return
<1> QED BY <1>2, <1>7 DEF Ledger!Next

\* Runs leave only when they have ended.
LEMMA RemovalsErase ==
  ASSUME StoreInv, Requeue \/ Cleanup
  PROVE  Ledger!Next
<1> USE StatusFacts, StageTable
<1>1. runs \in [RunId -> Run] /\ deadLetters \subseteq DeadLetter
  BY DEF StoreInv, RecordInv, TypeOK
<1>2. CASE Requeue
  <2> PICK x \in deadLetters, r \in RunId, k \in Key \cup {NoKey}, c \in Checksum,
           d \in Lag : RequeueDeadLetter(x, r, k, c, d)
    BY <1>2 DEF Requeue
  <2>1. /\ x.runId \in RunId /\ runs[x.runId].status = "dead-lettered"
        /\ runs[r].status = "absent"
    BY <1>1 DEF StoreInv, RecordInv, AllSound, Sound, DeadLettersMatch, RunIs, DeadLetter,
                RequeueDeadLetter
  <2>2. Ledger!Replace(x.runId, r)
    BY <1>1, <2>1 DEF RequeueDeadLetter, NewRun, Removed, Ledger!Replace
  <2> QED BY <2>1, <2>2 DEF Ledger!Next
<1>3. CASE Cleanup
  <2> PICK S \in SUBSET RunId, K \in SUBSET Key, d \in Lag : CleanupTerminalRuns(S, K, d)
    BY <1>3 DEF Cleanup
  <2>1. S \in SUBSET (Ledger!In("settled") \cup Ledger!In("cancelled"))
    BY DEF CleanupTerminalRuns, Expired, Terminal, Ledger!In
  <2>2. Ledger!Erase(S)
    BY <1>1 DEF CleanupTerminalRuns, Removed, Ledger!Erase, Ledger!Moved
  <2> QED BY <2>1, <2>2 DEF Ledger!Next
<1> QED BY <1>2, <1>3

\* Renewals, pauses and the passing of time are stutters of the ledger.
LEMMA OthersStutter ==
  ASSUME RecordInv, Renew \/ Pause \/ Tick \/ UNCHANGED storeVars
  PROVE  UNCHANGED Ledger!ledger
<1>1. runs \in [RunId -> Run]
  BY DEF RecordInv, TypeOK
<1>2. \A r \in RunId : /\ runs'[r].status = runs[r].status
                       /\ runs'[r].attempt = runs[r].attempt
  BY <1>1 DEF Renew, RenewLease, Pause, SetQueuePaused, Tick, storeVars, Run
<1>3. UNCHANGED issued
  BY DEF Renew, RenewLease, Pause, SetQueuePaused, Tick, storeVars
<1> QED BY <1>2, <1>3 DEF Ledger!ledger

\* The store implements the ledger: whatever operations its clients call, with whatever
\* tokens and clocks, every run lives the life the ledger describes.
THEOREM StoreImplementsLedger == Spec => ImplementsLedger
<1>1. Init => Ledger!Init
  BY StageTable DEF Init, Ledger!Init
<1>2. CapsInv /\ CapsInv' /\ [Next]_storeVars => [Ledger!Next]_(Ledger!ledger)
  <2> SUFFICES ASSUME CapsInv, CapsInv', [Next]_storeVars
               PROVE  Ledger!Next \/ UNCHANGED Ledger!ledger
    OBVIOUS
  <2>1. StoreInv /\ RecordInv /\ ConcurrencyBounded'
    BY DEF CapsInv, StoreInv
  <2> QED
    BY <2>1, OneRunSteps, ClaimHands, RecoveryReturns, RemovalsErase, OthersStutter DEF Next
<1>3. Spec => []CapsInv
  BY CapsInit, CapsStep, PTL DEF Spec
<1> QED BY <1>1, <1>2, <1>3, PTL DEF Spec, ImplementsLedger, Ledger!Spec
================================================================================
