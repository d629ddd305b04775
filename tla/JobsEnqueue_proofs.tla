--------------------------- MODULE JobsEnqueue_proofs ---------------------------
(***************************************************************************)
(* Theorems about JobsEnqueue for all calls, faults, lags and store sizes. *)
(* Calls and workers together only take steps of the store, so that what   *)
(* JobsStore_proofs shows of the store holds under the calls; and calls    *)
(* that share an idempotency key and a request create one run between them *)
(* for as long as the key's claim lasts.                                   *)
(***************************************************************************)
EXTENDS JobsEnqueue, JobsStore_proofs

\* What a key whose claims have never run out says of the calls that carry it: its record is
\* alive, it names the run of every one of them that was created, and that is the run each of
\* them has returned.
KeySound(k) ==
    /\ idempotency[k] # NoRecord => idempotency[k].left > 0
    /\ \A e \in Call :
         KeyOf[e] = k =>
            /\ Created(RunOf[e]) =>
                 idempotency[k] # NoRecord /\ idempotency[k].runId = RunOf[e]
            /\ call[e].at = "ok" =>
                 idempotency[k] # NoRecord /\ idempotency[k].runId = call[e].run

CallInv ==
    /\ StoreInv
    /\ CallTypeOK
    /\ \A k \in Key \ lapsed : KeySound(k)

--------------------------------------------------------------------------------
(* The store.                                                              *)

\* A call or a worker takes a step of the store, or leaves the store alone.
LEMMA CallsUseTheStore ==
  ASSUME CallNext
  PROVE  [Next]_storeVars
<1>1. ASSUME NEW e \in Call, NEW d \in Lag, Append(e, d)
      PROVE  Next
  <2>1. RunOf[e] \in RunId /\ KeyOf[e] \in Key \cup {NoKey} /\ ChecksumOf[e] \in Checksum
    BY CallConstants
  <2>2. 0 \in Delay
    BY StoreConstants DEF Delay
  <2>3. Enqueue
    BY <1>1, <2>1, <2>2 DEF Append, Enqueue
  <2> QED BY <2>3 DEF Next
<1>2. ASSUME NEW e \in Call, NEW d \in Lag, FirstAppend(e, d) \/ SecondAppend(e, d)
      PROVE  Next \/ UNCHANGED storeVars
  BY <1>1, <1>2 DEF FirstAppend, SecondAppend, TryAppend
<1>3. ASSUME NEW e \in Call, ReadBack(e)
      PROVE  UNCHANGED storeVars
  BY <1>3 DEF ReadBack
<1>4. CASE Workers
  BY <1>4 DEF Workers, Next
<1> QED BY <1>2, <1>3, <1>4 DEF CallNext, Caller

--------------------------------------------------------------------------------
(* The calls.                                                              *)

\* What one append and its answer do to the calls: the call returns its own run, which has
\* just been appended, or the run its key names, or it goes on without a result.
LEMMA CallMoves ==
  ASSUME CallTypeOK, TypeOK, NEW e \in Call,
         ReadBack(e) \/ \E d \in Lag : FirstAppend(e, d) \/ SecondAppend(e, d)
  PROVE  /\ call[e].at # "ok" /\ call[e].run = NoRun
         /\ faults' \in 0 .. MaxFaults
         /\ \/ /\ call' = [call EXCEPT ![e] = [at |-> "ok", run |-> RunOf[e]]]
               /\ RunOf[e] \in Stored \/ \E d \in Lag : Append(e, d)
            \/ /\ call' = [call EXCEPT ![e] = [at |-> "ok", run |-> idempotency[KeyOf[e]].runId]]
               /\ KeyOf[e] \in Key /\ idempotency[KeyOf[e]] # NoRecord /\ UNCHANGED storeVars
            \/ \E at \in {"reading", "reconciling", "again", "failed", "unknown"} :
                 call' = [call EXCEPT ![e].at = at]
<1>1. /\ call \in [Call -> CallRecord] /\ faults \in 0 .. MaxFaults /\ MaxFaults \in Nat
      /\ call[e].at = "ok" <=> call[e].run # NoRun
  BY CallConstants DEF CallTypeOK
<1>2. KeyOf[e] \in Key \cup {NoKey}
  BY CallConstants
<1>3. ASSUME NEW at, MayFault PROVE faults' \in 0 .. MaxFaults
  BY <1>1, <1>3 DEF MayFault
<1>4. ASSUME NEW d \in Lag, NEW then \in {"reading", "failed"}, TryAppend(e, d, then)
      PROVE  /\ faults' \in 0 .. MaxFaults
             /\ \/ /\ call' = [call EXCEPT ![e] = [at |-> "ok", run |-> RunOf[e]]]
                   /\ Append(e, d)
                \/ /\ call' = [call EXCEPT ![e] =
                                 [at |-> "ok", run |-> idempotency[KeyOf[e]].runId]]
                   /\ KeyOf[e] \in Key /\ idempotency[KeyOf[e]] # NoRecord
                   /\ UNCHANGED storeVars
                \/ \E at \in {"reading", "reconciling", "again", "failed", "unknown"} :
                     call' = [call EXCEPT ![e].at = at]
  <2>1. CASE Append(e, d) /\ Returns(e, RunOf[e]) /\ UNCHANGED faults
    BY <1>1, <2>1 DEF Returns
  <2>2. CASE Misses(e, then)
    <3>1. faults' \in 0 .. MaxFaults
      BY <1>3, <2>2 DEF Misses
    <3>2. \E at \in {"reading", "reconciling", "again", "failed", "unknown"} :
            call' = [call EXCEPT ![e].at = at]
      BY <2>2 DEF Misses, Goes
    <3> QED BY <3>1, <3>2
  <2>3. CASE /\ Deduplicates(e, d)
             /\ Returns(e, idempotency[KeyOf[e]].runId)
             /\ UNCHANGED <<storeVars, faults>>
    BY <1>1, <1>2, <2>3 DEF Deduplicates, Claimed, Returns
  <2>4. CASE Refuses(e, d) /\ Goes(e, then) /\ UNCHANGED <<storeVars, faults>>
    BY <1>1, <2>4 DEF Goes
  <2> QED BY <1>4, <2>1, <2>2, <2>3, <2>4 DEF TryAppend
<1>5. CASE \E d \in Lag : FirstAppend(e, d) \/ SecondAppend(e, d)
  BY <1>1, <1>4, <1>5 DEF FirstAppend, SecondAppend
<1>6. CASE ReadBack(e)
  <2>1. AfterMissing(e) \in {"again", "failed"}
    BY DEF AfterMissing
  <2>2. faults' \in 0 .. MaxFaults
    BY <1>1, <1>3, <1>6 DEF ReadBack
  <2> QED BY <1>1, <1>6, <2>1, <2>2 DEF ReadBack, Returns, Goes
<1> QED BY <1>5, <1>6

\* Workers create no run, keep the key of a claim that is alive, and never give a key another run.
LEMMA WorkersKeep ==
  ASSUME TypeOK, Workers
  PROVE  /\ \A r \in RunId : runs'[r].status # "absent" => runs[r].status # "absent"
         /\ \A k \in Key :
              /\ idempotency[k] # NoRecord /\ idempotency[k].left > 0 => idempotency'[k] # NoRecord
              /\ idempotency'[k] # NoRecord =>
                   /\ idempotency[k] # NoRecord
                   /\ idempotency'[k].runId = idempotency[k].runId
<1>1. /\ runs \in [RunId -> Run] /\ idempotency \in [Key -> IdempotencyRecord]
      /\ \A r \in RunId : runs[r] \in Run
  BY DEF TypeOK
<1>2. CASE Claim
  <2>1. PICK S \in SUBSET RunId, tasks \in SUBSET Task, limit \in 1 .. MaxConcurrentRuns,
             d \in Lag : ClaimDueRuns(S, tasks, limit, d)
    BY <1>2 DEF Claim
  <2>2. \A r \in S : runs[r].status # "absent"
    BY <2>1 DEF ClaimDueRuns, Admitted, Candidates
  <2> QED BY <1>1, <2>1, <2>2 DEF ClaimDueRuns
<1>3. CASE Complete
  <2>1. PICK r \in RunId, n \in Token, d \in Lag : CompleteRun(r, n, d)
    BY <1>3 DEF Complete
  <2>2. runs[r].status = "running"
    BY <2>1 DEF CompleteRun, Fenced, Holds, RunIs
  <2> QED BY <1>1, <2>1, <2>2 DEF CompleteRun
<1>4. CASE Recover
  <2>1. PICK S \in SUBSET RunId, d \in Lag : RecoverStaleLeases(S, d)
    BY <1>4 DEF Recover
  <2>2. \A r \in S : runs[r].status = "running"
    BY <2>1 DEF RecoverStaleLeases, Stale, Running, RunIs
  <2>3. \A r \in RunId \ S : runs'[r] = runs[r]
    BY <1>1, <2>1 DEF RecoverStaleLeases
  <2>4. idempotency' = idempotency
    BY <2>1 DEF RecoverStaleLeases
  <2> QED BY <2>2, <2>3, <2>4
<1>5. CASE Cleanup
  <2>1. PICK S \in SUBSET RunId, K \in SUBSET Key, d \in Lag : CleanupTerminalRuns(S, K, d)
    BY <1>5 DEF Cleanup
  <2>2. \A r \in S : runs[r].status # "absent"
    BY <2>1 DEF CleanupTerminalRuns, Expired, Terminal
  <2>3. \A k \in K : idempotency[k].left + d <= 0
    BY <2>1, StoreConstants DEF CleanupTerminalRuns, ExpiredKeys, Claimed, Elapsed
  <2>4. \A k \in K : ~(idempotency[k] # NoRecord /\ idempotency[k].left > 0)
    BY <2>3, ClaimNamesRun, LagIsNat
  <2>5. /\ \A r \in RunId \ S : runs'[r] = runs[r]
        /\ idempotency' = [k \in Key |-> IF k \in K THEN NoRecord ELSE idempotency[k]]
    BY <1>1, <2>1 DEF CleanupTerminalRuns
  <2> QED BY <2>2, <2>4, <2>5
<1>6. CASE Tick
  <2>1. \A r \in RunId : runs'[r].status = runs[r].status
    BY <1>1, <1>6 DEF Tick, Run
  <2>2. \A k \in Key : idempotency[k] # NoRecord =>
            idempotency[k] \in [runId : RunId, checksum : Checksum, left : Int]
    BY <1>1 DEF IdempotencyRecord
  <2>3. \A k \in Key : idempotency[k] # NoRecord =>
            idempotency'[k] = [idempotency[k] EXCEPT !.left = Sooner(@)]
    BY <1>6 DEF Tick
  <2>4. \A k \in Key : idempotency[k].left \in Int => Sooner(idempotency[k].left) \in Int
    BY DEF Sooner
  <2>5. \A k \in Key : idempotency[k] # NoRecord =>
            /\ idempotency'[k] \in [runId : RunId, checksum : Checksum, left : Int]
            /\ idempotency'[k].runId = idempotency[k].runId
    BY <2>2, <2>3, <2>4
  <2>6. \A k \in Key : idempotency[k] = NoRecord => idempotency'[k] = NoRecord
    BY <1>6 DEF Tick
  <2> QED BY <2>1, <2>5, <2>6, StoreConstants
<1> QED BY <1>2, <1>3, <1>4, <1>5, <1>6 DEF Workers

\* Each step keeps the types of the calls.
LEMMA CallTypeStep ==
  ASSUME TypeOK, CallTypeOK, [CallNext]_vars
  PROVE  CallTypeOK'
<1>1. /\ call \in [Call -> CallRecord] /\ faults \in 0 .. MaxFaults /\ lapsed \subseteq Key
      /\ \A e \in Call : call[e].at = "ok" <=> call[e].run # NoRun
  BY DEF CallTypeOK
<1>2. CASE UNCHANGED vars
  BY <1>1, <1>2 DEF vars, callVars, CallTypeOK
<1>3. CASE CallNext
  <2>1. lapsed' \subseteq Key
    BY <1>1, <1>3 DEF CallNext, Lapse
  <2>2. CASE UNCHANGED callVars
    BY <1>1, <2>1, <2>2 DEF callVars, CallTypeOK
  <2>3. CASE Caller
    <3>1. PICK e \in Call :
            ReadBack(e) \/ \E d \in Lag : FirstAppend(e, d) \/ SecondAppend(e, d)
      BY <2>3 DEF Caller
    <3>2. /\ call[e].at # "ok" /\ call[e].run = NoRun
          /\ faults' \in 0 .. MaxFaults
          /\ \/ call' = [call EXCEPT ![e] = [at |-> "ok", run |-> RunOf[e]]]
             \/ /\ call' = [call EXCEPT ![e] =
                              [at |-> "ok", run |-> idempotency[KeyOf[e]].runId]]
                /\ KeyOf[e] \in Key /\ idempotency[KeyOf[e]] # NoRecord
             \/ \E at \in {"reading", "reconciling", "again", "failed", "unknown"} :
                  call' = [call EXCEPT ![e].at = at]
      BY <3>1, CallMoves
    <3>3. RunOf[e] \in RunId /\ NoRun \notin RunId
      BY CallConstants
    <3>4. ASSUME NEW r \in RunId, call' = [call EXCEPT ![e] = [at |-> "ok", run |-> r]]
          PROVE  /\ call' \in [Call -> CallRecord]
                 /\ \A f \in Call : call'[f].at = "ok" <=> call'[f].run # NoRun
      <4>1. [at |-> "ok", run |-> r] \in CallRecord
        BY DEF CallRecord
      <4> QED BY <1>1, <3>3, <3>4, <4>1
    <3>5. ASSUME NEW at \in {"reading", "reconciling", "again", "failed", "unknown"},
                 call' = [call EXCEPT ![e].at = at]
          PROVE  /\ call' \in [Call -> CallRecord]
                 /\ \A f \in Call : call'[f].at = "ok" <=> call'[f].run # NoRun
      BY <1>1, <3>2, <3>5 DEF CallRecord
    <3>6. /\ call' \in [Call -> CallRecord]
          /\ \A f \in Call : call'[f].at = "ok" <=> call'[f].run # NoRun
      <4>1. KeyOf[e] \in Key /\ idempotency[KeyOf[e]] # NoRecord =>
              idempotency[KeyOf[e]].runId \in RunId
        BY ClaimNamesRun
      <4> QED BY <3>2, <3>3, <3>4, <3>5, <4>1
    <3> QED BY <2>1, <3>2, <3>6 DEF CallTypeOK
  <2> QED BY <1>3, <2>2, <2>3 DEF CallNext
<1> QED BY <1>2, <1>3

--------------------------------------------------------------------------------
(* The keys.                                                               *)

\* Each step keeps what the keys say that have never run out.
LEMMA KeyStep ==
  ASSUME CallInv, StoreInv', [CallNext]_vars, NEW k \in Key, k \notin lapsed'
  PROVE  KeySound(k)'
<1>1. /\ TypeOK /\ TypeOK' /\ CallTypeOK
      /\ idempotency \in [Key -> IdempotencyRecord] /\ runs \in [RunId -> Run]
      /\ call \in [Call -> CallRecord]
      /\ \A e \in Call : RunOf[e] \in RunId
      /\ \A a, b \in Call : RunOf[a] = RunOf[b] => a = b
  BY CallConstants DEF CallInv, StoreInv, RecordInv, TypeOK, CallTypeOK
<1>2. CASE UNCHANGED vars
  BY <1>2 DEF vars, callVars, storeVars, CallInv, KeySound, Created
<1>3. CASE CallNext
  <2>1. k \notin lapsed
    BY <1>3 DEF CallNext, Lapse
  <2>2. KeySound(k)
    BY <2>1 DEF CallInv
  <2>3. idempotency'[k] # NoRecord => idempotency'[k].left > 0
    <3>1. idempotency'[k] # NoRecord => idempotency'[k].left \in Int
      BY <1>1 DEF TypeOK, IdempotencyRecord
    <3> QED BY <1>3, <3>1 DEF CallNext, Lapse
  <2>4. CASE Workers /\ UNCHANGED callVars
    <3>1. /\ \A r \in RunId : runs'[r].status # "absent" => runs[r].status # "absent"
          /\ idempotency[k] # NoRecord => idempotency'[k] # NoRecord
          /\ idempotency'[k] # NoRecord => idempotency'[k].runId = idempotency[k].runId
      BY <1>1, <2>2, <2>4, WorkersKeep DEF KeySound
    <3> QED BY <1>1, <2>2, <2>3, <2>4, <3>1 DEF KeySound, Created, callVars
  <2>5. CASE Caller
    <3>1. PICK e \in Call :
            ReadBack(e) \/ \E d \in Lag : FirstAppend(e, d) \/ SecondAppend(e, d)
      BY <2>5 DEF Caller
    <3>2. /\ call[e].at # "ok"
          /\ \/ /\ call' = [call EXCEPT ![e] = [at |-> "ok", run |-> RunOf[e]]]
                /\ RunOf[e] \in Stored \/ \E d \in Lag : Append(e, d)
             \/ /\ call' = [call EXCEPT ![e] =
                              [at |-> "ok", run |-> idempotency[KeyOf[e]].runId]]
                /\ KeyOf[e] \in Key /\ idempotency[KeyOf[e]] # NoRecord /\ UNCHANGED storeVars
             \/ \E at \in {"reading", "reconciling", "again", "failed", "unknown"} :
                  call' = [call EXCEPT ![e].at = at]
      BY <1>1, <3>1, CallMoves
    <3>3. CASE \E d \in Lag : Append(e, d)
      <4>1. PICK d \in Lag : Append(e, d)
        BY <3>3
      <4>2. /\ runs' = [runs EXCEPT ![RunOf[e]] = NewRun(0)]
            /\ idempotency' = IF KeyOf[e] = NoKey THEN idempotency
                              ELSE [idempotency EXCEPT ![KeyOf[e]] =
                                      [runId |-> RunOf[e], checksum |-> ChecksumOf[e],
                                       left |-> IdempotencyMs - d]]
            /\ ~Claimed(KeyOf[e], d)
        BY <4>1 DEF Append, AppendRun
      <4>3. CASE KeyOf[e] # k
        <5>1. idempotency'[k] = idempotency[k]
          BY <1>1, <4>2, <4>3
        <5>2. \A f \in Call : KeyOf[f] = k => runs'[RunOf[f]] = runs[RunOf[f]] /\ call'[f] = call[f]
          BY <1>1, <3>2, <4>2, <4>3
        <5> QED BY <2>2, <2>3, <5>1, <5>2 DEF KeySound, Created
      <4>4. CASE KeyOf[e] = k
        <5>1. idempotency[k] = NoRecord
          <6>1. idempotency[k] # NoRecord => idempotency[k].left \in Int /\ d \in Nat
            BY <1>1, ClaimNamesRun, LagIsNat
          <6> QED BY <2>2, <4>2, <4>4, <6>1, StoreConstants DEF Claimed, Elapsed, KeySound
        <5>2. /\ idempotency'[k].runId = RunOf[e] /\ idempotency'[k] # NoRecord
          <6>1. idempotency'[k] = [runId |-> RunOf[e], checksum |-> ChecksumOf[e],
                                   left |-> IdempotencyMs - d]
            BY <1>1, <4>2, <4>4, StoreConstants
          <6>2. /\ ChecksumOf[e] \in Checksum /\ RunOf[e] \in RunId
                /\ IdempotencyMs - d \in Int
            BY <4>1, CallConstants, StoreConstants, LagIsNat
          <6> QED BY <6>1, <6>2, StoreConstants
        <5>3. \A f \in Call : KeyOf[f] = k /\ f # e =>
                /\ runs'[RunOf[f]] = runs[RunOf[f]] /\ call'[f] = call[f]
                /\ ~Created(RunOf[f]) /\ call[f].at # "ok"
          BY <1>1, <2>2, <3>2, <4>2, <5>1 DEF KeySound
        <5>4. call'[e].at = "ok" => call'[e].run = RunOf[e]
          <6>1. idempotency' # idempotency
            BY <5>1, <5>2
          <6> QED BY <1>1, <3>2, <6>1 DEF storeVars, CallRecord
        <5> QED BY <2>3, <5>2, <5>3, <5>4 DEF KeySound, Created
      <4> QED BY <4>3, <4>4
    <3>4. CASE UNCHANGED storeVars
      <4>1. \A f \in Call : KeyOf[f] = k /\ call'[f].at = "ok" =>
              idempotency[k] # NoRecord /\ idempotency[k].runId = call'[f].run
        <5>1. ~\E d \in Lag : Append(e, d)
          <6>1. ASSUME NEW d \in Lag, Append(e, d) PROVE FALSE
            <7>1. runs[RunOf[e]].status = "absent" /\ runs'[RunOf[e]] = NewRun(0)
              BY <1>1, <6>1 DEF Append, AppendRun, RunIs
            <7> QED BY <3>4, <7>1 DEF NewRun, storeVars
          <6> QED BY <6>1
        <5>2. RunOf[e] \in Stored => Created(RunOf[e])
          BY StatusFacts DEF Stored, Created
        <5>3. \A f \in Call : f # e => call'[f] = call[f]
          BY <1>1, <3>2
        <5>4. ASSUME KeyOf[e] = k, call'[e].at = "ok"
              PROVE  idempotency[k] # NoRecord /\ idempotency[k].runId = call'[e].run
          BY <1>1, <2>2, <3>2, <5>1, <5>2, <5>4 DEF KeySound, CallRecord
        <5> QED BY <2>2, <5>3, <5>4 DEF KeySound
      <4> QED BY <2>2, <2>3, <3>4, <4>1 DEF KeySound, Created, storeVars
    <3> QED BY <3>1, <3>3, <3>4 DEF ReadBack, FirstAppend, SecondAppend, TryAppend
  <2> QED BY <1>3, <2>4, <2>5 DEF CallNext
<1> QED BY <1>2, <1>3

--------------------------------------------------------------------------------
(* The theorems.                                                           *)

\* The invariant holds in every reachable state.
LEMMA CallInvariant == CallSpec => []CallInv
<1>1. CallInit => CallInv
  <2> SUFFICES ASSUME CallInit PROVE CallInv
    OBVIOUS
  <2>1. StoreInv
    BY StoreInit DEF CallInit
  <2>2. CallTypeOK
    BY CallConstants DEF CallInit, CallTypeOK, CallRecord
  <2>3. ASSUME NEW k \in Key PROVE KeySound(k)
    BY CallConstants DEF CallInit, Init, KeySound, Created
  <2> QED BY <2>1, <2>2, <2>3 DEF CallInv
<1>2. CallInv /\ [CallNext]_vars => CallInv'
  <2> SUFFICES ASSUME CallInv, [CallNext]_vars PROVE CallInv'
    OBVIOUS
  <2>1. [Next]_storeVars
    BY CallsUseTheStore DEF vars
  <2>2. StoreInv'
    BY <2>1, StoreStep DEF CallInv
  <2>3. CallTypeOK'
    BY CallTypeStep DEF CallInv, StoreInv, RecordInv
  <2> QED BY <2>2, <2>3, KeyStep DEF CallInv
<1> QED BY <1>1, <1>2, PTL DEF CallSpec

\* Calls and workers use the store only through its operations: every behaviour of theirs is
\* one of the store, so that the store's theorems hold under them.
THEOREM CallsAreStoreSteps == CallSpec => Spec
<1>1. CallInit => Init
  BY DEF CallInit
<1>2. [CallNext]_vars => [Next]_storeVars
  BY CallsUseTheStore DEF vars
<1> QED BY <1>1, <1>2, PTL DEF CallSpec, Spec

\* The calls stay in their types, and exactly those that succeed return a run.
THEOREM CallsTyped == CallSpec => []CallTypeOK
<1>1. CallInv => CallTypeOK
  BY DEF CallInv
<1> QED BY <1>1, CallInvariant, PTL

\* Calls that share a key create one run between them and all return it, whatever answers are
\* lost and however often the append is repeated, while the key's claim lasts.
THEOREM KeyedCallsCreateOneRun == CallSpec => []KeyedOnce
<1>1. ASSUME CallInv PROVE KeyedOnce
  <2>1. \A a, b \in Call : RunOf[a] = RunOf[b] => a = b
    BY CallConstants
  <2> QED BY <1>1, <2>1 DEF CallInv, KeySound, KeyedOnce
<1> QED BY <1>1, CallInvariant, PTL
================================================================================
