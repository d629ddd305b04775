------------------------------ MODULE JobsEnqueue ------------------------------
(***************************************************************************)
(* The enqueue call of the jobs runtime against the store of JobsStore:    *)
(* packages/jobs/src/jobs/core/handler-queue-api.ts.  A call generates a   *)
(* run and appends it.  When the append answers with an error or with an   *)
(* incomplete value it reads the run back; after an error, a request with  *)
(* an idempotency key whose run is not there is appended once more.        *)
(*                                                                         *)
(* The answer of a committed append can be lost, an append can fail before *)
(* it commits, and the read back can fail; each such fault is counted and  *)
(* bounded by MaxFaults.  Meanwhile workers claim, finish and retry runs.  *)
(***************************************************************************)
EXTENDS JobsStore

CONSTANTS
    Call,       \* the enqueue calls
    RunOf,      \* the run a call generates
    KeyOf,      \* its idempotency key, NoKey if it has none
    ChecksumOf, \* the checksum of its request
    NoRun,      \* no result
    MaxFaults   \* bound: lost answers, failed appends and failed reads

ASSUME CallConstants ==
    /\ RunOf \in [Call -> RunId] /\ \A a, b \in Call : RunOf[a] = RunOf[b] => a = b
    /\ KeyOf \in [Call -> Key \cup {NoKey}]
    /\ ChecksumOf \in [Call -> Checksum]
    /\ NoRun \notin RunId
    /\ MaxFaults \in Nat

VARIABLES
    call,       \* call -> where it is and the run id it returned
    faults,     \* faults so far
    lapsed      \* the keys one of whose claims has run out (history)

callVars == <<call, faults>>
vars == <<storeVars, callVars, lapsed>>

\* A "failed" call rejected after an answered read back or without one; the caller
\* of an "unknown" call was told that the recovery itself failed.
CallRecord ==
    [at : {"idle", "reading", "reconciling", "again", "ok", "failed", "unknown"},
     run : RunId \cup {NoRun}]

MayFault == faults < MaxFaults /\ faults' = faults + 1

Goes(e, at) == call' = [call EXCEPT ![e].at = at]

Returns(e, r) == call' = [call EXCEPT ![e] = [at |-> "ok", run |-> r]]

Append(e, d) == AppendRun(RunOf[e], KeyOf[e], ChecksumOf[e], 0, d)

\* The key's run is returned instead, if its checksum agrees and it is stored.
Deduplicates(e, d) ==
    /\ Claimed(KeyOf[e], d)
    /\ idempotency[KeyOf[e]].checksum = ChecksumOf[e]
    /\ idempotency[KeyOf[e]].runId \in Stored

\* The append throws: the key is taken by another request, or the store is full.
Refuses(e, d) ==
    ~Deduplicates(e, d) /\ (Claimed(KeyOf[e], d) \/ ~HasRoom(0) \/ RunOf[e] \in Stored)

\* A fault shows as an error, which leads to "then", or as an incomplete answer.
Misses(e, then) == MayFault /\ (Goes(e, then) \/ Goes(e, "reconciling"))

\* One append and its answer.
TryAppend(e, d, then) ==
    \/ Append(e, d) /\ Returns(e, RunOf[e]) /\ UNCHANGED faults
    \/ Append(e, d) /\ Misses(e, then)
    \/ /\ Deduplicates(e, d)
       /\ Returns(e, idempotency[KeyOf[e]].runId)
       /\ UNCHANGED <<storeVars, faults>>
    \/ Refuses(e, d) /\ Goes(e, then) /\ UNCHANGED <<storeVars, faults>>
    \/ Misses(e, then) /\ UNCHANGED storeVars

FirstAppend(e, d) == call[e].at = "idle" /\ TryAppend(e, d, "reading")

SecondAppend(e, d) == call[e].at = "again" /\ TryAppend(e, d, "failed")

\* The run read back must be exactly the generated one: still queued, never claimed.
Untouched(r) == RunIs(r, "queued") /\ issued[r] = 0

\* Only after an error is a request with a key sent again.
AfterMissing(e) ==
    IF call[e].at = "reading" /\ KeyOf[e] # NoKey THEN "again" ELSE "failed"

ReadBack(e) ==
    /\ call[e].at \in {"reading", "reconciling"}
    /\ UNCHANGED storeVars
    /\ \/ /\ RunOf[e] \in Stored
          /\ IF Untouched(RunOf[e]) THEN Returns(e, RunOf[e]) ELSE Goes(e, "failed")
          /\ UNCHANGED faults
       \/ /\ RunOf[e] \notin Stored
          /\ Goes(e, AfterMissing(e))
          /\ UNCHANGED faults
       \/ MayFault /\ Goes(e, "unknown")

--------------------------------------------------------------------------------
Caller == \E e \in Call : ReadBack(e) \/ \E d \in Lag : FirstAppend(e, d) \/ SecondAppend(e, d)

\* What else happens to the runs: the rest of the store's operations ends or frees
\* runs in ways these already do.
Workers == Claim \/ Complete \/ Recover \/ Cleanup \/ Tick

CallInit ==
    /\ Init
    /\ call = [e \in Call |-> [at |-> "idle", run |-> NoRun]]
    /\ faults = 0
    /\ lapsed = {}

Lapse ==
    lapsed' = lapsed \cup {k \in Key : idempotency'[k] # NoRecord /\ idempotency'[k].left <= 0}

CallNext == (Caller \/ (Workers /\ UNCHANGED callVars)) /\ Lapse

CallSpec == CallInit /\ [][CallNext]_vars

--------------------------------------------------------------------------------
(* Properties.                                                             *)

\* The calls' own variables stay in their types, and exactly the calls that
\* succeed return a run.
CallTypeOK ==
    /\ call \in [Call -> CallRecord] /\ faults \in 0 .. MaxFaults /\ lapsed \subseteq Key
    /\ \A e \in Call : call[e].at = "ok" <=> call[e].run # NoRun

Created(r) == runs[r].status # "absent"

\* Calls that share a key and a request create one run between them and all return
\* it, whatever answers are lost and however often the append is repeated, for as
\* long as the key's claim lasts.
KeyedOnce ==
    \A a, b \in Call :
        (KeyOf[a] = KeyOf[b] /\ KeyOf[a] \in Key \ lapsed) =>
            /\ Created(RunOf[a]) /\ Created(RunOf[b]) => a = b
            /\ call[a].at = "ok" /\ call[b].at = "ok" => call[a].run = call[b].run

\* A call that fails after an answered read back has not created its run.
FailureIsTruthful == \A e \in Call : call[e].at = "failed" => ~Created(RunOf[e])
================================================================================
