------------------------------ MODULE CacheRuntime ------------------------------
(***************************************************************************)
(* The cache-aside runtime of packages/cache/src/cache/core: get, load,    *)
(* set, delete and invalidate over an asynchronous backend, with mutation  *)
(* revisions (handler-runtime.ts), the order of overlapping mutations      *)
(* (runtime-mutations.ts), single-flight loads (runtime-operations.ts,     *)
(* runtime-tracking.ts), flush and shutdown (runtime-finalization.ts).     *)
(*                                                                         *)
(* An action is the code between two awaits.  The backend answers late or  *)
(* never; every wait for it ends with the timer of runBackend, while the   *)
(* mutation itself goes on.  The application changes its source first and  *)
(* calls the cache then, so the value of an entry is the version of the    *)
(* source it was taken from.                                               *)
(*                                                                         *)
(* Abstracted: clocks (an entry turns stale, expires or is evicted at any  *)
(* moment); negative entries, encoding, metadata, namespaces and versions  *)
(* of keys; the batch calls getMany, setMany, deleteMany and loadMany; the *)
(* capacities of calls, flights and backend operations (a read or a write  *)
(* may be refused at any time); the overflow of the revision; reads that   *)
(* settle after their timeout; the timeouts of flush and shutdown, which   *)
(* leave their work going.                                                 *)
(***************************************************************************)
EXTENDS Integers, FiniteSets

CONSTANTS
    Key, NoKey,
    Calls,              \* bound: calls of the cache's methods, each made once
    NoCall, Shutdown,   \* nobody; the caller that shuts down
    MaxFaults           \* bound: failures of finalization

ASSUME CacheConstants ==
    /\ IsFiniteSet(Key) /\ NoKey \notin Key
    /\ NoCall \notin Calls /\ Shutdown \notin Calls /\ NoCall # Shutdown
    /\ MaxFaults \in Nat

VARIABLES
    source,     \* the version of the source of truth
    entry,      \* key -> the entry of the backend
    revision,   \* the latest mutation revision, and that of each key
    tails,      \* the mutation coordinator's keyTails and broadTail
    call,       \* call -> where it is and what it has seen
    write,      \* call -> its mutation
    flight,     \* key -> the load that owns the single flight
    state,      \* running, draining or closed
    stop,       \* shutdownWork
    flush,      \* flushWork, lastFlushedMutationRevision and what a flush covers
    faults

store == <<source, entry, revision, tails, write>>
ending == <<state, stop, flush, faults>>
vars == <<store, call, flight, ending>>

--------------------------------------------------------------------------------
None == -1      \* no value

Entry == [version : Int, stale : BOOLEAN]
Miss == [version |-> None, stale |-> FALSE]
Unread == [version |-> None, stale |-> TRUE]
IsFresh(e) == e.version # None /\ ~e.stale

FreshCall == [at |-> "idle", key |-> NoKey, result |-> None, fallback |-> FALSE,
              deps |-> {}, answer |-> Unread, found |-> Miss, latest |-> Miss, seen |-> 0, base |-> 0,
              blind |-> FALSE, loaded |-> None, of |-> NoCall, before |-> {},
              asked |-> {}, missed |-> {}]

NoWrite == [at |-> "none", deps |-> {}, scope |-> {}, version |-> None, floor |-> 0]

At(c, phase) == call[c].at = phase
KeyOf(c) == call[c].key
Requests == {c \in Calls : call[c].at \in {"barrier", "settling", "flushing"}}
Pending == {c \in Calls : call[c].at \notin {"idle", "done", "flushed"}} \ Requests
Unsettled == {c \in Calls : write[c].at = "accepted"}

\* History: the mutations accepted so far.
Accepted == {m \in Calls : write[m].floor > 0}

--------------------------------------------------------------------------------
(* Mutations: their revisions and their order.                             *)

\* markMutation, before the backend is asked for room.
Marked(K) ==
    revision' = [all |-> revision.all + 1,
                 of |-> [k \in Key |-> IF k \in K THEN revision.all + 1 ELSE revision.of[k]]]

\* dependenciesFor: the tails of the keys and of the last broad mutation.
Dependencies(K) == ({tails.broad} \cup {tails.key[k] : k \in K}) \ {NoCall}

\* Mutant: pending mutations are overlooked.
IsNeverPending(k) == FALSE

IsPending(k) == tails.broad # NoCall \/ tails.key[k] # NoCall

Settled(D) == D \cap Unsettled = {}

\* run: the mutation of the keys K goes to the backend after those accepted before it.
Accepts(c, K, broad, version, floor) ==
    /\ write' = [write EXCEPT ![c] = [at |-> "accepted", deps |-> Dependencies(K),
                                      scope |-> K, version |-> version, floor |-> floor]]
    /\ tails' = IF broad THEN [tails EXCEPT !.broad = c]
                ELSE [tails EXCEPT !.key = [k \in Key |-> IF k \in K THEN c ELSE @[k]]]

\* cleanup: c is no longer the tail of any key.
Cleaned(c) ==
    tails' = [broad |-> IF tails.broad = c THEN NoCall ELSE tails.broad,
              key |-> [k \in Key |-> IF tails.key[k] = c THEN NoCall ELSE tails.key[k]]]

--------------------------------------------------------------------------------
(* Calls of set, delete, invalidate and get.                               *)

\* What is left of a call; what it had seen only matters if it has a result.
Over(phase) == [FreshCall EXCEPT !.at = phase]

Done(c, version) ==
    IF version = None THEN Over("done")
    ELSE [Over("done") EXCEPT !.key = c.key, !.result = version, !.of = c.of,
                              !.before = c.before]

Returns(c, version) == call' = [call EXCEPT ![c] = Done(@, version)]

\* The source changes, then the cache is told.  The backend may have no room for the
\* operation: the call fails, after the revision has changed.
Mutate(c, K, broad, version) ==
    /\ At(c, "idle") /\ state = "running"
    /\ source' = source + 1
    /\ Marked(K)
    /\ \/ /\ Accepts(c, K, broad, version, source')
          /\ call' = [call EXCEPT ![c].at = "mutating"]
       \/ Returns(c, None) /\ UNCHANGED <<tails, write>>
    /\ UNCHANGED <<entry, flight, ending>>

Set(c, k) == Mutate(c, {k}, FALSE, source + 1)

Delete(c, k) == Mutate(c, {k}, FALSE, None)

Invalidate(c) == Mutate(c, Key, TRUE, None)

\* lookup: the read waits for the mutations accepted before it.
Asks(c, k, phase) ==
    [call[c] EXCEPT !.at = phase, !.key = k, !.deps = Dependencies({k}), !.answer = Unread,
                    !.asked = Accepted]

\* History: the mutations accepted while the answer was under way.
Missed(c) == Accepted \ call[c].asked

Call(c, k, phase) ==
    /\ At(c, "idle") /\ state = "running"
    /\ call' = [call EXCEPT ![c] = [Asks(c, k, phase) EXCEPT !.before = Accepted]]
    /\ UNCHANGED <<store, flight, ending>>

Get(c, k) == Call(c, k, "get")

Load(c, k) == Call(c, k, "lookup")

\* Mutant: reads do not wait.
ReadsAtOnce(c) == call[c].answer = Unread

MayRead(c) == call[c].answer = Unread /\ Settled(call[c].deps)

\* The backend reads; its answer gets to the caller later.
Read(c) ==
    /\ call[c].at \in {"get", "lookup", "recheck", "reread"} /\ MayRead(c)
    /\ call' = [call EXCEPT ![c].answer = entry[KeyOf(c)]]
    /\ UNCHANGED <<store, flight, ending>>

Answered(c, phase) == At(c, phase) /\ call[c].answer # Unread

GetReturns(c) ==
    /\ Answered(c, "get")
    /\ Returns(c, IF IsFresh(call[c].answer) THEN call[c].answer.version ELSE None)
    /\ UNCHANGED <<store, flight, ending>>

\* A read may be refused, fail or time out.
GetFails(c) ==
    /\ At(c, "get")
    /\ Returns(c, None)
    /\ UNCHANGED <<store, flight, ending>>

--------------------------------------------------------------------------------
(* load.  Calls of one key that miss share one flight.                     *)

Passengers(c) == {c} \cup {d \in Calls : At(d, "joined") /\ call[d].of = c}

Lands(c, version) ==
    /\ call' = [d \in Calls |-> IF d \in Passengers(c) THEN Done(call[d], version) ELSE call[d]]
    /\ flight' = [flight EXCEPT ![KeyOf(c)] = NoCall]

\* The loader is called, with the revision as it is now.
Loading(d, k) == [d EXCEPT !.at = "loading", !.deps = {}, !.answer = Unread,
                           !.asked = {}, !.base = revision.of[k]]

\* A call that missed joins the flight of its key, or starts one: with another look at
\* the cache, unless the first one has timed out.
Departs(c, found, again) ==
    LET k == KeyOf(c)
        d == [Asks(c, k, "recheck") EXCEPT !.found = found, !.seen = revision.of[k],
                                        !.missed = Missed(c)]
    IN IF flight[k] # NoCall
       THEN /\ call' = [call EXCEPT ![c] = [d EXCEPT !.at = "joined", !.deps = {}, !.asked = {},
                                                       !.of = flight[k]]]
            /\ UNCHANGED flight
       ELSE /\ call' = [call EXCEPT ![c] = IF again THEN d ELSE Loading(d, k)]
            /\ flight' = [flight EXCEPT ![k] = c]

LookupReturns(c) ==
    /\ Answered(c, "lookup")
    /\ IF IsFresh(call[c].answer)
       THEN Returns(c, call[c].answer.version) /\ UNCHANGED flight
       ELSE Departs(c, call[c].answer, TRUE)
    /\ UNCHANGED <<store, ending>>

LookupFails(c) ==
    /\ At(c, "lookup")
    /\ \E timedOut \in BOOLEAN : Departs(c, Miss, ~timedOut)
    /\ UNCHANGED <<store, ending>>

RecheckReturns(c) ==
    /\ Answered(c, "recheck")
    /\ IF IsFresh(call[c].answer)
       THEN Lands(c, call[c].answer.version)
       ELSE /\ call' = [call EXCEPT ![c] = [Loading(@, KeyOf(c)) EXCEPT
                                              !.latest = call[c].answer, !.missed = Missed(c)]]
            /\ UNCHANGED flight
    /\ UNCHANGED <<store, ending>>

RecheckFails(c) ==
    /\ At(c, "recheck")
    /\ call' = [call EXCEPT ![c] = [Loading(@, KeyOf(c)) EXCEPT !.blind = TRUE]]
    /\ UNCHANGED <<store, flight, ending>>

\* The loader sees the source at some moment of its call.
LoaderReads(c) ==
    /\ At(c, "loading") /\ call[c].loaded = None
    /\ call' = [call EXCEPT ![c].loaded = source]
    /\ UNCHANGED <<store, flight, ending>>

\* Mutant: what happened while the loader ran is not asked.
AlwaysUnchanged(c) == TRUE

Unchanged(c) == revision.of[KeyOf(c)] = call[c].base

\* The value is stored unless the key was mutated since the loader was called, or the
\* value cannot be stored; a refused write is no failure of the load.
LoaderReturns(c) ==
    /\ At(c, "loading") /\ call[c].loaded # None
    /\ \/ /\ Unchanged(c)
          /\ Marked({KeyOf(c)})
          /\ \/ /\ Accepts(c, {KeyOf(c)}, FALSE, call[c].loaded, 0)
                /\ call' = [call EXCEPT ![c].at = "saving"]
                /\ UNCHANGED flight
             \/ Lands(c, call[c].loaded) /\ UNCHANGED <<tails, write>>
       \/ Lands(c, call[c].loaded) /\ UNCHANGED <<revision, tails, write>>
    /\ UNCHANGED <<source, entry, ending>>

\* What a passenger falls back on when the flight has failed: the flight's own last
\* look, or what the passenger found if the flight could not look and the key has not
\* been mutated since.
FallbackOf(c, d, current) ==
    IF current # Miss THEN current
    ELSE IF call[c].blind /\ revision.of[KeyOf(d)] = call[d].seen THEN call[d].found
    ELSE Miss

\* staleIfError may be off, or the entry may have expired meanwhile.
Crashes(c, current) ==
    LET k == KeyOf(c)
        rest(d) == FallbackOf(c, d, current)
    IN /\ \E served \in SUBSET {d \in Passengers(c) : ~IsPending(k) /\ rest(d) # Miss} :
            call' = [d \in Calls |->
                       IF d \in served
                       THEN [Done(call[d], rest(d).version) EXCEPT !.fallback = TRUE]
                       ELSE IF d \in Passengers(c) THEN Done(call[d], None) ELSE call[d]]
       /\ flight' = [flight EXCEPT ![k] = NoCall]

\* A key mutated meanwhile is looked up again.
LoaderFails(c) ==
    /\ At(c, "loading")
    /\ IF Unchanged(c) THEN Crashes(c, call[c].latest)
       ELSE call' = [call EXCEPT ![c] = Asks(c, KeyOf(c), "reread")] /\ UNCHANGED flight
    /\ UNCHANGED <<store, ending>>

RereadReturns(c) ==
    /\ Answered(c, "reread")
    /\ Crashes(c, call[c].answer)
    /\ UNCHANGED <<store, ending>>

RereadFails(c) ==
    /\ At(c, "reread")
    /\ Crashes(c, Miss)
    /\ UNCHANGED <<store, ending>>

--------------------------------------------------------------------------------
(* The backend.                                                            *)

\* The call behind a mutation goes on, unless its timer has fired before.
Resumes(c) ==
    CASE At(c, "mutating") -> Returns(c, None) /\ UNCHANGED flight
      [] At(c, "saving") -> Lands(c, call[c].loaded)
      [] OTHER -> UNCHANGED <<call, flight>>

\* The mutation takes effect, or fails without one; its answer may be an error in
\* either case.
Settles(c) ==
    /\ write[c].at = "accepted" /\ Settled(write[c].deps)
    /\ \/ /\ entry' = [k \in Key |-> IF k \in write[c].scope
                                     THEN [version |-> write[c].version, stale |-> FALSE]
                                     ELSE entry[k]]
          /\ write' = [write EXCEPT ![c].at = "applied", ![c].deps = {}]
          /\ flush' = [flush EXCEPT !.dirty = @ \cup {c}]
       \/ /\ write' = [write EXCEPT ![c].at = "void", ![c].deps = {}]
          /\ UNCHANGED <<entry, flush>>
    /\ Cleaned(c)
    /\ Resumes(c)
    /\ UNCHANGED <<source, revision, state, stop, faults>>

\* The timer of runBackend: the caller goes on, so does the mutation.
TimesOut(c) ==
    /\ call[c].at \in {"mutating", "saving"}
    /\ Resumes(c)
    /\ UNCHANGED <<store, ending>>

TurnsStale(k) ==
    /\ IsFresh(entry[k])
    /\ entry' = [entry EXCEPT ![k].stale = TRUE]
    /\ UNCHANGED <<source, revision, tails, write, call, flight, ending>>

\* It has expired, or other entries need its place.
Leaves(k) ==
    /\ entry[k] # Miss
    /\ entry' = [entry EXCEPT ![k] = Miss]
    /\ UNCHANGED <<source, revision, tails, write, call, flight, ending>>

--------------------------------------------------------------------------------
(* flush and shutdown.                                                     *)

\* The physical work in progress at the backend.
Raw == Unsettled \cup ({flush.work} \ {NoCall})

RawSettled(D) == D \cap Raw = {}

Flushed(c) == [Over("flushed") EXCEPT !.before = c.before]

\* executeBackendFlush: whoever comes while one is in progress shares it.
FlushStarts(c, rev) ==
    flush' = IF flush.work # NoCall THEN flush
             ELSE [flush EXCEPT !.work = c, !.rev = rev, !.covers = flush.dirty]

FlushCalled(c) ==
    /\ At(c, "idle") /\ state = "running"
    /\ call' = [call EXCEPT ![c].at = "barrier", ![c].deps = Pending, ![c].before = Accepted]
    /\ UNCHANGED <<store, flight, ending>>

BarrierPassed(c) ==
    /\ At(c, "barrier") /\ call[c].deps \cap Pending = {}
    /\ call' = [call EXCEPT ![c].at = "settling", ![c].deps = Raw, ![c].seen = revision.all]
    /\ UNCHANGED <<store, flight, ending>>

BackendSettled(c) ==
    /\ At(c, "settling") /\ RawSettled(call[c].deps)
    /\ IF flush.covered < call[c].seen
       THEN call' = [call EXCEPT ![c].at = "flushing"] /\ FlushStarts(c, call[c].seen)
       ELSE call' = [call EXCEPT ![c] = Flushed(@)] /\ UNCHANGED flush
    /\ UNCHANGED <<store, flight, state, stop, faults>>

Higher(x, y) == IF x > y THEN x ELSE y

\* Mutant: what was mutated during the flush counts as flushed.
CoveredNow == revision.all

Covered == Higher(flush.covered, flush.rev)

\* flushWork settles; so do the calls that share it.
FlushSettles(ok) ==
    /\ flush.work # NoCall
    /\ call' = [c \in Calls |-> IF ~At(c, "flushing") THEN call[c]
                                ELSE IF ok THEN Flushed(call[c]) ELSE Over("done")]
    /\ flush' = [work |-> NoCall, rev |-> 0, covers |-> {},
                 covered |-> IF ok THEN Covered ELSE flush.covered,
                 dirty |-> IF ok THEN flush.dirty \ flush.covers ELSE flush.dirty]
    /\ stop' = IF stop.at # "flushing" THEN stop
               ELSE [at |-> IF ok THEN "closing" ELSE "none", deps |-> {}]
    /\ faults' = IF ok THEN faults ELSE faults + 1
    /\ faults' <= MaxFaults
    /\ UNCHANGED <<store, flight, state>>

\* createShutdownWork: admission closes at once.
ShutdownCalled ==
    /\ state # "closed" /\ stop.at = "none"
    /\ state' = "draining"
    /\ stop' = [at |-> "draining", deps |-> Pending]
    /\ UNCHANGED <<store, call, flight, flush, faults>>

Drained ==
    /\ stop.at = "draining" /\ stop.deps \cap Pending = {}
    /\ stop' = [at |-> "requests", deps |-> Requests]
    /\ UNCHANGED <<store, call, flight, state, flush, faults>>

RequestsSettled ==
    /\ stop.at = "requests" /\ stop.deps \cap Requests = {}
    /\ stop' = [at |-> "settling", deps |-> Raw]
    /\ UNCHANGED <<store, call, flight, state, flush, faults>>

StopSettled == RawSettled(stop.deps)

LastFlush ==
    /\ stop.at = "settling" /\ StopSettled
    /\ IF flush.covered < revision.all
       THEN stop' = [at |-> "flushing", deps |-> {}] /\ FlushStarts(Shutdown, revision.all)
       ELSE stop' = [at |-> "closing", deps |-> {}] /\ UNCHANGED flush
    /\ UNCHANGED <<store, call, flight, state, faults>>

\* backend.shutdown.
Closes ==
    /\ stop.at = "closing"
    /\ \/ state' = "closed" /\ UNCHANGED faults
       \/ faults < MaxFaults /\ faults' = faults + 1 /\ UNCHANGED state
    /\ stop' = [at |-> "none", deps |-> {}]
    /\ UNCHANGED <<store, call, flight, flush>>

--------------------------------------------------------------------------------
Init ==
    /\ source = 0
    /\ entry \in [Key -> {Miss, [version |-> 0, stale |-> FALSE]}]
    /\ revision = [all |-> 0, of |-> [k \in Key |-> 0]]
    /\ tails = [broad |-> NoCall, key |-> [k \in Key |-> NoCall]]
    /\ call = [c \in Calls |-> FreshCall]
    /\ write = [c \in Calls |-> NoWrite]
    /\ flight = [k \in Key |-> NoCall]
    /\ state = "running"
    /\ stop = [at |-> "none", deps |-> {}]
    /\ flush = [work |-> NoCall, rev |-> 0, covers |-> {}, covered |-> -1, dirty |-> {}]
    /\ faults = 0

Method(c) ==
    \/ \E k \in Key : Get(c, k) \/ Load(c, k) \/ Set(c, k) \/ Delete(c, k)
    \/ Invalidate(c) \/ FlushCalled(c)

LoadStep(c) ==
    \/ LookupReturns(c) \/ LookupFails(c) \/ RecheckReturns(c) \/ RecheckFails(c)
    \/ LoaderReads(c) \/ LoaderReturns(c) \/ LoaderFails(c)
    \/ RereadReturns(c) \/ RereadFails(c)

BackendStep ==
    \/ \E c \in Calls : Read(c) \/ Settles(c) \/ TimesOut(c)
    \/ \E k \in Key : TurnsStale(k) \/ Leaves(k)
    \/ \E ok \in BOOLEAN : FlushSettles(ok)

FinalizationStep ==
    \/ \E c \in Calls : BarrierPassed(c) \/ BackendSettled(c)
    \/ ShutdownCalled \/ Drained \/ RequestsSettled \/ LastFlush \/ Closes

Next ==
    \/ \E c \in Calls : Method(c) \/ GetReturns(c) \/ GetFails(c) \/ LoadStep(c)
    \/ BackendStep
    \/ FinalizationStep

Spec == Init /\ [][Next]_vars

--------------------------------------------------------------------------------
(* Properties.                                                             *)

\* Every variable stays in its type.
TypeOK ==
    /\ source \in Nat
    /\ entry \in [Key -> Entry]
    /\ revision \in [all : Nat, of : [Key -> Nat]]
    /\ tails \in [broad : Calls \cup {NoCall}, key : [Key -> Calls \cup {NoCall}]]
    /\ flight \in [Key -> Calls \cup {NoCall}]
    /\ state \in {"running", "draining", "closed"}
    /\ faults \in 0 .. MaxFaults

\* Mutations of a key that took effect.
Effective(k) == {m \in Accepted : write[m].at = "applied" /\ k \in write[m].scope}

\* No entry is older than a mutation of its key that has taken effect: neither a load
\* that began before it, nor an earlier mutation whose caller gave up on it, brings back
\* what it replaced.
NoResurrection ==
    \A k \in Key : entry[k] # Miss =>
        \A m \in Effective(k) : entry[k].version >= write[m].floor

\* A get or a load sees the mutations accepted before it, although these may be at work
\* or have timed out; a load that joins a flight sees those accepted before both it and
\* the load whose flight it is.
Sees(c) ==
    IF call[c].of # NoCall THEN call[c].before \cap call[call[c].of].before
    ELSE call[c].before

ReadsSeeAccepted ==
    \A c \in Calls : call[c].result # None =>
        \A m \in Sees(c) \cap Effective(KeyOf(c)) : call[c].result >= write[m].floor

\* A fallback served when the source fails is not older than any mutation of its key
\* that took effect or is under way, except one that was accepted and settled while the
\* look at the cache that the fallback comes from was under way: its revision is read
\* only when the answer has arrived.
Overlapping(c) ==
    call[c].missed \cup (IF At(c, "reread") THEN Missed(c) ELSE {})

UnderWay(k) == {m \in Accepted \cap Unsettled : k \in write[m].scope}

FallbackIsSafe ==
    [][\A c \in Calls : call'[c].fallback /\ ~call[c].fallback =>
         LET k == KeyOf(c)
             owner == IF call[c].of = NoCall THEN c ELSE call[c].of
         IN \A m \in UnderWay(k) \cup (Effective(k) \ (Overlapping(c) \cup Overlapping(owner))) :
              call'[c].result >= write[m].floor]_vars

\* When the runtime has closed nothing is at work, and everything its mutations changed
\* was flushed before the backend was shut down, mutations that had timed out included.
ClosedAfterFlush ==
    state = "closed" => Pending = {} /\ Raw = {} /\ flush.dirty = {}
================================================================================
