----------------------- MODULE ResilienceRuntime_proofs ------------------------
(***************************************************************************)
(* Theorems about ResilienceRuntime, for every number of calls, every      *)
(* policy and every limit.                                                 *)
(***************************************************************************)
EXTENDS ResilienceRuntime, FiniteSetTheorems, SequenceTheorems, TLAPS

--------------------------------------------------------------------------------
(***************************************************************************)
(* The steps of ResilienceRuntime's calls, one by one: what is known of a  *)
(* call (Sound), of the queue and of the permits in use survives each of   *)
(* them, and each tells the breaker one of five things.                    *)
(***************************************************************************)

\* What a call c may own, given the work w of the application for it.
Sound(c, w) ==
    /\ c \in Call /\ w \in {"none", "primary", "fallback"}
    /\ c.holds => c.at \in {"granted", "attempt", "delay", "fallback", "done"}
    /\ c.at \in {"granted", "attempt", "delay"} => c.holds
    /\ w # "none" => c.at \in {"attempt", "fallback", "done"}
    /\ w = "primary" => c.holds /\ c.at # "fallback"
    /\ w = "fallback" => c.at # "attempt"
    /\ c.at \in {"idle", "done"} => c.abort = "none"
    /\ c.at \in {"idle", "starting", "queued", "granted"} => c.attempts = 0
    /\ c.at = "delay" => c.attempts < MaxAttempts
    /\ c.at = "following" => c.of \in Op
    /\ c.outcome = "ok" => c.at = "done"
    /\ c.at \in {"idle", "starting", "following", "fallback"} => c.generation = NoGeneration

\* Only its work keeps the permit of a call that is over.
CallsSound ==
    /\ call \in [Op -> Call]
    /\ work \in [Op -> {"none", "primary", "fallback"}]
    /\ \A o \in Op : Sound(call[o], work[o])
    /\ \A o \in Op : At(o, "done") /\ call[o].holds => work[o] # "none"

\* The queue holds the waiters that have not been aborted, once each.
QueueSound ==
    /\ queue \in Seq(Op) /\ Len(queue) <= MaxQueue
    /\ \A i, j \in 1 .. Len(queue) : queue[i] = queue[j] => i = j
    /\ \A i \in 1 .. Len(queue) : At(queue[i], "queued") /\ call[queue[i]].abort = "none"
    /\ \A o \in Op : At(o, "queued") /\ call[o].abort = "none" => Waits(o)

PermitsSound ==
    /\ permits \in Nat \ {0}
    /\ active = Cardinality(Holders) /\ active <= permits
    /\ queue # <<>> => active = permits

BulkheadInv == CallsSound /\ QueueSound /\ PermitsSound

--------------------------------------------------------------------------------
(* Sets of calls and the queue.                                            *)

\* Sets of calls can be counted.
LEMMA CallSets ==
  ASSUME NEW S \in SUBSET Op
  PROVE  IsFiniteSet(S) /\ Cardinality(S) \in Nat
  BY ResilienceConstants, FS_Subset, FS_CardinalityType

\* The first waiter and the others.
LEMMA FirstWaiter ==
  ASSUME QueueSound, queue # <<>>
  PROVE  /\ 1 \in 1 .. Len(queue) /\ Head(queue) = queue[1] /\ Head(queue) \in Op
         /\ Tail(queue) \in Seq(Op) /\ Len(Tail(queue)) = Len(queue) - 1
         /\ \A i \in 1 .. Len(Tail(queue)) :
              i + 1 \in 1 .. Len(queue) /\ Tail(queue)[i] = queue[i + 1]
<1>1. queue \in Seq(Op) /\ Len(queue) \in Nat \ {0}
  BY EmptySeq DEF QueueSound
<1>2. /\ Head(queue) \in Op /\ Tail(queue) \in Seq(Op)
      /\ Len(Tail(queue)) = Len(queue) - 1
      /\ \A i \in 1 .. Len(Tail(queue)) : Tail(queue)[i] = queue[i + 1]
  BY <1>1, HeadTailProperties
<1>3. Head(queue) = queue[1]
  BY <1>1
<1> QED BY <1>1, <1>2, <1>3

\* A call that owns a permit is not in the queue, nor is one that is elsewhere or aborted.
LEMMA NotWaiting ==
  ASSUME BulkheadInv, NEW o \in Op, ~At(o, "queued") \/ call[o].abort # "none"
  PROVE  \A i \in 1 .. Len(queue) : queue[i] # o
  BY DEF BulkheadInv, QueueSound, At

--------------------------------------------------------------------------------
(* A call becomes another.                                                 *)

\* The other calls keep what the breaker and the coalesced operation ask of them.
Rest(o) ==
    \A p \in Op \ {o} :
        /\ call'[p].generation = call[p].generation /\ call'[p].outcome = call[p].outcome
        /\ call'[p].abort = call[p].abort /\ call'[p].of = call[p].of
        /\ work'[p] = work[p]
        /\ \/ call'[p].at = call[p].at
           \/ call[p].at = "queued" /\ call'[p].at = "granted"

Altered(o, c, w) ==
    /\ call'[o].at = c.at /\ call'[o].outcome = c.outcome
    /\ call'[o].generation = c.generation /\ call'[o].abort = c.abort
    /\ work' = [work EXCEPT ![o] = w]
    /\ Rest(o)

\* The permit that is passed on is counted once.
LEMMA PassKeeps ==
  ASSUME BulkheadInv, NEW o \in Op, NEW c, NEW w,
         Sound(c, w), c.at \in {"done", "fallback"}, w # "primary", call[o].holds,
         Works(o, w), PassPermit(o, c), permits' = permits
  PROVE  BulkheadInv' /\ Altered(o, c, w)
<1> DEFINE g == [c EXCEPT !.holds = FALSE]
           given == [call EXCEPT ![o] = g]
<1>1. /\ call \in [Op -> Call] /\ c \in Call /\ g \in Call
      /\ g.at = c.at /\ g.outcome = c.outcome /\ g.generation = c.generation
      /\ g.abort = c.abort /\ g.of = c.of /\ g.attempts = c.attempts /\ ~g.holds
  BY DEF BulkheadInv, CallsSound, Sound, Call
<1>2. Sound(g, w) /\ work' = [work EXCEPT ![o] = w]
  BY <1>1 DEF Sound, Works
<1> HIDE DEF g
<1>3. \A i \in 1 .. Len(queue) : queue[i] # o
  <2>1. call[o].at # "queued"
    BY DEF BulkheadInv, CallsSound, Sound
  <2> QED BY <2>1, NotWaiting DEF At
<1>4. CASE queue = <<>>
  <2>1. call' = given /\ active' = active - 1 /\ queue' = queue
    BY <1>4 DEF PassPermit, g
  <2>2. CallsSound'
    <3>1. call' \in [Op -> Call] /\ call'[o] = g /\ \A p \in Op \ {o} : call'[p] = call[p]
      BY <1>1, <2>1
    <3>2. work' \in [Op -> {"none", "primary", "fallback"}] /\ work'[o] = w
          /\ \A p \in Op \ {o} : work'[p] = work[p]
      BY <1>2 DEF BulkheadInv, CallsSound, Sound
    <3>3. ASSUME NEW p \in Op PROVE Sound(call'[p], work'[p])
      <4>1. Sound(call[p], work[p])
        BY DEF BulkheadInv, CallsSound
      <4> QED BY <1>2, <3>1, <3>2, <4>1
    <3>4. ASSUME NEW p \in Op, call'[p].at = "done", call'[p].holds PROVE work'[p] # "none"
      <4>1. call[p].at = "done" /\ call[p].holds => work[p] # "none"
        BY DEF BulkheadInv, CallsSound, At
      <4> QED BY <1>1, <3>1, <3>2, <3>4, <4>1
    <3> QED BY <3>1, <3>2, <3>3, <3>4 DEF CallsSound, At
  <2>3. QueueSound'
    BY <1>1, <1>3, <1>4, <2>1 DEF BulkheadInv, QueueSound, At, Waits
  <2>4. Holders' = Holders \ {o} /\ o \in Holders
    BY <1>1, <2>1 DEF Holders
  <2>5. PermitsSound'
    <3>1. IsFiniteSet(Holders) /\ Cardinality(Holders) \in Nat
      BY CallSets DEF Holders
    <3>2. Cardinality(Holders') = Cardinality(Holders) - 1
      BY <2>4, <3>1, FS_RemoveElement
    <3>3. /\ permits \in Nat \ {0} /\ active = Cardinality(Holders) /\ active <= permits
          /\ queue' = <<>>
      BY <1>4, <2>1 DEF BulkheadInv, PermitsSound
    <3>4. permits' \in Nat \ {0} /\ active' = Cardinality(Holders') /\ active' <= permits'
      BY <2>1, <3>1, <3>2, <3>3
    <3> QED BY <3>3, <3>4 DEF PermitsSound, Holders
  <2>6. Altered(o, c, w)
    BY <1>1, <1>2, <2>1 DEF Altered, Rest, BulkheadInv, CallsSound
  <2> QED BY <2>2, <2>3, <2>5, <2>6 DEF BulkheadInv
<1>5. CASE queue # <<>>
  <2> DEFINE h == Head(queue)
  <2>1. /\ call' = [given EXCEPT ![h].at = "granted", ![h].holds = TRUE]
        /\ queue' = Tail(queue) /\ active' = active
    BY <1>5 DEF PassPermit, g
  <2>2. /\ h \in Op /\ h # o /\ At(h, "queued") /\ call[h].abort = "none"
        /\ ~call[h].holds /\ call[h].attempts = 0 /\ work[h] = "none"
        /\ call[h].outcome # "ok"
    BY <1>3, <1>5, FirstWaiter DEF BulkheadInv, QueueSound, CallsSound, Sound, At
  <2> HIDE DEF h
  <2>3. /\ call' \in [Op -> Call] /\ call'[o] = g
        /\ call'[h] = [call[h] EXCEPT !.at = "granted", !.holds = TRUE]
        /\ \A p \in Op \ {o, h} : call'[p] = call[p]
    <3>1. given \in [Op -> Call] /\ given[o] = g /\ given[h] = call[h]
      BY <1>1, <2>2
    <3>2. call' = [given EXCEPT ![h] = [given[h] EXCEPT !.at = "granted", !.holds = TRUE]]
      BY <2>1, <3>1, <2>2
    <3>3. [given[h] EXCEPT !.at = "granted", !.holds = TRUE] \in Call
      <4>1. call[h] \in Call /\ "granted" \in Phase
        BY <1>1, <2>2 DEF Phase
      <4>2. [call[h] EXCEPT !.at = "granted", !.holds = TRUE] \in Call
        BY <4>1 DEF Call
      <4> QED BY <3>1, <4>2
    <3> QED BY <1>1, <2>2, <3>1, <3>2, <3>3
  <2>4. /\ call[h] \in Call
        /\ call'[h].at = "granted" /\ call'[h].holds /\ call'[h].abort = "none"
        /\ call'[h].attempts = 0 /\ call'[h].of = call[h].of
        /\ call'[h].generation = call[h].generation /\ call'[h].outcome = call[h].outcome
    BY <1>1, <2>2, <2>3 DEF Call
  <2>5. CallsSound'
    <3>1. work' \in [Op -> {"none", "primary", "fallback"}] /\ work'[o] = w
          /\ \A p \in Op \ {o} : work'[p] = work[p]
      BY <1>2 DEF BulkheadInv, CallsSound, Sound
    <3>2. Sound(call'[o], work'[o]) /\ Sound(call'[h], work'[h])
      BY <1>2, <2>2, <2>3, <2>4, <3>1 DEF Sound
    <3>3. ASSUME NEW p \in Op \ {o, h} PROVE Sound(call'[p], work'[p])
      BY <2>3, <3>1 DEF BulkheadInv, CallsSound
    <3>4. ASSUME NEW p \in Op, call'[p].at = "done", call'[p].holds PROVE work'[p] # "none"
      <4>1. call[p].at = "done" /\ call[p].holds => work[p] # "none"
        BY DEF BulkheadInv, CallsSound, At
      <4>2. p \notin {o, h}
        BY <1>1, <2>3, <2>4, <3>4
      <4> QED BY <2>3, <3>1, <3>4, <4>1, <4>2
    <3> QED BY <2>3, <3>1, <3>2, <3>3, <3>4 DEF CallsSound, At
  <2>6. QueueSound'
    <3>1. /\ queue' \in Seq(Op) /\ Len(queue') = Len(queue) - 1 /\ Len(queue') \in Nat
          /\ queue[1] = h /\ 1 \in 1 .. Len(queue)
          /\ \A i \in 1 .. Len(queue') : i + 1 \in 1 .. Len(queue) /\ queue'[i] = queue[i + 1]
      BY <1>5, <2>1, FirstWaiter, LenProperties DEF BulkheadInv, h
    <3>2. \A i, j \in 1 .. Len(queue) : queue[i] = queue[j] => i = j
      BY DEF BulkheadInv, QueueSound
    <3>3. Len(queue) \in Nat /\ MaxQueue \in Nat /\ Len(queue) <= MaxQueue
      BY LenProperties, ResilienceConstants DEF BulkheadInv, QueueSound
    <3>4. ASSUME NEW i \in 1 .. Len(queue'), NEW j \in 1 .. Len(queue'),
                 queue'[i] = queue'[j]
          PROVE  i = j
      <4>1. /\ i + 1 \in 1 .. Len(queue) /\ queue'[i] = queue[i + 1]
            /\ j + 1 \in 1 .. Len(queue) /\ queue'[j] = queue[j + 1]
        BY <3>1
      <4>2. i + 1 = j + 1
        BY <3>2, <3>4, <4>1
      <4> QED BY <4>2
    <3>5. ASSUME NEW i \in 1 .. Len(queue')
          PROVE  call'[queue'[i]].at = "queued" /\ call'[queue'[i]].abort = "none"
      <4>1. queue'[i] \in Op \ {o, h}
        <5>1. queue'[i] = queue[i + 1] /\ i + 1 \in 1 .. Len(queue) /\ i \in Nat /\ i + 1 # 1
          BY <3>1, <3>3
        <5>2. queue[i + 1] # h
          BY <3>1, <3>2, <5>1
        <5>3. queue[i + 1] \in Op
          BY <5>1, ElementOfSeq DEF BulkheadInv, QueueSound
        <5> QED BY <1>3, <5>1, <5>2, <5>3
      <4> QED BY <2>3, <3>1, <4>1 DEF BulkheadInv, QueueSound, At
    <3>6. ASSUME NEW p \in Op, call'[p].at = "queued", call'[p].abort = "none"
          PROVE  \E i \in 1 .. Len(queue') : queue'[i] = p
      <4>1. p \notin {o, h}
        BY <1>1, <2>3, <2>4, <3>6
      <4>2. PICK i \in 1 .. Len(queue) : queue[i] = p
        <5>1. call[p].at = "queued" /\ call[p].abort = "none"
          BY <2>3, <3>6, <4>1
        <5> QED BY <5>1 DEF BulkheadInv, QueueSound, At, Waits
      <4>3. i # 1 /\ i - 1 \in 1 .. Len(queue') /\ (i - 1) + 1 = i
        BY <3>1, <3>3, <4>1, <4>2
      <4> QED BY <3>1, <4>2, <4>3
    <3>7. queue' \in Seq(Op) /\ Len(queue') <= MaxQueue
      BY <3>1, <3>3
    <3> QED BY <3>4, <3>5, <3>6, <3>7 DEF QueueSound, At, Waits
  <2>7. PermitsSound'
    <3>1. Holders' = (Holders \ {o}) \cup {h} /\ o \in Holders /\ h \notin Holders
      <4>1. o \in Holders /\ h \notin Holders /\ Holders \subseteq Op
        BY <2>2 DEF Holders
      <4>2. ASSUME NEW p \in Op PROVE call'[p].holds <=> p \in (Holders \ {o}) \cup {h}
        <5>1. CASE p = o
          BY <1>1, <2>2, <2>3, <5>1
        <5>2. CASE p = h
          BY <2>4, <5>2
        <5>3. CASE p \notin {o, h}
          BY <2>3, <5>3 DEF Holders
        <5> QED BY <5>1, <5>2, <5>3
      <4> QED BY <2>2, <4>1, <4>2 DEF Holders
    <3>2. IsFiniteSet(Holders) /\ Cardinality(Holders) \in Nat
      BY CallSets DEF Holders
    <3>3. /\ IsFiniteSet(Holders \ {o})
          /\ Cardinality(Holders \ {o}) = Cardinality(Holders) - 1
      BY <3>1, <3>2, FS_RemoveElement
    <3>4. Cardinality(Holders') = Cardinality(Holders \ {o}) + 1
      BY <3>1, <3>3, FS_AddElement, <2>2
    <3>5. /\ permits \in Nat \ {0} /\ active = Cardinality(Holders) /\ active <= permits
          /\ active = permits
      BY <1>5 DEF BulkheadInv, PermitsSound
    <3>6. /\ permits' \in Nat \ {0} /\ active' = Cardinality(Holders') /\ active' <= permits'
          /\ active' = permits'
      BY <2>1, <3>2, <3>3, <3>4, <3>5
    <3> QED BY <3>6 DEF PermitsSound, Holders
  <2>8. Altered(o, c, w)
    <3>1. \A p \in Op \ {o} : work'[p] = work[p]
      BY <1>2 DEF BulkheadInv, CallsSound
    <3>2. call[h].at = "queued"
      BY <2>2 DEF At
    <3>3. Rest(o)
      <4>1. ASSUME NEW p \in Op \ {o}
            PROVE  /\ call'[p].generation = call[p].generation
                   /\ call'[p].outcome = call[p].outcome
                   /\ call'[p].abort = call[p].abort /\ call'[p].of = call[p].of
                   /\ \/ call'[p].at = call[p].at
                      \/ call[p].at = "queued" /\ call'[p].at = "granted"
        <5>1. CASE p = h
          BY <2>2, <2>4, <3>2, <5>1
        <5>2. CASE p # h
          BY <2>3, <5>2
        <5> QED BY <5>1, <5>2
      <4> QED BY <3>1, <4>1 DEF Rest
    <3> QED BY <1>1, <1>2, <2>3, <3>3 DEF Altered
  <2> QED BY <2>5, <2>6, <2>7, <2>8 DEF BulkheadInv
<1> QED BY <1>4, <1>5

\* A call becomes c, with w at work for it, and the other calls stay as they are.
Replaced(o, c, w) ==
    /\ call' = [call EXCEPT ![o] = c]
    /\ work' = [work EXCEPT ![o] = w]

\* What is known of every call survives the change of one, if it holds of what that becomes.
LEMMA ReplacedCalls ==
  ASSUME CallsSound, NEW o \in Op, NEW c, NEW w, Sound(c, w),
         c.at = "done" /\ c.holds => w # "none", Replaced(o, c, w)
  PROVE  /\ CallsSound' /\ Altered(o, c, w)
         /\ call'[o] = c /\ work'[o] = w
         /\ \A p \in Op \ {o} : call'[p] = call[p] /\ work'[p] = work[p]
<1>1. /\ call' \in [Op -> Call] /\ call'[o] = c
      /\ work' \in [Op -> {"none", "primary", "fallback"}] /\ work'[o] = w
      /\ \A p \in Op \ {o} : call'[p] = call[p] /\ work'[p] = work[p]
  BY DEF CallsSound, Sound, Replaced
<1>2. ASSUME NEW p \in Op PROVE Sound(call'[p], work'[p])
  BY <1>1 DEF CallsSound
<1>3. ASSUME NEW p \in Op, call'[p].at = "done", call'[p].holds PROVE work'[p] # "none"
  BY <1>1, <1>3 DEF CallsSound, At
<1> QED BY <1>1, <1>2, <1>3 DEF CallsSound, At, Altered, Rest, Replaced

\* A call that keeps what it owns, and does not wait, disturbs neither queue nor permits.
LEMMA ReplacedKeeps ==
  ASSUME BulkheadInv, NEW o \in Op, NEW c, NEW w, Sound(c, w),
         c.at = "done" /\ c.holds => w # "none", Replaced(o, c, w),
         c.holds = call[o].holds,
         ~At(o, "queued") \/ call[o].abort # "none", c.at # "queued" \/ c.abort # "none",
         UNCHANGED <<queue, active, permits>>
  PROVE  BulkheadInv' /\ Altered(o, c, w)
<1>1. /\ CallsSound' /\ Altered(o, c, w) /\ call'[o] = c
      /\ \A p \in Op \ {o} : call'[p] = call[p]
  BY ReplacedCalls DEF BulkheadInv
<1>2. QueueSound'
  <2>1. \A i \in 1 .. Len(queue) : queue[i] \in Op \ {o}
    BY NotWaiting, ElementOfSeq DEF BulkheadInv, QueueSound
  <2>2. /\ queue \in Seq(Op) /\ Len(queue) <= MaxQueue
        /\ \A i, j \in 1 .. Len(queue) : queue[i] = queue[j] => i = j
    BY DEF BulkheadInv, QueueSound
  <2>3. \A i \in 1 .. Len(queue) :
          call'[queue[i]].at = "queued" /\ call'[queue[i]].abort = "none"
    BY <1>1, <2>1 DEF BulkheadInv, QueueSound, At
  <2>4. ASSUME NEW p \in Op, call'[p].at = "queued", call'[p].abort = "none"
        PROVE  \E i \in 1 .. Len(queue) : queue[i] = p
    BY <1>1, <2>4 DEF BulkheadInv, QueueSound, At, Waits
  <2> QED BY <2>2, <2>3, <2>4 DEF QueueSound, At, Waits
<1>3. PermitsSound'
  <2>1. \A p \in Op : call'[p].holds = call[p].holds
    BY <1>1
  <2>2. Holders' = Holders
    BY <2>1 DEF Holders
  <2>3. /\ permits' = permits /\ active' = active /\ queue' = queue
        /\ permits \in Nat \ {0} /\ active = Cardinality(Holders) /\ active <= permits
        /\ (queue # <<>> => active = permits)
    BY DEF BulkheadInv, PermitsSound
  <2> QED BY <2>2, <2>3 DEF PermitsSound
<1> QED BY <1>1, <1>2, <1>3 DEF BulkheadInv

\* What holds of every call that goes on as c: its permit stays, or is passed on.
LEMMA BecomesKeeps ==
  ASSUME BulkheadInv, NEW o \in Op, NEW c, NEW w, Sound(c, w),
         c.holds = call[o].holds,
         ~At(o, "queued") \/ call[o].abort # "none", c.at # "queued" \/ c.abort # "none",
         Works(o, w), Becomes(o, c), permits' = permits
  PROVE  BulkheadInv' /\ Altered(o, c, w)
<1>1. work' = [work EXCEPT ![o] = w] /\ work'[o] = w
  BY DEF Works, BulkheadInv, CallsSound
<1>2. CASE c.holds /\ c.at = "done" /\ w = "none"
  <2>1. PassPermit(o, c)
    BY <1>1, <1>2 DEF Becomes, StillAtWork
  <2>2. c.at \in {"done", "fallback"} /\ w # "primary" /\ call[o].holds
    BY <1>2
  <2> QED BY <2>1, <2>2, PassKeeps
<1>3. CASE ~(c.holds /\ c.at = "done" /\ w = "none")
  <2>1. Replaced(o, c, w) /\ UNCHANGED <<queue, active, permits>>
    BY <1>1, <1>3 DEF Becomes, StillAtWork, Replaced
  <2>2. c.at = "done" /\ c.holds => w # "none"
    BY <1>3
  <2> QED BY <2>1, <2>2, ReplacedKeeps
<1> QED BY <1>2, <1>3

--------------------------------------------------------------------------------
(* The breaker, the coalesced operation, and what a step does to them.     *)

Breaker ==
    [state : {"closed", "open", "half-open"}, generation : Nat,
     inFlight : 0 .. HalfOpenMax, successes : 0 .. HalfOpenMax,
     failures : 0 .. FailureCount, cooled : BOOLEAN]

\* A keyed call on its way, or whose work goes on, owns the coalesced operation.
Owning == {"starting", "queued", "granted", "attempt", "delay", "fallback"}
Owns(o) == call[o].at \in Owning \/ work[o] # "none"
OwnersSound ==
    /\ entry \in Keyed \cup {NoOp}
    /\ \A o \in Keyed : Owns(o) => entry = o

\* The breaker without the admission the call may still have.
Without(o) == SlotReturned(breaker, call[o].generation)

\* What a step of o tells the breaker: nothing, a success, a failure, that its slot is
\* free (and the breaker may have been found half-open), or that it is admitted anew.
Silent(o) ==
    /\ breaker' = breaker /\ call'[o].generation = call[o].generation
    /\ call'[o].outcome = "ok" =>
         call[o].outcome = "ok" \/ call[o].generation = NoGeneration
    /\ call[o].outcome = "ok" => call'[o].outcome = "ok"

ReportsSuccess(o) ==
    /\ Records(o, FALSE) /\ call'[o].generation = call[o].generation
    /\ call[o].outcome # "ok" /\ call'[o].outcome = "ok"

ReportsFailure(o) ==
    /\ Records(o, TRUE) /\ call'[o].generation = NoGeneration
    /\ call[o].outcome # "ok" /\ call'[o].outcome # "ok"

Resigns(o) ==
    /\ breaker' \in {Without(o), Probing(Without(o))}
    /\ call[o].outcome # "ok"
    /\ call'[o].generation = NoGeneration /\ call'[o].outcome # "ok"

Enters(o) ==
    /\ Admits(Without(o)) /\ breaker' = AfterAdmission(Without(o))
    /\ call[o].outcome # "ok"
    /\ call'[o].generation = Probing(Without(o)).generation /\ call'[o].outcome # "ok"
    /\ call[o].abort = "none" /\ call'[o].at \notin {"idle", "done"}

Tells(o) == Silent(o) \/ ReportsSuccess(o) \/ ReportsFailure(o) \/ Resigns(o) \/ Enters(o)

\* A call that is over stays so, and an aborted one goes nowhere but to its end.
Heeds(o) ==
    /\ call[o].at = "done" => Silent(o) /\ call'[o].at = "done"
    /\ call[o].abort # "none" => call'[o].at = "done" \/ call'[o].abort # "none"

--------------------------------------------------------------------------------
(* The forms a call takes.                                                 *)

\* A call that has settled, its work going on or not.
LEMMA DoneForm ==
  ASSUME NEW c \in Call, NEW out \in Outcome, NEW w \in {"none", "primary", "fallback"},
         w = "primary" => c.holds
  PROVE  /\ Sound(Done(c, out), w)
         /\ Done(c, out).at = "done" /\ Done(c, out).holds = c.holds
         /\ Done(c, out).generation = c.generation /\ Done(c, out).outcome = out
<1> DEFINE d == Done(c, out)
<1>1. /\ d \in Call /\ d.at = "done" /\ d.abort = "none" /\ d.holds = c.holds
      /\ d.generation = c.generation /\ d.outcome = out
  <2>1. "done" \in Phase /\ 0 \in 0 .. MaxAttempts /\ NoOp \in Op \cup {NoOp}
    BY ResilienceConstants DEF Phase
  <2> DEFINE d1 == [c EXCEPT !.at = "done", !.outcome = out]
             d2 == [d1 EXCEPT !.abort = "none", !.attempts = 0]
  <2>2. d = [d2 EXCEPT !.of = NoOp]
    BY DEF Done
  <2>3. /\ d1 \in Call /\ d1.at = "done" /\ d1.outcome = out
        /\ d1.holds = c.holds /\ d1.generation = c.generation
    BY <2>1 DEF Call
  <2> HIDE DEF d1
  <2>4. /\ d2 \in Call /\ d2.at = "done" /\ d2.outcome = out /\ d2.abort = "none"
        /\ d2.holds = c.holds /\ d2.generation = c.generation
    BY <2>1, <2>3 DEF Call
  <2> HIDE DEF d2
  <2> QED BY <2>1, <2>2, <2>4 DEF Call
<1> QED BY <1>1 DEF Sound

\* The breaker has been told: nothing else of the call changes.
LEMMA AccountedForm ==
  ASSUME NEW c \in Call
  PROVE  /\ Accounted(c) \in Call /\ Accounted(c).generation = NoGeneration
         /\ Accounted(c).at = c.at /\ Accounted(c).holds = c.holds
         /\ Accounted(c).abort = c.abort /\ Accounted(c).outcome = c.outcome
         /\ Accounted(c).attempts = c.attempts
  BY DEF Accounted, Call, NoGeneration

\* A call that is degraded.
LEMMA FallbackForm ==
  ASSUME NEW c \in Call, c.outcome # "ok", c.generation = NoGeneration
  PROVE  LET d == [c EXCEPT !.at = "fallback"]
         IN /\ Sound(d, "fallback") /\ d.at = "fallback" /\ d.holds = c.holds
            /\ d.generation = c.generation /\ d.outcome = c.outcome
<1> DEFINE d == [c EXCEPT !.at = "fallback"]
<1>1. /\ d \in Call /\ d.at = "fallback" /\ d.holds = c.holds
      /\ d.generation = c.generation /\ d.outcome = c.outcome
  BY DEF Call, Phase
<1> QED BY <1>1 DEF Sound

\* A call that makes an attempt.
LEMMA AttemptForm ==
  ASSUME NEW c \in Call, c.holds, c.outcome # "ok", c.attempts < MaxAttempts
  PROVE  LET d == [c EXCEPT !.at = "attempt", !.attempts = @ + 1]
         IN /\ Sound(d, "primary") /\ d.at = "attempt" /\ d.holds
            /\ d.generation = c.generation /\ d.outcome = c.outcome
<1> DEFINE d == [c EXCEPT !.at = "attempt", !.attempts = @ + 1]
<1>1. c.attempts + 1 \in 0 .. MaxAttempts
  BY ResilienceConstants DEF Call
<1>2. /\ d \in Call /\ d.at = "attempt" /\ d.holds
      /\ d.generation = c.generation /\ d.outcome = c.outcome
  BY <1>1 DEF Call, Phase
<1> QED BY <1>2 DEF Sound

--------------------------------------------------------------------------------
(* Ways on that several actions share.                                     *)

\* What is asked of a call before it goes on as c, outside the queue.
GoesOn(o, c) ==
    /\ c \in Call /\ c.outcome # "ok" /\ c.holds = call[o].holds
    /\ ~At(o, "queued") \/ call[o].abort # "none"

\* A call that fails is degraded or settles, and keeps its permit only while at work.
LEMMA FallsBackKeeps ==
  ASSUME BulkheadInv, NEW o \in Op, NEW c, GoesOn(o, c), c.generation = NoGeneration,
         FallsBack(o, c), permits' = permits
  PROVE  /\ BulkheadInv' /\ Rest(o)
         /\ call'[o].generation = NoGeneration /\ call'[o].outcome # "ok"
<1> USE DEF GoesOn
<1>1. CASE Fallback
  <2> DEFINE d == [c EXCEPT !.at = "fallback"]
  <2>1. /\ Sound(d, "fallback") /\ d.at = "fallback" /\ d.holds = c.holds
        /\ d.generation = c.generation /\ d.outcome = c.outcome
    BY FallbackForm
  <2>2. Works(o, "fallback") /\ Becomes(o, d)
    BY <1>1 DEF FallsBack
  <2> HIDE DEF d
  <2>3. BulkheadInv' /\ Altered(o, d, "fallback")
    BY <2>1, <2>2, BecomesKeeps
  <2> QED BY <2>1, <2>3 DEF Altered
<1>2. CASE ~Fallback
  <2>1. /\ Sound(Failed(c), "none") /\ Failed(c).at = "done" /\ Failed(c).holds = c.holds
        /\ Failed(c).generation = c.generation /\ Failed(c).outcome = "error"
    BY DoneForm DEF Failed, Outcome
  <2>2. Works(o, "none") /\ Becomes(o, Failed(c))
    BY <1>2 DEF FallsBack
  <2>3. BulkheadInv' /\ Altered(o, Failed(c), "none")
    BY <2>1, <2>2, BecomesKeeps
  <2> QED BY <2>1, <2>3 DEF Altered
<1> QED BY <1>1, <1>2

\* A call settles.
LEMMA SettlesKeeps ==
  ASSUME BulkheadInv, NEW o \in Op, NEW c, c \in Call, c.holds = call[o].holds,
         ~At(o, "queued") \/ call[o].abort # "none",
         NEW out \in Outcome, NEW w \in {"none", "primary", "fallback"},
         w = "primary" => c.holds,
         Works(o, w), Becomes(o, Done(c, out)), permits' = permits
  PROVE  /\ BulkheadInv' /\ Rest(o) /\ work' = [work EXCEPT ![o] = w]
         /\ call'[o].generation = c.generation /\ call'[o].outcome = out
         /\ call'[o].at = "done"
<1>1. /\ Sound(Done(c, out), w) /\ Done(c, out).at = "done" /\ Done(c, out).holds = c.holds
      /\ Done(c, out).generation = c.generation /\ Done(c, out).outcome = out
  BY DoneForm
<1>2. BulkheadInv' /\ Altered(o, Done(c, out), w)
  BY <1>1, BecomesKeeps
<1> QED BY <1>1, <1>2 DEF Altered

\* A call with a permit makes an attempt.
LEMMA AttemptsKeeps ==
  ASSUME BulkheadInv, NEW o \in Op, NEW c, GoesOn(o, c), c.holds,
         c.attempts < MaxAttempts, Attempts(o, c), permits' = permits
  PROVE  /\ BulkheadInv' /\ Rest(o) /\ call'[o].at = "attempt"
         /\ call'[o].generation = c.generation /\ call'[o].outcome # "ok"
<1> DEFINE d == [c EXCEPT !.at = "attempt", !.attempts = @ + 1]
<1>1. /\ Sound(d, "primary") /\ d.at = "attempt" /\ d.holds
      /\ d.generation = c.generation /\ d.outcome = c.outcome
  BY AttemptForm DEF GoesOn
<1>2. Works(o, "primary") /\ Becomes(o, d)
  BY DEF Attempts
<1> HIDE DEF d
<1>3. BulkheadInv' /\ Altered(o, d, "primary")
  BY <1>1, <1>2, BecomesKeeps DEF GoesOn
<1> QED BY <1>1, <1>3 DEF Altered, GoesOn

--------------------------------------------------------------------------------
(* The breaker's operations.                                               *)

\* Admission and its cancellation keep the breaker in its type.
LEMMA ProbingKeeps ==
  ASSUME NEW b \in Breaker
  PROVE  /\ Probing(b) \in Breaker
         /\ Admits(b) => AfterAdmission(b) \in Breaker
         /\ \A g \in Int : SlotReturned(b, g) \in Breaker
         /\ SlotReturned(b, NoGeneration) = b
<1> DEFINE p == Probing(b)
<1>1. p \in Breaker
  <2>1. b.generation + 1 \in Nat /\ 0 \in 0 .. HalfOpenMax
    BY ResilienceConstants DEF Breaker
  <2> DEFINE p1 == [b EXCEPT !.state = "half-open"]
             p2 == [p1 EXCEPT !.generation = b.generation + 1]
             p3 == [p2 EXCEPT !.inFlight = 0]
             p4 == [p3 EXCEPT !.successes = 0]
  <2>2. p1 \in Breaker
    BY DEF Breaker
  <2> HIDE DEF p1
  <2>3. p2 \in Breaker
    BY <2>1, <2>2 DEF Breaker
  <2> HIDE DEF p2
  <2>4. p3 \in Breaker
    BY <2>1, <2>3 DEF Breaker
  <2> HIDE DEF p3
  <2>5. p4 \in Breaker
    BY <2>1, <2>4 DEF Breaker
  <2> HIDE DEF p4
  <2>6. [p4 EXCEPT !.cooled = FALSE] \in Breaker
    BY <2>5 DEF Breaker
  <2>7. [b EXCEPT !.state = "half-open", !.generation = @ + 1, !.inFlight = 0,
                  !.successes = 0, !.cooled = FALSE] = [p4 EXCEPT !.cooled = FALSE]
    BY DEF p1, p2, p3, p4, Breaker
  <2> QED BY <2>6, <2>7 DEF Probing
<1>2. ASSUME Admits(b) PROVE AfterAdmission(b) \in Breaker
  <2>1. p.state = "half-open" => p.inFlight + 1 \in 0 .. HalfOpenMax
    BY <1>1, <1>2, ResilienceConstants DEF Admits, Breaker
  <2> HIDE DEF p
  <2>2. p.state = "half-open" => [p EXCEPT !.inFlight = @ + 1] \in Breaker
    BY <1>1, <2>1 DEF Breaker
  <2> QED BY <1>1, <2>2 DEF AfterAdmission, p
<1>3. OneLess(b.inFlight) \in 0 .. HalfOpenMax
  BY ResilienceConstants DEF OneLess, Breaker
<1>4. [b EXCEPT !.inFlight = OneLess(@)] \in Breaker
  BY <1>3 DEF Breaker
<1>5. \A g \in Int : SlotReturned(b, g) \in Breaker
  BY <1>4 DEF SlotReturned
<1>6. SlotReturned(b, NoGeneration) = b
  BY DEF SlotReturned, Breaker, NoGeneration
<1> QED BY <1>1, <1>2, <1>5, <1>6

\* A slot taken and returned at once leaves the breaker as the admission found it.
LEMMA ReturnedAtOnce ==
  ASSUME NEW b \in Breaker, Admits(b)
  PROVE  SlotReturned(AfterAdmission(b), Probing(b).generation) = Probing(b)
<1> DEFINE p == Probing(b)
<1>1. p \in Breaker
  BY ProbingKeeps
<1>2. CASE p.state = "half-open"
  <2>1. AfterAdmission(b) = [p EXCEPT !.inFlight = @ + 1]
    BY <1>2 DEF AfterAdmission
  <2>2. p.inFlight \in Nat /\ p.inFlight + 1 > 0 /\ (p.inFlight + 1) - 1 = p.inFlight
    BY <1>1, ResilienceConstants DEF Breaker
  <2>3. SlotReturned(AfterAdmission(b), p.generation) =
          [[p EXCEPT !.inFlight = @ + 1] EXCEPT !.inFlight = OneLess(@)]
    BY <1>1, <1>2, <2>1 DEF SlotReturned, Breaker
  <2> HIDE DEF p
  <2>4. [[p EXCEPT !.inFlight = @ + 1] EXCEPT !.inFlight = OneLess(@)] = p
    BY <1>1, <2>2 DEF Breaker, OneLess
  <2> QED BY <2>3, <2>4 DEF p
<1>3. CASE p.state # "half-open"
  BY <1>1, <1>3 DEF AfterAdmission, SlotReturned
<1> QED BY <1>2, <1>3

--------------------------------------------------------------------------------
(* Begin: a call takes a permit, or a place in the queue.                  *)

\* A call takes a free permit.
LEMMA GrantKeeps ==
  ASSUME BulkheadInv, NEW o \in Op, NEW c, Sound(c, "primary"), c.at = "attempt",
         ~call[o].holds, ~At(o, "queued"), active < permits,
         Replaced(o, c, "primary"), active' = active + 1, UNCHANGED <<queue, permits>>
  PROVE  BulkheadInv' /\ Altered(o, c, "primary")
<1>1. /\ CallsSound' /\ Altered(o, c, "primary") /\ call'[o] = c
      /\ \A p \in Op \ {o} : call'[p] = call[p]
  BY ReplacedCalls DEF BulkheadInv
<1>2. c.holds /\ active \in Nat /\ permits \in Nat
  BY CallSets DEF Sound, BulkheadInv, PermitsSound, Holders
<1>3. queue = <<>> /\ queue' = <<>>
  BY <1>2 DEF BulkheadInv, PermitsSound
<1>4. QueueSound'
  <2>1. call'[o].at # "queued"
    BY <1>1
  <2>2. \A p \in Op : ~(call'[p].at = "queued" /\ call'[p].abort = "none")
    <3>1. \A p \in Op : ~(call[p].at = "queued" /\ call[p].abort = "none")
      BY <1>3, EmptySeq DEF BulkheadInv, QueueSound, At, Waits
    <3> QED BY <1>1, <2>1, <3>1
  <2> QED BY <1>3, <2>2, EmptySeq, ResilienceConstants DEF QueueSound, At, Waits
<1>5. PermitsSound'
  <2>1. Holders' = Holders \cup {o} /\ o \notin Holders
    <3>1. \A p \in Op : call'[p].holds <=> call[p].holds \/ p = o
      BY <1>1, <1>2
    <3> QED BY <3>1 DEF Holders
  <2>2. IsFiniteSet(Holders) /\ Cardinality(Holders) \in Nat
    BY CallSets DEF Holders
  <2>3. Cardinality(Holders') = Cardinality(Holders) + 1
    BY <2>1, <2>2, FS_AddElement
  <2>4. /\ permits' \in Nat \ {0} /\ active' = Cardinality(Holders') /\ active' <= permits'
    BY <1>2, <2>3 DEF BulkheadInv, PermitsSound
  <2> QED BY <1>3, <2>4 DEF PermitsSound
<1> QED BY <1>1, <1>4, <1>5 DEF BulkheadInv

\* A call joins the queue, all permits being out.
LEMMA EnqueueKeeps ==
  ASSUME BulkheadInv, NEW o \in Op, NEW c, Sound(c, "none"),
         c.at = "queued", c.abort = "none", ~call[o].holds, ~At(o, "queued"),
         active = permits, Len(queue) < MaxQueue,
         Replaced(o, c, "none"), queue' = Append(queue, o), UNCHANGED <<active, permits>>
  PROVE  BulkheadInv' /\ Altered(o, c, "none")
<1>1. /\ CallsSound' /\ Altered(o, c, "none") /\ call'[o] = c
      /\ \A p \in Op \ {o} : call'[p] = call[p]
  BY ReplacedCalls DEF BulkheadInv
<1>2. ~c.holds
  BY DEF Sound
<1>3. /\ queue \in Seq(Op) /\ Len(queue) \in Nat /\ queue' \in Seq(Op)
      /\ Len(queue') = Len(queue) + 1 /\ queue'[Len(queue) + 1] = o
      /\ \A i \in 1 .. Len(queue) : queue'[i] = queue[i]
  BY AppendProperties, LenProperties DEF BulkheadInv, QueueSound
<1>4. \A i \in 1 .. Len(queue) : queue[i] \in Op \ {o}
  BY NotWaiting, ElementOfSeq DEF BulkheadInv, QueueSound
<1>5. \A i \in 1 .. Len(queue') : i \in 1 .. Len(queue) \/ i = Len(queue) + 1
  BY <1>3
<1>6. QueueSound'
  <2>1. Len(queue') <= MaxQueue
    BY <1>3, ResilienceConstants
  <2>2. ASSUME NEW i \in 1 .. Len(queue'), NEW j \in 1 .. Len(queue'), queue'[i] = queue'[j]
        PROVE  i = j
    <3>1. \A k, l \in 1 .. Len(queue) : queue[k] = queue[l] => k = l
      BY DEF BulkheadInv, QueueSound
    <3> QED BY <1>3, <1>4, <1>5, <2>2, <3>1
  <2>3. ASSUME NEW i \in 1 .. Len(queue')
        PROVE  call'[queue'[i]].at = "queued" /\ call'[queue'[i]].abort = "none"
    <3>1. CASE i \in 1 .. Len(queue)
      BY <1>1, <1>3, <1>4, <3>1 DEF BulkheadInv, QueueSound, At
    <3>2. CASE i = Len(queue) + 1
      BY <1>1, <1>3, <3>2
    <3> QED BY <1>5, <3>1, <3>2
  <2>4. ASSUME NEW p \in Op, call'[p].at = "queued", call'[p].abort = "none"
        PROVE  \E i \in 1 .. Len(queue') : queue'[i] = p
    <3>1. CASE p = o
      <4>1. Len(queue) + 1 \in 1 .. Len(queue')
        BY <1>3
      <4> QED BY <1>3, <3>1, <4>1
    <3>2. CASE p # o
      <4>1. PICK i \in 1 .. Len(queue) : queue[i] = p
        BY <1>1, <2>4, <3>2 DEF BulkheadInv, QueueSound, At, Waits
      <4>2. i \in 1 .. Len(queue')
        BY <1>3
      <4> QED BY <1>3, <4>1, <4>2
    <3> QED BY <3>1, <3>2
  <2> QED BY <1>3, <2>1, <2>2, <2>3, <2>4 DEF QueueSound, At, Waits
<1>7. PermitsSound'
  <2>1. \A p \in Op : call'[p].holds <=> call[p].holds
    BY <1>1, <1>2
  <2>2. Holders' = Holders
    BY <2>1 DEF Holders
  <2>3. /\ permits \in Nat \ {0} /\ active = Cardinality(Holders) /\ active <= permits
    BY DEF BulkheadInv, PermitsSound
  <2> QED BY <2>2, <2>3 DEF PermitsSound
<1> QED BY <1>1, <1>6, <1>7 DEF BulkheadInv

\* Begin: refused, degraded, granted or queued.
LEMMA BeginStep ==
  ASSUME BulkheadInv, breaker \in Breaker, NEW o \in Op, call[o].at \in {"idle", "starting"},
         Begin(o, call[o]), permits' = permits
  PROVE  BulkheadInv' /\ Rest(o) /\ Tells(o) /\ Heeds(o)
<1> DEFINE c == call[o]
           g == Probing(breaker).generation
           admitted == [c EXCEPT !.generation = g]
<1>1. /\ c \in Call /\ ~c.holds /\ work[o] = "none" /\ c.attempts = 0
      /\ c.outcome # "ok" /\ c.generation = NoGeneration /\ ~At(o, "queued")
  BY DEF BulkheadInv, CallsSound, Sound, At
<1>2. Without(o) = breaker /\ g \in Nat
  BY <1>1, ProbingKeeps DEF Without, Breaker
<1>3. /\ admitted \in Call /\ admitted.generation = g /\ admitted.outcome # "ok"
      /\ ~admitted.holds /\ admitted.abort = c.abort /\ admitted.attempts = 0
  BY <1>1, <1>2 DEF Call
<1>4. GoesOn(o, c)
  BY <1>1 DEF GoesOn
<1> HIDE DEF g, admitted
<1>5. CASE ~Admits(breaker)
  <2>1. breaker' = Probing(Without(o))
    BY <1>2, <1>5 DEF Begin
  <2>2. CASE c.abort # "none"
    <3>1. Works(o, "none") /\ Becomes(o, Done(c, "error"))
      BY <1>5, <2>2 DEF Begin, Failed
    <3>2. "error" \in Outcome /\ "error" # "ok" /\ "none" \in {"none", "primary", "fallback"}
      BY DEF Outcome
    <3>3. /\ BulkheadInv' /\ Rest(o)
          /\ call'[o].generation = c.generation /\ call'[o].outcome = "error"
          /\ call'[o].at = "done"
      BY <1>1, <3>1, <3>2, SettlesKeeps
    <3> QED BY <1>1, <2>1, <3>3 DEF Heeds, Tells, Resigns
  <2>3. CASE c.abort = "none"
    <3>1. FallsBack(o, c)
      BY <1>5, <2>3 DEF Begin
    <3>2. /\ BulkheadInv' /\ Rest(o)
          /\ call'[o].generation = NoGeneration /\ call'[o].outcome # "ok"
      BY <1>1, <1>4, <3>1, FallsBackKeeps
    <3> QED BY <1>1, <2>1, <2>3, <3>2 DEF Heeds, Tells, Resigns
  <2> QED BY <2>2, <2>3
<1>6. CASE Admits(breaker) /\ c.abort # "none"
  <2>1. breaker' = Probing(Without(o)) /\ Works(o, "none") /\ Becomes(o, Done(c, "error"))
    BY <1>2, <1>6, ReturnedAtOnce DEF Begin, Failed, g
  <2>2. "error" \in Outcome /\ "error" # "ok" /\ "none" \in {"none", "primary", "fallback"}
    BY DEF Outcome
  <2>3. /\ BulkheadInv' /\ Rest(o)
        /\ call'[o].generation = c.generation /\ call'[o].outcome = "error" /\ call'[o].at = "done"
    BY <1>1, <2>1, <2>2, SettlesKeeps
  <2> QED BY <1>1, <2>1, <2>3 DEF Heeds, Tells, Resigns
<1>7. CASE Admits(breaker) /\ c.abort = "none" /\ active < permits
  <2> DEFINE a1 == [admitted EXCEPT !.at = "attempt", !.attempts = 1]
             d == [a1 EXCEPT !.holds = TRUE]
  <2>1. /\ breaker' = AfterAdmission(Without(o)) /\ active' = active + 1
        /\ work' = [work EXCEPT ![o] = "primary"] /\ queue' = queue
        /\ call' = [call EXCEPT ![o] =
                      [admitted EXCEPT !.at = "attempt", !.attempts = 1, !.holds = TRUE]]
    BY <1>2, <1>7 DEF Begin, Works, g, admitted
  <2>2. [admitted EXCEPT !.at = "attempt", !.attempts = 1, !.holds = TRUE] = d
    BY <1>3 DEF Call
  <2>3. 1 \in 0 .. MaxAttempts
    BY ResilienceConstants
  <2>4. /\ a1 \in Call /\ a1.at = "attempt" /\ a1.generation = g /\ a1.outcome # "ok"
    BY <1>3, <2>3 DEF Call, Phase
  <2> HIDE DEF a1
  <2>5. d \in Call /\ d.at = "attempt" /\ d.generation = g /\ d.outcome # "ok" /\ d.holds
    BY <2>4 DEF Call
  <2> HIDE DEF d
  <2>6. Sound(d, "primary") /\ Replaced(o, d, "primary")
    BY <2>1, <2>2, <2>5 DEF Sound, Replaced
  <2>7. BulkheadInv' /\ Altered(o, d, "primary")
    BY <1>1, <1>7, <2>1, <2>5, <2>6, GrantKeeps
  <2> QED BY <1>1, <1>2, <1>7, <2>1, <2>5, <2>7 DEF Altered, Heeds, Tells, Enters, g
<1>8. CASE Admits(breaker) /\ c.abort = "none" /\ ~(active < permits) /\ Len(queue) >= MaxQueue
  <2>1. breaker' = Probing(Without(o)) /\ FallsBack(o, c)
    BY <1>2, <1>8, ReturnedAtOnce DEF Begin
  <2>2. /\ BulkheadInv' /\ Rest(o)
        /\ call'[o].generation = NoGeneration /\ call'[o].outcome # "ok"
    BY <1>1, <1>4, <2>1, FallsBackKeeps
  <2> QED BY <1>1, <1>8, <2>1, <2>2 DEF Heeds, Tells, Resigns
<1>9. CASE /\ Admits(breaker) /\ c.abort = "none" /\ ~(active < permits)
           /\ ~(Len(queue) >= MaxQueue)
  <2> DEFINE d == [admitted EXCEPT !.at = "queued"]
  <2>1. /\ breaker' = AfterAdmission(Without(o)) /\ queue' = Append(queue, o)
        /\ call' = [call EXCEPT ![o] = d] /\ active' = active /\ work' = work
    BY <1>2, <1>9 DEF Begin, g, admitted
  <2>2. /\ d \in Call /\ d.at = "queued" /\ d.abort = "none" /\ ~d.holds
        /\ d.generation = g /\ d.outcome # "ok" /\ d.attempts = 0
    BY <1>3, <1>9 DEF Call, Phase
  <2> HIDE DEF d
  <2>3. work = [work EXCEPT ![o] = "none"]
    BY <1>1 DEF BulkheadInv, CallsSound
  <2>4. Sound(d, "none") /\ Replaced(o, d, "none")
    BY <2>1, <2>2, <2>3 DEF Sound, Replaced
  <2>5. active = permits /\ Len(queue) < MaxQueue
    <3>1. active \in Nat /\ permits \in Nat /\ active <= permits
      BY CallSets DEF BulkheadInv, PermitsSound, Holders
    <3>2. Len(queue) \in Nat /\ MaxQueue \in Nat
      BY LenProperties, ResilienceConstants DEF BulkheadInv, QueueSound
    <3> QED BY <1>9, <3>1, <3>2
  <2>6. BulkheadInv' /\ Altered(o, d, "none")
    BY <1>1, <2>1, <2>2, <2>4, <2>5, EnqueueKeeps
  <2> QED BY <1>1, <1>2, <1>9, <2>1, <2>2, <2>6 DEF Altered, Heeds, Tells, Enters, g
<1> QED BY <1>5, <1>6, <1>7, <1>8, <1>9

--------------------------------------------------------------------------------
(* The steps of a call, one by one.                                        *)

\* A keyed call is not at work unless it owned the coalesced operation or does now.
Claims(o) == o \in Keyed /\ Owns(o)' => Owns(o) \/ entry' = o

Kept(o) == BulkheadInv' /\ Rest(o) /\ Tells(o) /\ Claims(o) /\ Heeds(o)

\* A call outside the queue that becomes c without work and without a permit.
LEMMA PlainStep ==
  ASSUME BulkheadInv, NEW o \in Op, NEW c, ~call[o].holds, ~At(o, "queued"), work[o] = "none",
         Sound(c, "none"), ~c.holds, c.at # "queued" \/ c.abort # "none",
         call' = [call EXCEPT ![o] = c], UNCHANGED <<work, queue, active, permits>>
  PROVE  BulkheadInv' /\ Altered(o, c, "none")
<1>1. work = [work EXCEPT ![o] = "none"]
  BY DEF BulkheadInv, CallsSound
<1>2. Replaced(o, c, "none")
  BY <1>1 DEF Replaced
<1>3. c.holds = call[o].holds
  <2>1. c.holds \in BOOLEAN /\ call[o].holds \in BOOLEAN
    BY DEF Sound, BulkheadInv, CallsSound, Call
  <2> QED BY <2>1
<1> QED BY <1>2, <1>3, ReplacedKeeps

\* execute, up to its first await.
LEMMA ExecuteStep ==
  ASSUME BulkheadInv, breaker \in Breaker, OwnersSound, NEW o \in Op, Execute(o)
  PROVE  Kept(o)
<1>1. /\ call[o].at = "idle" /\ permits' = permits
      /\ call[o] \in Call /\ ~call[o].holds /\ work[o] = "none" /\ ~At(o, "queued")
      /\ call[o].attempts = 0 /\ call[o].outcome # "ok" /\ call[o].generation = NoGeneration
      /\ call[o].abort = "none"
  BY DEF Execute, BulkheadInv, CallsSound, Sound, At
<1>2. CASE o \notin Keyed
  <2>1. Begin(o, call[o])
    BY <1>2 DEF Execute
  <2>2. BulkheadInv' /\ Rest(o) /\ Tells(o) /\ Heeds(o)
    BY <1>1, <2>1, BeginStep
  <2> QED BY <1>2, <2>2 DEF Kept, Heeds, Claims
<1>3. CASE o \in Keyed /\ entry # NoOp
  <2> DEFINE f == [call[o] EXCEPT !.at = "following", !.of = entry]
             c == IF Cardinality(Following(entry)) < MaxFollowers THEN f ELSE Failed(call[o])
  <2>1. /\ call' = [call EXCEPT ![o] = c] /\ breaker' = breaker
        /\ UNCHANGED <<work, queue, active>>
    <3>1. Joins(o)
      BY <1>3 DEF Execute
    <3> QED BY <3>1 DEF Joins
  <2>2. /\ Sound(f, "none") /\ ~f.holds /\ f.at = "following" /\ f.outcome # "ok"
        /\ f.generation = NoGeneration
    <3>1. entry \in Op
      BY <1>3, ResilienceConstants DEF OwnersSound
    <3>2. /\ f \in Call /\ f.at = "following" /\ f.of = entry /\ f.outcome # "ok"
          /\ ~f.holds /\ f.generation = NoGeneration
      BY <1>1, <3>1 DEF Call, Phase
    <3> QED BY <3>1, <3>2 DEF Sound
  <2>3. /\ Sound(Failed(call[o]), "none") /\ ~Failed(call[o]).holds
        /\ Failed(call[o]).at = "done" /\ Failed(call[o]).outcome = "error"
        /\ Failed(call[o]).generation = NoGeneration
    BY <1>1, DoneForm DEF Failed, Outcome
  <2> HIDE DEF f
  <2>4. /\ Sound(c, "none") /\ ~c.holds /\ c.at \in {"following", "done"}
        /\ c.outcome # "ok" /\ c.generation = NoGeneration
    BY <2>2, <2>3
  <2> HIDE DEF c
  <2>5. BulkheadInv' /\ Altered(o, c, "none")
    BY <1>1, <2>1, <2>4, PlainStep
  <2>6. ~Owns(o)'
    BY <1>1, <2>1, <2>4, <2>5 DEF Altered, Owns, Owning
  <2> QED BY <1>1, <2>1, <2>4, <2>5, <2>6 DEF Altered, Kept, Heeds, Tells, Silent, Claims
<1>4. CASE o \in Keyed /\ entry = NoOp
  <2> DEFINE c == [call[o] EXCEPT !.at = "starting"]
  <2>1. /\ call' = [call EXCEPT ![o] = c] /\ entry' = o /\ breaker' = breaker
        /\ UNCHANGED <<work, queue, active>>
    BY <1>4 DEF Execute
  <2>2. /\ c \in Call /\ c.at = "starting" /\ c.outcome # "ok" /\ ~c.holds
        /\ c.generation = NoGeneration /\ c.attempts = 0
    BY <1>1 DEF Call, Phase
  <2> HIDE DEF c
  <2>3. Sound(c, "none")
    BY <2>2 DEF Sound
  <2>4. BulkheadInv' /\ Altered(o, c, "none")
    BY <1>1, <2>1, <2>2, <2>3, PlainStep
  <2> QED BY <1>1, <2>1, <2>2, <2>4 DEF Altered, Kept, Heeds, Tells, Silent, Claims
<1> QED BY <1>2, <1>3, <1>4

\* A call that settles where it waits for nothing of its own.
LEMMA SettledStep ==
  ASSUME BulkheadInv, NEW o \in Op, NEW out \in Outcome,
         call[o].at \in {"idle", "following"},
         call' = [call EXCEPT ![o] = Done(call[o], out)],
         UNCHANGED <<work, queue, active, breaker, permits>>
  PROVE  Kept(o)
<1>1. /\ call[o] \in Call /\ ~call[o].holds /\ work[o] = "none" /\ ~At(o, "queued")
      /\ call[o].outcome # "ok" /\ call[o].generation = NoGeneration
  BY DEF BulkheadInv, CallsSound, Sound, At
<1>2. /\ Sound(Done(call[o], out), "none") /\ ~Done(call[o], out).holds
      /\ Done(call[o], out).at = "done" /\ Done(call[o], out).generation = NoGeneration
  BY <1>1, DoneForm
<1>3. BulkheadInv' /\ Altered(o, Done(call[o], out), "none")
  BY <1>1, <1>2, PlainStep
<1>4. ~Owns(o)'
  BY <1>1, <1>2, <1>3 DEF Altered, Owns, Owning
<1> QED BY <1>1, <1>2, <1>3, <1>4 DEF Altered, Kept, Heeds, Tells, Silent, Claims

\* A follower that comes after the entry's ttl.
LEMMA JoinsTooLateStep ==
  ASSUME BulkheadInv, NEW o \in Op, JoinsTooLate(o)
  PROVE  Kept(o)
<1>1. /\ call[o].at = "idle" /\ "error" \in Outcome
      /\ call' = [call EXCEPT ![o] = Done(call[o], "error")]
      /\ UNCHANGED <<work, queue, active, breaker, permits>>
  BY DEF JoinsTooLate, At, Failed, Outcome
<1> QED BY <1>1, SettledStep

\* A follower gets what its owner got.
LEMMA FollowerReceivesStep ==
  ASSUME BulkheadInv, NEW o \in Op, FollowerReceives(o)
  PROVE  Kept(o)
<1>1. call[o].at = "following" /\ call[o].of \in Op
  BY DEF FollowerReceives, At, BulkheadInv, CallsSound, Sound
<1>2. call[call[o].of].outcome \in Outcome
  BY <1>1 DEF BulkheadInv, CallsSound, Call
<1>3. /\ call' = [call EXCEPT ![o] = Done(call[o], call[call[o].of].outcome)]
      /\ UNCHANGED <<work, queue, active, breaker, permits>>
  BY DEF FollowerReceives
<1> QED BY <1>1, <1>2, <1>3, SettledStep

\* An owner begins.
LEMMA StartOwnerStep ==
  ASSUME BulkheadInv, breaker \in Breaker, NEW o \in Op, StartOwner(o)
  PROVE  Kept(o)
<1>1. /\ call[o].at = "starting" /\ Begin(o, call[o]) /\ permits' = permits
  BY DEF StartOwner, At
<1>2. BulkheadInv' /\ Rest(o) /\ Tells(o) /\ Heeds(o)
  BY <1>1, BeginStep
<1>3. Owns(o)
  BY <1>1 DEF Owns, Owning
<1> QED BY <1>2, <1>3 DEF Kept, Heeds, Claims

\* A waiter that was handed a permit: it leaves, makes its attempt, or is refused and
\* passes the permit on before it is degraded.
LEMMA ProceedStep ==
  ASSUME BulkheadInv, breaker \in Breaker, NEW o \in Op, Proceed(o)
  PROVE  Kept(o)
<1> DEFINE c == Accounted(call[o])
           b == Without(o)
           a == [c EXCEPT !.generation = Probing(b).generation]
<1>1. /\ call[o].at = "granted" /\ permits' = permits /\ call[o] \in Call
      /\ call[o].holds /\ work[o] = "none" /\ ~At(o, "queued")
      /\ call[o].attempts = 0 /\ call[o].outcome # "ok" /\ call[o].generation \in Int
  BY DEF Proceed, BulkheadInv, CallsSound, Sound, At, Call
<1>2. /\ c \in Call /\ c.generation = NoGeneration /\ c.holds = call[o].holds /\ c.holds
      /\ c.outcome # "ok" /\ c.attempts = 0
  BY <1>1, AccountedForm
<1>3. Owns(o)
  BY <1>1 DEF Owns, Owning
<1>4. Probing(b).generation \in Nat
  BY <1>1, ProbingKeeps DEF Without, Breaker
<1> HIDE DEF c
<1>5. /\ a \in Call /\ a.generation = Probing(b).generation /\ a.holds /\ a.outcome # "ok"
      /\ a.attempts = 0
  <2>1. PICK n \in Int : n = Probing(b).generation
    BY <1>4
  <2>2. a = [c EXCEPT !.generation = n]
    BY <2>1
  <2> HIDE DEF a
  <2>3. a \in Call /\ a.generation = n
    BY <1>2, <2>2 DEF Call
  <2>4. a.holds = c.holds /\ a.outcome = c.outcome /\ a.attempts = c.attempts
    BY <1>2, <2>2 DEF Call
  <2> QED BY <1>2, <2>1, <2>3, <2>4
<1>6. "error" \in Outcome /\ 0 < MaxAttempts /\ "none" \in {"none", "primary", "fallback"}
  BY ResilienceConstants DEF Outcome
<1>7. CASE call[o].abort # "none"
  <2>1. breaker' = b /\ Works(o, "none") /\ Becomes(o, Done(c, "error"))
    BY <1>7 DEF Proceed, Leaves, Failed, Without, c
  <2> HIDE DEF a, b
  <2>2. /\ BulkheadInv' /\ Rest(o)
        /\ call'[o].generation = NoGeneration /\ call'[o].outcome = "error" /\ call'[o].at = "done"
    <3>1. /\ c \in Call /\ c.holds = call[o].holds /\ c.generation = NoGeneration
          /\ ~At(o, "queued") /\ permits' = permits
      BY <1>1, <1>2
    <3>2. "error" \in Outcome /\ "none" \in {"none", "primary", "fallback"}
          /\ "none" # "primary"
      BY <1>6
    <3> QED BY <2>1, <3>1, <3>2, SettlesKeeps
  <2> QED BY <1>1, <1>3, <2>1, <2>2 DEF Kept, Heeds, Claims, Tells, Resigns, b
<1>8. CASE call[o].abort = "none" /\ Admits(b)
  <2>1. breaker' = AfterAdmission(b) /\ Attempts(o, a)
    BY <1>8 DEF Proceed, Without, c
  <2> HIDE DEF a
  <2>2. GoesOn(o, a)
    BY <1>1, <1>2, <1>5 DEF GoesOn, Call
  <2>3. /\ BulkheadInv' /\ Rest(o)
        /\ call'[o].generation = a.generation /\ call'[o].outcome # "ok" /\ call'[o].at = "attempt"
    BY <1>1, <1>5, <1>6, <2>1, <2>2, AttemptsKeeps
  <2> QED BY <1>1, <1>3, <1>5, <1>8, <2>1, <2>3 DEF Kept, Heeds, Claims, Tells, Enters
<1>9. CASE call[o].abort = "none" /\ ~Admits(b)
  <2>1. /\ breaker' = Probing(b)
        /\ IF Fallback THEN Works(o, "fallback") ELSE Works(o, "none")
        /\ PassPermit(o, IF Fallback THEN [c EXCEPT !.at = "fallback"] ELSE Failed(c))
    BY <1>9 DEF Proceed, Without, c
  <2>2. /\ BulkheadInv' /\ Rest(o)
        /\ call'[o].generation = NoGeneration /\ call'[o].outcome # "ok"
    <3>1. CASE Fallback
      <4> DEFINE d == [c EXCEPT !.at = "fallback"]
      <4>1. /\ Sound(d, "fallback") /\ d.at = "fallback"
            /\ d.generation = NoGeneration /\ d.outcome # "ok"
        BY <1>2, FallbackForm
      <4>2. Works(o, "fallback") /\ PassPermit(o, d)
        BY <2>1, <3>1
      <4> HIDE DEF d
      <4>3. BulkheadInv' /\ Altered(o, d, "fallback")
        BY <1>1, <4>1, <4>2, PassKeeps
      <4> QED BY <4>1, <4>3 DEF Altered
    <3>2. CASE ~Fallback
      <4>1. /\ Sound(Failed(c), "none") /\ Failed(c).at = "done"
            /\ Failed(c).generation = NoGeneration /\ Failed(c).outcome = "error"
        BY <1>2, <1>6, DoneForm DEF Failed
      <4>2. Works(o, "none") /\ PassPermit(o, Failed(c))
        BY <2>1, <3>2
      <4>3. BulkheadInv' /\ Altered(o, Failed(c), "none")
        BY <1>1, <4>1, <4>2, PassKeeps
      <4> QED BY <4>1, <4>3 DEF Altered
    <3> QED BY <3>1, <3>2
  <2> QED BY <1>1, <1>3, <1>9, <2>1, <2>2 DEF Kept, Heeds, Claims, Tells, Resigns
<1> QED BY <1>7, <1>8, <1>9

--------------------------------------------------------------------------------
(* A waiter leaves the queue.                                              *)

\* The queue without o has the other waiters, once each.
LEMMA QueueWithoutKeeps ==
  ASSUME QueueSound, NEW o \in Op
  PROVE  LET q == QueueWithout(o)
         IN /\ q \in Seq(Op) /\ Len(q) \in Nat /\ Len(q) <= Len(queue)
            /\ q # <<>> => queue # <<>>
            /\ \A i, j \in 1 .. Len(q) : q[i] = q[j] => i = j
            /\ \A i \in 1 .. Len(q) : q[i] # o /\ \E j \in 1 .. Len(queue) : q[i] = queue[j]
            /\ \A j \in 1 .. Len(queue) : queue[j] # o => \E i \in 1 .. Len(q) : q[i] = queue[j]
<1> DEFINE q == QueueWithout(o)
<1>1. /\ queue \in Seq(Op) /\ Len(queue) \in Nat
      /\ \A i, j \in 1 .. Len(queue) : queue[i] = queue[j] => i = j
      /\ \A i \in 1 .. Len(queue) : queue[i] \in Op
  BY LenProperties, ElementOfSeq DEF QueueSound
<1>2. CASE ~Waits(o)
  <2>1. q = queue /\ \A i \in 1 .. Len(queue) : queue[i] # o
    BY <1>2 DEF QueueWithout, Waits
  <2> QED BY <1>1, <2>1
<1>3. CASE Waits(o)
  <2> DEFINE at == CHOOSE i \in 1 .. Len(queue) : queue[i] = o
             n == Len(queue) - 1
  <2>1. at \in 1 .. Len(queue) /\ queue[at] = o
    BY <1>3 DEF Waits
  <2>2. q = [i \in 1 .. n |-> IF i < at THEN queue[i] ELSE queue[i + 1]]
    BY <1>3 DEF QueueWithout
  <2> HIDE DEF at
  <2>3. n \in Nat /\ n + 1 = Len(queue) /\ at \in Nat
    BY <1>1, <2>1
  <2> HIDE DEF n
  <2>4. ASSUME NEW i \in 1 .. n
        PROVE  i \in Nat /\ i \in 1 .. Len(queue) /\ i + 1 \in 1 .. Len(queue)
    BY <2>3
  <2>5. q \in [1 .. n -> Op]
    BY <1>1, <2>2, <2>4
  <2>6. q \in Seq(Op)
    BY <2>3, <2>5, SeqDef
  <2>7. Len(q) \in Nat /\ DOMAIN q = 1 .. Len(q) /\ DOMAIN q = 1 .. n
    BY <2>5, <2>6, LenProperties
  <2> HIDE DEF q
  <2>8. Len(q) = n
    <3>1. n \in 1 .. n => n \in 1 .. Len(q)
      BY <2>7
    <3>2. Len(q) \in 1 .. Len(q) => Len(q) \in 1 .. n
      BY <2>7
    <3>3. n \in Nat /\ Len(q) \in Nat
      BY <2>3, <2>7
    <3> DEFINE m == Len(q)
    <3> HIDE DEF m
    <3>4. m \in Nat /\ (n \in 1 .. n => n \in 1 .. m) /\ (m \in 1 .. m => m \in 1 .. n)
      BY <3>1, <3>2, <3>3 DEF m
    <3>5. m = n
      BY <3>3, <3>4
    <3> QED BY <3>5 DEF m
  <2>9. ASSUME NEW i \in 1 .. n
        PROVE  q[i] # o /\ \E j \in 1 .. Len(queue) : q[i] = queue[j]
    <3>1. q[i] = IF i < at THEN queue[i] ELSE queue[i + 1]
      BY <2>2
    <3>2. i # at \/ ~(i < at)
      BY <2>3, <2>4
    <3>3. (i < at => i # at) /\ (~(i < at) => i + 1 # at)
      BY <2>3, <2>4
    <3> QED BY <1>1, <2>1, <2>4, <3>1, <3>3
  <2>10. ASSUME NEW i \in 1 .. n, NEW j \in 1 .. n, q[i] = q[j] PROVE i = j
    <3>1. /\ q[i] = IF i < at THEN queue[i] ELSE queue[i + 1]
          /\ q[j] = IF j < at THEN queue[j] ELSE queue[j + 1]
      BY <2>2
    <3>2. /\ i \in 1 .. Len(queue) /\ i + 1 \in 1 .. Len(queue)
          /\ j \in 1 .. Len(queue) /\ j + 1 \in 1 .. Len(queue)
      BY <2>4
    <3>3. CASE i < at /\ j < at
      BY <1>1, <2>10, <3>1, <3>2, <3>3
    <3>4. CASE ~(i < at) /\ ~(j < at)
      <4>1. i + 1 = j + 1
        BY <1>1, <2>10, <3>1, <3>2, <3>4
      <4> QED BY <4>1
    <3>5. CASE i < at /\ ~(j < at)
      <4>1. i = j + 1
        BY <1>1, <2>10, <3>1, <3>2, <3>5
      <4> QED BY <2>3, <3>5, <4>1
    <3>6. CASE ~(i < at) /\ j < at
      <4>1. i + 1 = j
        BY <1>1, <2>10, <3>1, <3>2, <3>6
      <4> QED BY <2>3, <3>6, <4>1
    <3> QED BY <3>3, <3>4, <3>5, <3>6
  <2>11. ASSUME NEW j \in 1 .. Len(queue), queue[j] # o
         PROVE  \E i \in 1 .. n : q[i] = queue[j]
    <3>1. CASE j < at
      <4>1. j \in 1 .. n
        BY <2>1, <2>3, <3>1
      <4>2. q[j] = queue[j]
        BY <2>2, <3>1, <4>1
      <4> QED BY <4>1, <4>2
    <3>2. CASE ~(j < at)
      <4>1. j # at /\ j - 1 \in 1 .. n /\ ~(j - 1 < at) /\ (j - 1) + 1 = j
        BY <2>1, <2>3, <2>11, <3>2
      <4>2. q[j - 1] = queue[(j - 1) + 1]
        BY <2>2, <4>1
      <4> QED BY <4>1, <4>2
    <3> QED BY <3>1, <3>2
  <2>12. queue # <<>>
    BY <2>3, EmptySeq
  <2>13. /\ Len(q) <= Len(queue) /\ Len(q) \in Nat
         /\ \A i, j \in 1 .. Len(q) : q[i] = q[j] => i = j
         /\ \A i \in 1 .. Len(q) : q[i] # o /\ \E j \in 1 .. Len(queue) : q[i] = queue[j]
         /\ \A j \in 1 .. Len(queue) :
              queue[j] # o => \E i \in 1 .. Len(q) : q[i] = queue[j]
    BY <2>3, <2>8, <2>9, <2>10, <2>11
  <2> QED BY <2>6, <2>12, <2>13 DEF q
<1> QED BY <1>2, <1>3

\* A call that leaves the queue, or was not in it, keeps its permit or has none.
LEMMA LeavingKeeps ==
  ASSUME BulkheadInv, NEW o \in Op, NEW c, NEW w, Sound(c, w),
         c.at = "done" /\ c.holds => w # "none", Replaced(o, c, w),
         c.holds = call[o].holds, c.at # "queued" \/ c.abort # "none",
         queue' = QueueWithout(o), UNCHANGED <<active, permits>>
  PROVE  BulkheadInv' /\ Altered(o, c, w)
<1> DEFINE q == QueueWithout(o)
<1>1. /\ CallsSound' /\ Altered(o, c, w) /\ call'[o] = c
      /\ \A p \in Op \ {o} : call'[p] = call[p]
  BY ReplacedCalls DEF BulkheadInv
<1>2. QueueSound
  BY DEF BulkheadInv
<1>3. /\ q \in Seq(Op) /\ Len(q) \in Nat /\ Len(q) <= Len(queue)
      /\ q # <<>> => queue # <<>>
      /\ \A i, j \in 1 .. Len(q) : q[i] = q[j] => i = j
      /\ \A i \in 1 .. Len(q) : q[i] # o /\ \E j \in 1 .. Len(queue) : q[i] = queue[j]
      /\ \A j \in 1 .. Len(queue) : queue[j] # o => \E i \in 1 .. Len(q) : q[i] = queue[j]
  BY <1>2, QueueWithoutKeeps
<1> HIDE DEF q
<1>4. /\ queue' = q /\ queue \in Seq(Op) /\ Len(queue) \in Nat /\ Len(queue) <= MaxQueue
      /\ \A j \in 1 .. Len(queue) : queue[j] \in Op
  BY <1>2, LenProperties, ElementOfSeq DEF q, QueueSound
<1>5. QueueSound'
  <2>1. Len(q) <= MaxQueue
    BY <1>3, <1>4, ResilienceConstants
  <2>2. ASSUME NEW i \in 1 .. Len(q)
        PROVE  call'[q[i]].at = "queued" /\ call'[q[i]].abort = "none"
    <3>1. PICK j \in 1 .. Len(queue) : q[i] = queue[j]
      BY <1>3
    <3>2. q[i] \in Op \ {o}
      BY <1>3, <1>4, <3>1
    <3>3. call[q[i]].at = "queued" /\ call[q[i]].abort = "none"
      BY <1>2, <3>1 DEF QueueSound, At
    <3> QED BY <1>1, <3>2, <3>3
  <2>3. ASSUME NEW p \in Op, call'[p].at = "queued", call'[p].abort = "none"
        PROVE  \E i \in 1 .. Len(q) : q[i] = p
    <3>1. p # o
      BY <1>1, <2>3
    <3>2. PICK j \in 1 .. Len(queue) : queue[j] = p
      BY <1>1, <1>2, <2>3, <3>1 DEF QueueSound, At, Waits
    <3> QED BY <1>3, <3>1, <3>2
  <2> QED BY <1>3, <1>4, <2>1, <2>2, <2>3 DEF QueueSound, At, Waits
<1>6. PermitsSound'
  <2>1. \A p \in Op : call'[p].holds = call[p].holds
    BY <1>1
  <2>2. Holders' = Holders
    BY <2>1 DEF Holders
  <2>3. /\ permits' = permits /\ active' = active
        /\ permits \in Nat \ {0} /\ active = Cardinality(Holders) /\ active <= permits
        /\ (queue # <<>> => active = permits)
    BY DEF BulkheadInv, PermitsSound
  <2> QED BY <1>3, <1>4, <2>2, <2>3 DEF PermitsSound
<1> QED BY <1>1, <1>5, <1>6 DEF BulkheadInv

\* The timer aborts a call wherever it is.
LEMMA TimeoutStep ==
  ASSUME BulkheadInv, NEW o \in Op, Timeout(o)
  PROVE  Kept(o) /\ call'[o].at = call[o].at
<1> DEFINE c == [call[o] EXCEPT !.abort = "timeout"]
           w == work[o]
<1>1. /\ call' = [call EXCEPT ![o] = c] /\ queue' = QueueWithout(o)
      /\ UNCHANGED <<work, active, breaker, permits>>
      /\ call[o].at \notin {"idle", "done"}
  BY DEF Timeout, Timed, Pending
<1>2. /\ c \in Call /\ c.abort = "timeout" /\ c.at = call[o].at /\ c.holds = call[o].holds
      /\ c.generation = call[o].generation /\ c.outcome = call[o].outcome
      /\ c.attempts = call[o].attempts /\ c.of = call[o].of
  BY DEF BulkheadInv, CallsSound, Call
<1> HIDE DEF c
<1>3. Sound(c, w)
  BY <1>1, <1>2 DEF BulkheadInv, CallsSound, Sound
<1>4. Replaced(o, c, w)
  BY <1>1 DEF Replaced, BulkheadInv, CallsSound
<1>5. BulkheadInv' /\ Altered(o, c, w)
  BY <1>1, <1>2, <1>3, <1>4, LeavingKeeps
<1>6. Owns(o)' => Owns(o)
  BY <1>1, <1>2, <1>5 DEF Altered, Owns
<1> QED BY <1>1, <1>2, <1>5, <1>6 DEF Altered, Kept, Heeds, Tells, Silent, Claims

\* A waiter has waited for too long.
LEMMA QueueTimeoutStep ==
  ASSUME BulkheadInv, NEW o \in Op, QueueTimeout(o)
  PROVE  Kept(o)
<1> DEFINE c == Accounted(call[o])
<1>1. /\ call[o].at = "queued" /\ call[o].abort = "none" /\ call[o] \in Call
      /\ ~call[o].holds /\ call[o].outcome # "ok" /\ work[o] = "none"
  BY DEF QueueTimeout, At, BulkheadInv, CallsSound, Sound
<1>2. /\ c \in Call /\ c.generation = NoGeneration /\ c.holds = call[o].holds /\ ~c.holds
      /\ c.outcome # "ok"
  BY <1>1, AccountedForm
<1>3. /\ queue' = QueueWithout(o) /\ breaker' = Without(o)
      /\ UNCHANGED <<active, permits>>
  BY DEF QueueTimeout, Without
<1>4. Owns(o)
  BY <1>1 DEF Owns, Owning
<1> HIDE DEF c
<1>5. CASE Fallback
  <2> DEFINE d == [c EXCEPT !.at = "fallback"]
  <2>1. Replaced(o, d, "fallback")
    BY <1>5 DEF QueueTimeout, Works, Replaced, c
  <2>2. /\ Sound(d, "fallback") /\ d.at = "fallback" /\ d.holds = call[o].holds
        /\ d.generation = NoGeneration /\ d.outcome # "ok"
    BY <1>2, FallbackForm
  <2> HIDE DEF d
  <2>3. BulkheadInv' /\ Altered(o, d, "fallback")
    BY <1>3, <2>1, <2>2, LeavingKeeps
  <2> QED BY <1>1, <1>3, <1>4, <2>2, <2>3 DEF Altered, Kept, Heeds, Tells, Resigns, Claims
<1>6. CASE ~Fallback
  <2>1. Replaced(o, Failed(c), "none")
    BY <1>6 DEF QueueTimeout, Works, Replaced, c
  <2>2. /\ Sound(Failed(c), "none") /\ Failed(c).at = "done"
        /\ Failed(c).holds = call[o].holds /\ ~Failed(c).holds
        /\ Failed(c).generation = NoGeneration /\ Failed(c).outcome = "error"
    BY <1>2, DoneForm DEF Failed, Outcome
  <2>3. BulkheadInv' /\ Altered(o, Failed(c), "none")
    BY <1>3, <2>1, <2>2, LeavingKeeps
  <2> QED BY <1>1, <1>3, <1>4, <2>2, <2>3 DEF Altered, Kept, Heeds, Tells, Resigns, Claims
<1> QED BY <1>5, <1>6

--------------------------------------------------------------------------------
(* The application's work settles, or its call unwinds.                    *)

\* The function succeeds in time.
LEMMA PrimarySucceedsStep ==
  ASSUME BulkheadInv, NEW o \in Op, PrimarySucceeds(o)
  PROVE  Kept(o)
<1>1. /\ work[o] = "primary" /\ call[o].at = "attempt" /\ call[o] \in Call /\ call[o].abort = "none"
      /\ call[o].outcome # "ok" /\ ~At(o, "queued") /\ permits' = permits
      /\ Records(o, FALSE) /\ Works(o, "none") /\ Becomes(o, Done(call[o], "ok"))
  BY DEF PrimarySucceeds, Awaits, At, BulkheadInv, CallsSound, Sound
<1>2. "ok" \in Outcome /\ "none" \in {"none", "primary", "fallback"}
  BY DEF Outcome
<1>3. /\ BulkheadInv' /\ Rest(o)
      /\ call'[o].generation = call[o].generation /\ call'[o].outcome = "ok"
  BY <1>1, <1>2, SettlesKeeps
<1>4. Owns(o)
  BY <1>1 DEF Owns, Owning
<1> QED BY <1>1, <1>3, <1>4 DEF Kept, Heeds, Tells, ReportsSuccess, Claims

\* The function fails and will be retried: the permit stays.
LEMMA PrimaryIsRetriedStep ==
  ASSUME BulkheadInv, NEW o \in Op, PrimaryIsRetried(o)
  PROVE  Kept(o)
<1> DEFINE c == [call[o] EXCEPT !.at = "delay"]
<1>1. /\ work[o] = "primary" /\ call[o].at = "attempt" /\ call[o] \in Call /\ call[o].abort = "none"
      /\ call[o].holds /\ call[o].attempts < MaxAttempts
      /\ call[o].outcome # "ok" /\ ~At(o, "queued") /\ permits' = permits
      /\ Works(o, "none") /\ Becomes(o, c) /\ breaker' = breaker
  BY DEF PrimaryIsRetried, Awaits, At, BulkheadInv, CallsSound, Sound
<1>2. /\ c \in Call /\ c.at = "delay" /\ c.holds = call[o].holds /\ c.holds
      /\ c.generation = call[o].generation /\ c.outcome = call[o].outcome
      /\ c.attempts < MaxAttempts
  BY <1>1 DEF Call, Phase
<1> HIDE DEF c
<1>3. Sound(c, "none")
  BY <1>1, <1>2 DEF Sound
<1>4. BulkheadInv' /\ Altered(o, c, "none")
  BY <1>1, <1>2, <1>3, BecomesKeeps
<1>5. Owns(o)
  BY <1>1 DEF Owns, Owning
<1> QED BY <1>1, <1>2, <1>4, <1>5 DEF Altered, Kept, Heeds, Tells, Silent, Claims

\* The function fails for good.
LEMMA PrimaryFailsStep ==
  ASSUME BulkheadInv, NEW o \in Op, PrimaryFails(o)
  PROVE  Kept(o)
<1>1. /\ work[o] = "primary" /\ call[o].at = "attempt" /\ call[o] \in Call /\ call[o].abort = "none"
      /\ call[o].outcome # "ok" /\ ~At(o, "queued") /\ permits' = permits
      /\ Records(o, TRUE) /\ FallsBack(o, Accounted(call[o]))
  BY DEF PrimaryFails, Awaits, At, BulkheadInv, CallsSound, Sound
<1>2. GoesOn(o, Accounted(call[o])) /\ Accounted(call[o]).generation = NoGeneration
  BY <1>1, AccountedForm DEF GoesOn
<1>3. /\ BulkheadInv' /\ Rest(o)
      /\ call'[o].generation = NoGeneration /\ call'[o].outcome # "ok"
  BY <1>1, <1>2, FallsBackKeeps
<1>4. Owns(o)
  BY <1>1 DEF Owns, Owning
<1> QED BY <1>1, <1>3, <1>4 DEF Kept, Heeds, Tells, ReportsFailure, Claims

\* The function fails with a configuration error.
LEMMA PrimaryIsMisconfiguredStep ==
  ASSUME BulkheadInv, NEW o \in Op, PrimaryIsMisconfigured(o)
  PROVE  Kept(o)
<1>1. /\ work[o] = "primary" /\ call[o].at = "attempt" /\ call[o] \in Call /\ call[o].abort = "none"
      /\ call[o].outcome # "ok" /\ ~At(o, "queued") /\ permits' = permits
      /\ Works(o, "none") /\ Becomes(o, Done(call[o], "error")) /\ breaker' = breaker
  BY DEF PrimaryIsMisconfigured, Failed, Awaits, At, BulkheadInv, CallsSound, Sound
<1>2. "error" \in Outcome /\ "error" # "ok" /\ "none" \in {"none", "primary", "fallback"}
  BY DEF Outcome
<1>3. /\ BulkheadInv' /\ Rest(o)
      /\ call'[o].generation = call[o].generation /\ call'[o].outcome = "error"
  BY <1>1, <1>2, SettlesKeeps
<1>4. Owns(o)
  BY <1>1 DEF Owns, Owning
<1> QED BY <1>1, <1>3, <1>4 DEF Kept, Heeds, Tells, Silent, Claims

\* The fallback's function settles in time.
LEMMA FallbackSettlesStep ==
  ASSUME BulkheadInv, NEW o \in Op, NEW out \in {"ok", "error"}, FallbackSettles(o, out)
  PROVE  Kept(o)
<1>1. /\ work[o] = "fallback" /\ call[o].at \in {"attempt", "fallback"} /\ call[o] \in Call
      /\ call[o].abort = "none"
      /\ call[o].outcome # "ok" /\ ~At(o, "queued") /\ permits' = permits
      /\ Works(o, "none") /\ Becomes(o, Done(call[o], out)) /\ breaker' = breaker
  BY DEF FallbackSettles, Awaits, At, BulkheadInv, CallsSound, Sound
<1>2. out \in Outcome /\ "none" \in {"none", "primary", "fallback"}
  BY DEF Outcome
<1>3. /\ BulkheadInv' /\ Rest(o)
      /\ call'[o].generation = call[o].generation /\ call'[o].outcome = out
  BY <1>1, <1>2, SettlesKeeps
<1>4. Owns(o)
  BY <1>1 DEF Owns, Owning
<1>5. call[o].generation = NoGeneration
  BY <1>1 DEF BulkheadInv, CallsSound, Sound
<1> QED BY <1>1, <1>3, <1>4, <1>5 DEF Kept, Heeds, Tells, Silent, Claims

\* Work that outlived its call ends: the permit is freed now, the breaker is not told.
LEMMA LateWorkEndsStep ==
  ASSUME BulkheadInv, NEW o \in Op, LateWorkEnds(o)
  PROVE  Kept(o) /\ Silent(o) /\ call'[o].at = call[o].at
<1>1. /\ work[o] # "none" /\ permits' = permits /\ breaker' = breaker
      /\ Works(o, "none") /\ Becomes(o, call[o])
  BY DEF LateWorkEnds
<1>2. Sound(call[o], "none") /\ ~At(o, "queued") /\ call[o].at # "queued"
  BY <1>1 DEF At, BulkheadInv, CallsSound, Sound
<1>3. BulkheadInv' /\ Altered(o, call[o], "none")
  BY <1>1, <1>2, BecomesKeeps
<1>4. Owns(o)
  BY <1>1 DEF Owns
<1> QED BY <1>1, <1>3, <1>4 DEF Altered, Kept, Heeds, Tells, Silent, Claims

\* The next attempt.
LEMMA RetryDelayEndsStep ==
  ASSUME BulkheadInv, NEW o \in Op, RetryDelayEnds(o)
  PROVE  Kept(o)
<1>1. /\ call[o].at = "delay" /\ call[o] \in Call /\ call[o].holds /\ call[o].abort = "none"
      /\ call[o].attempts < MaxAttempts /\ call[o].outcome # "ok" /\ ~At(o, "queued")
      /\ permits' = permits /\ breaker' = breaker /\ Attempts(o, call[o])
  BY DEF RetryDelayEnds, At, BulkheadInv, CallsSound, Sound
<1>2. GoesOn(o, call[o])
  BY <1>1 DEF GoesOn
<1>3. /\ BulkheadInv' /\ Rest(o)
      /\ call'[o].generation = call[o].generation /\ call'[o].outcome # "ok"
  BY <1>1, <1>2, AttemptsKeeps
<1>4. Owns(o)
  BY <1>1 DEF Owns, Owning
<1> QED BY <1>1, <1>3, <1>4 DEF Kept, Heeds, Tells, Silent, Claims

\* The call's continuation after its abort.
LEMMA UnwindStep ==
  ASSUME BulkheadInv, NEW o \in Op, Unwind(o)
  PROVE  Kept(o)
<1> DEFINE a == Accounted(call[o])
<1>1. /\ call[o] \in Call /\ call[o].abort # "none" /\ permits' = permits /\ work' = work
      /\ work[o] \in {"none", "primary", "fallback"}
      /\ work[o] = "primary" => call[o].holds
      /\ call[o].at \notin {"idle", "done"} /\ call[o].outcome # "ok"
  BY DEF Unwind, BulkheadInv, CallsSound, Sound
<1>2. Works(o, work[o])
  BY <1>1 DEF Works, BulkheadInv, CallsSound
<1>3. /\ a \in Call /\ a.holds = call[o].holds /\ a.generation = NoGeneration
  BY <1>1, AccountedForm
<1>4. "error" \in Outcome /\ "error" # "ok"
  BY DEF Outcome
<1> HIDE DEF a
<1>5. CASE /\ At(o, "queued") /\ breaker' = SlotReturned(breaker, call[o].generation)
           /\ Becomes(o, Failed(Accounted(call[o])))
  <2>1. breaker' = Without(o) /\ Becomes(o, Done(a, "error"))
    BY <1>5 DEF Without, Failed, a
  <2>2. /\ BulkheadInv' /\ Rest(o)
        /\ call'[o].generation = NoGeneration /\ call'[o].outcome = "error" /\ call'[o].at = "done"
    BY <1>1, <1>2, <1>3, <1>4, <2>1, SettlesKeeps
  <2>3. Owns(o)
    BY <1>5 DEF At, Owns, Owning
  <2> QED BY <1>1, <2>1, <2>2, <2>3 DEF Kept, Heeds, Tells, Resigns, Claims
<1>6. CASE /\ call[o].at \in {"attempt", "delay"} /\ Records(o, TRUE)
           /\ Becomes(o, Failed(Accounted(call[o])))
  <2>1. Becomes(o, Done(a, "error"))
    BY <1>6 DEF Failed, a
  <2>2. /\ BulkheadInv' /\ Rest(o)
        /\ call'[o].generation = NoGeneration /\ call'[o].outcome = "error" /\ call'[o].at = "done"
    BY <1>1, <1>2, <1>3, <1>4, <2>1, SettlesKeeps
  <2>3. Owns(o)
    BY <1>6 DEF At, Owns, Owning
  <2> QED BY <1>1, <1>6, <2>2, <2>3 DEF Kept, Heeds, Tells, ReportsFailure, Claims
<1>7. CASE /\ breaker' = breaker /\ Becomes(o, Failed(call[o]))
  <2>1. Becomes(o, Done(call[o], "error"))
    BY <1>7 DEF Failed
  <2>2. /\ BulkheadInv' /\ Rest(o) /\ work' = [work EXCEPT ![o] = work[o]]
        /\ call'[o].generation = call[o].generation /\ call'[o].outcome = "error"
        /\ call'[o].at = "done"
    BY <1>1, <1>2, <1>4, <2>1, SettlesKeeps
  <2>3. Owns(o)' => Owns(o)
    BY <1>1, <2>2 DEF Owns, Owning
  <2> QED BY <1>1, <1>7, <2>2, <2>3 DEF Kept, Heeds, Tells, Silent, Claims
<1> QED BY <1>5, <1>6, <1>7 DEF Unwind

--------------------------------------------------------------------------------
(***************************************************************************)
(* The breaker's counts, the shutdown and the invariant: from the steps of *)
(* the calls follow the theorems about the bulkhead, the coalesced         *)
(* operation and the breaker's probes.                                     *)
(***************************************************************************)

\* The successes of the breaker's present generation.
Succeeded == {o \in Op : call[o].generation = breaker.generation /\ call[o].outcome = "ok"}

\* A shutdown under way after the last call: no call will be admitted any more.
Over == state # "running" /\ Pending = {}

\* No call is ahead of the breaker, which counts its probes and their successes.
BreakerInv ==
    /\ breaker \in Breaker
    /\ Over \/ \A o \in Op : call[o].generation <= breaker.generation
    /\ ProbesAccounted
    /\ breaker.state = "half-open" => breaker.successes = Cardinality(Succeeded)

Lifecycle ==
    /\ state \in {"running", "draining", "closed"} /\ draining \in BOOLEAN
    /\ faults \in 0 .. MaxFaults
    /\ draining => state # "running"

RuntimeInv == BulkheadInv /\ BreakerInv /\ OwnersSound /\ Lifecycle

--------------------------------------------------------------------------------
(* What a step tells the breaker leaves it with an exact count.            *)

\* A result of another generation changes nothing; one of a half-open breaker's own
\* generation gives its slot back, and reopens the breaker or brings it nearer to closing.
LEMMA RecordedForm ==
  ASSUME NEW b \in Breaker, NEW g \in Int, NEW failed \in BOOLEAN,
         NEW recent \in 0 .. b.failures, NEW dense \in BOOLEAN
  PROVE  LET r == Recorded(b, g, failed, recent, dense)
         IN /\ r \in Breaker /\ r.generation >= b.generation
            /\ r.state = "half-open" =>
                 /\ b.state = "half-open" /\ r.generation = b.generation
                 /\ g # b.generation => r = b
                 /\ g = b.generation =>
                      /\ ~failed /\ r.inFlight = OneLess(b.inFlight)
                      /\ r.successes = b.successes + 1
            /\ b.state = "half-open" /\ r.state = "closed" =>
                 g = b.generation /\ ~failed /\ b.successes + 1 >= HalfOpenMax
<1> DEFINE r == Recorded(b, g, failed, recent, dense)
           q == [b EXCEPT !.inFlight = OneLess(@)]
           p == [b EXCEPT !.inFlight = OneLess(@), !.successes = @ + 1]
<1>1. /\ b.generation \in Nat /\ b.inFlight \in Nat /\ b.successes \in 0 .. HalfOpenMax
      /\ b.failures \in 0 .. FailureCount /\ HalfOpenMax \in Nat \ {0}
      /\ FailureCount \in Nat \ {0} /\ OneLess(b.inFlight) \in 0 .. HalfOpenMax
      /\ b.state \in {"closed", "open", "half-open"}
  BY ResilienceConstants DEF Breaker, OneLess
<1>2. ASSUME NEW x \in Breaker
      PROVE  /\ Opened(x) \in Breaker /\ Opened(x).state = "open"
             /\ Opened(x).generation = x.generation + 1
             /\ Reclosed(x) \in Breaker /\ Reclosed(x).state = "closed"
             /\ Reclosed(x).generation = x.generation + 1
  <2>1. x.generation + 1 \in Nat /\ 0 \in 0 .. HalfOpenMax /\ 0 \in 0 .. FailureCount
    BY <1>1 DEF Breaker
  <2>2. /\ Reclosed(x) \in Breaker /\ Reclosed(x).state = "closed"
        /\ Reclosed(x).generation = x.generation + 1
    BY <2>1 DEF Reclosed, ClosedBreaker, Breaker
  <2> DEFINE x1 == [x EXCEPT !.state = "open"]
             x2 == [x1 EXCEPT !.generation = x.generation + 1]
             x3 == [x2 EXCEPT !.successes = 0]
             x4 == [x3 EXCEPT !.failures = 0]
  <2>3. x1 \in Breaker /\ x1.state = "open"
    BY DEF Breaker
  <2> HIDE DEF x1
  <2>4. x2 \in Breaker /\ x2.state = "open" /\ x2.generation = x.generation + 1
    BY <2>1, <2>3 DEF Breaker
  <2> HIDE DEF x2
  <2>5. x3 \in Breaker /\ x3.state = "open" /\ x3.generation = x.generation + 1
    BY <2>1, <2>4 DEF Breaker
  <2> HIDE DEF x3
  <2>6. x4 \in Breaker /\ x4.state = "open" /\ x4.generation = x.generation + 1
    BY <2>1, <2>5 DEF Breaker
  <2> HIDE DEF x4
  <2>7. Opened(x) = [x4 EXCEPT !.cooled = FALSE]
    BY DEF Opened, x1, x2, x3, x4, Breaker
  <2>8. [x4 EXCEPT !.cooled = FALSE] \in Breaker
    BY <2>6 DEF Breaker
  <2>9. /\ [x4 EXCEPT !.cooled = FALSE].state = "open"
        /\ [x4 EXCEPT !.cooled = FALSE].generation = x.generation + 1
    BY <2>6 DEF Breaker
  <2> QED BY <2>2, <2>7, <2>8, <2>9
<1>3. q \in Breaker /\ q.generation = b.generation
  BY <1>1 DEF Breaker
<1>4. CASE ~Counts(b, g)
  <2>1. r = b
    BY <1>4 DEF Recorded
  <2>2. g # b.generation \/ b.state = "open"
    BY <1>4 DEF Counts
  <2> QED BY <1>1, <2>1, <2>2
<1>5. CASE Counts(b, g) /\ b.state = "half-open" /\ failed
  <2>1. r = Opened(q)
    BY <1>5 DEF Recorded
  <2> HIDE DEF q
  <2> QED BY <1>1, <1>2, <1>3, <2>1
<1>6. CASE Counts(b, g) /\ b.state = "half-open" /\ ~failed
  <2>1. /\ p.successes = b.successes + 1 /\ p.generation = b.generation
        /\ p.inFlight = OneLess(b.inFlight) /\ p.state = "half-open"
    BY <1>6 DEF Breaker
  <2>2. r = IF p.successes >= HalfOpenMax THEN Reclosed(p) ELSE p
    BY <1>6 DEF Recorded
  <2>3. CASE b.successes + 1 >= HalfOpenMax
    <3>1. Reclosed(p) = Reclosed(b)
      BY <2>1 DEF Reclosed
    <3> HIDE DEF p
    <3> QED BY <1>1, <1>2, <1>6, <2>1, <2>2, <2>3, <3>1 DEF Counts
  <2>4. CASE ~(b.successes + 1 >= HalfOpenMax)
    <3>1. b.successes + 1 \in 0 .. HalfOpenMax
      BY <1>1, <2>4
    <3>2. [q EXCEPT !.successes = b.successes + 1] \in Breaker
      BY <1>3, <3>1 DEF Breaker
    <3>3. p = [q EXCEPT !.successes = b.successes + 1]
      BY DEF Breaker
    <3> HIDE DEF p, q
    <3> QED BY <1>1, <1>6, <2>1, <2>2, <2>4, <3>2, <3>3 DEF Counts
  <2> QED BY <2>3, <2>4
<1>7. CASE Counts(b, g) /\ b.state # "half-open"
  <2> DEFINE now == recent + (IF failed THEN 1 ELSE 0)
  <2>1. b.state = "closed" /\ b.generation = g
    BY <1>1, <1>7 DEF Counts
  <2>2. now \in Nat
    BY <1>1
  <2> HIDE DEF now
  <2>3. ASSUME NEW n \in 0 .. FailureCount
        PROVE  LET f == [b EXCEPT !.failures = n]
               IN f \in Breaker /\ f.state = "closed" /\ f.generation = b.generation
    BY <2>1 DEF Breaker
  <2>4. \/ r = Opened(b)
        \/ \E n \in 0 .. FailureCount : r = [b EXCEPT !.failures = n]
    <3>1. CASE now < FailureCount
      BY <1>1, <1>7, <2>2, <3>1 DEF Recorded, now
    <3>2. CASE ~(now < FailureCount)
      BY <1>1, <1>7, <3>2 DEF Recorded, now
    <3> QED BY <3>1, <3>2
  <2>5. r \in Breaker /\ r.generation >= b.generation /\ r.state # "half-open"
    <3>1. CASE r = Opened(b)
      BY <1>1, <1>2, <3>1
    <3>2. CASE r # Opened(b)
      <4>1. PICK n \in 0 .. FailureCount : r = [b EXCEPT !.failures = n]
        BY <2>4, <3>2
      <4>2. /\ [b EXCEPT !.failures = n] \in Breaker
            /\ [b EXCEPT !.failures = n].state = "closed"
            /\ [b EXCEPT !.failures = n].generation = b.generation
        BY <2>3
      <4> QED BY <1>1, <4>1, <4>2
    <3> QED BY <3>1, <3>2
  <2> QED BY <2>1, <2>5
<1> QED BY <1>4, <1>5, <1>6, <1>7

\* The breaker without an admission: only a probe's slot of a half-open breaker matters.
LEMMA WithoutForm ==
  ASSUME breaker \in Breaker, NEW o \in Op, call[o].generation \in Int
  PROVE  /\ Without(o) \in Breaker
         /\ breaker.state # "half-open" => Without(o) = breaker
         /\ breaker.state = "half-open" =>
              /\ Without(o).state = "half-open"
              /\ Without(o).generation = breaker.generation
              /\ Without(o).successes = breaker.successes
              /\ Without(o).inFlight = IF call[o].generation = breaker.generation
                                       THEN OneLess(breaker.inFlight) ELSE breaker.inFlight
<1>1. Without(o) \in Breaker
  BY ProbingKeeps DEF Without
<1> QED BY <1>1 DEF Without, SlotReturned, Breaker

\* An open breaker that is found half-open starts a generation of its own.
LEMMA ProbingForm ==
  ASSUME NEW b \in Breaker
  PROVE  /\ \/ Probing(b) = b
            \/ /\ b.state = "open" /\ Probing(b).state = "half-open"
               /\ Probing(b).generation = b.generation + 1
               /\ Probing(b).inFlight = 0 /\ Probing(b).successes = 0
         /\ AfterAdmission(b).state = Probing(b).state
         /\ AfterAdmission(b).generation = Probing(b).generation
         /\ AfterAdmission(b).successes = Probing(b).successes
         /\ Probing(b).state = "half-open" =>
              AfterAdmission(b).inFlight = Probing(b).inFlight + 1
<1> DEFINE p == Probing(b)
           a == [p EXCEPT !.inFlight = @ + 1]
           h == [b EXCEPT !.state = "half-open", !.generation = @ + 1, !.inFlight = 0,
                          !.successes = 0, !.cooled = FALSE]
<1>1. p \in Breaker
  BY ProbingKeeps
<1>2. p = b \/ (b.state = "open" /\ p = h)
  BY DEF Probing
<1>3. /\ h.state = "half-open" /\ h.generation = b.generation + 1
      /\ h.inFlight = 0 /\ h.successes = 0
  BY DEF Breaker
<1>4. /\ a.state = p.state /\ a.generation = p.generation /\ a.successes = p.successes
      /\ a.inFlight = p.inFlight + 1
  <2> HIDE DEF p
  <2> QED BY <1>1 DEF Breaker
<1>5. AfterAdmission(b) = IF p.state = "half-open" THEN a ELSE p
  BY DEF AfterAdmission
<1> HIDE DEF p, a, h
<1>6. \/ p = b
      \/ b.state = "open" /\ p.state = "half-open" /\ p.generation = b.generation + 1
         /\ p.inFlight = 0 /\ p.successes = 0
  BY <1>2, <1>3
<1>7. /\ AfterAdmission(b).state = p.state /\ AfterAdmission(b).generation = p.generation
      /\ AfterAdmission(b).successes = p.successes
      /\ p.state = "half-open" => AfterAdmission(b).inFlight = p.inFlight + 1
  BY <1>4, <1>5
<1> QED BY <1>6, <1>7 DEF p

\* The calls admitted in generation g that have succeeded, and those that have not.
Ok(g) == {p \in Op : call[p].generation = g /\ call[p].outcome = "ok"}
Open(g) == {p \in Op : call[p].generation = g /\ call[p].outcome # "ok"}

\* Only o enters or leaves these sets in a step of o.
LEMMA CountsAfter ==
  ASSUME NEW o \in Op, Rest(o), NEW g
  PROVE  /\ Open(g)' = IF call'[o].generation = g /\ call'[o].outcome # "ok"
                       THEN Open(g) \cup {o} ELSE Open(g) \ {o}
         /\ Ok(g)' = IF call'[o].generation = g /\ call'[o].outcome = "ok"
                     THEN Ok(g) \cup {o} ELSE Ok(g) \ {o}
         /\ IsFiniteSet(Open(g)) /\ Cardinality(Open(g)) \in Nat
         /\ IsFiniteSet(Ok(g)) /\ Cardinality(Ok(g)) \in Nat
         /\ \A S \in {Open(g), Ok(g)} :
              /\ IF o \in S THEN S \cup {o} = S ELSE S \ {o} = S
              /\ Cardinality(S \cup {o}) = IF o \in S THEN Cardinality(S) ELSE Cardinality(S) + 1
              /\ Cardinality(S \ {o}) = IF o \in S THEN Cardinality(S) - 1 ELSE Cardinality(S)
<1>1. IsFiniteSet(Open(g)) /\ Cardinality(Open(g)) \in Nat
  BY CallSets DEF Open
<1>2. IsFiniteSet(Ok(g)) /\ Cardinality(Ok(g)) \in Nat
  BY CallSets DEF Ok
<1>3. \A p \in Op \ {o} : /\ call'[p].generation = call[p].generation
                          /\ call'[p].outcome = call[p].outcome
  BY DEF Rest
<1>4. ASSUME NEW S, IsFiniteSet(S), Cardinality(S) \in Nat
      PROVE  /\ IF o \in S THEN S \cup {o} = S ELSE S \ {o} = S
             /\ Cardinality(S \cup {o}) = IF o \in S THEN Cardinality(S) ELSE Cardinality(S) + 1
             /\ Cardinality(S \ {o}) = IF o \in S THEN Cardinality(S) - 1 ELSE Cardinality(S)
  <2>1. CASE o \in S
    <3>1. S \cup {o} = S
      BY <2>1
    <3>2. Cardinality(S \ {o}) = Cardinality(S) - 1
      BY <1>4, <2>1, FS_RemoveElement
    <3> QED BY <2>1, <3>1, <3>2
  <2>2. CASE o \notin S
    <3>1. S \ {o} = S
      BY <2>2
    <3>2. Cardinality(S \cup {o}) = Cardinality(S) + 1
      BY <1>4, <2>2, FS_AddElement
    <3> QED BY <2>2, <3>1, <3>2
  <2> QED BY <2>1, <2>2
<1>5. Open(g)' = IF call'[o].generation = g /\ call'[o].outcome # "ok"
                 THEN Open(g) \cup {o} ELSE Open(g) \ {o}
  BY <1>3 DEF Open
<1>6. Ok(g)' = IF call'[o].generation = g /\ call'[o].outcome = "ok"
               THEN Ok(g) \cup {o} ELSE Ok(g) \ {o}
  BY <1>3 DEF Ok
<1> QED BY <1>1, <1>2, <1>4, <1>5, <1>6

\* A half-open breaker's counts.
Counted(b, open, ok) ==
    b.state = "half-open" => b.inFlight = Cardinality(open) /\ b.successes = Cardinality(ok)

\* A breaker that was half-open closes.
Earned ==
    (breaker.state = "half-open" /\ breaker'.state = "closed" /\ ~draining) =>
      Cardinality({o \in Op : /\ call'[o].generation = breaker.generation
                              /\ call'[o].outcome = "ok"}) >= HalfOpenMax

\* Whatever a step of a call tells it, the breaker goes on counting exactly, and closes only
\* when it has earned it.
LEMMA BreakerStep ==
  ASSUME BulkheadInv, BreakerInv, NEW o \in Op, Rest(o), Tells(o), Silent(o) \/ ~Over,
         Over => Over'
  PROVE  BreakerInv' /\ Earned
<1> DEFINE g == call[o].generation
<1>1. /\ breaker \in Breaker /\ g \in Int /\ breaker.generation \in Nat
      /\ breaker.inFlight \in Nat /\ breaker.successes \in Nat
      /\ call \in [Op -> Call]
  BY ResilienceConstants DEF BreakerInv, Breaker, BulkheadInv, CallsSound, Call
<1>2. PICK n \in Nat : n = breaker.generation
  BY <1>1
<1>3. Counted(breaker, Open(n), Ok(n))
  BY <1>2 DEF BreakerInv, ProbesAccounted, Probes, Succeeded, Counted, Open, Ok
<1>4. \A k \in Nat :
        /\ Open(k)' = IF call'[o].generation = k /\ call'[o].outcome # "ok"
                      THEN Open(k) \cup {o} ELSE Open(k) \ {o}
        /\ Ok(k)' = IF call'[o].generation = k /\ call'[o].outcome = "ok"
                    THEN Ok(k) \cup {o} ELSE Ok(k) \ {o}
        /\ Cardinality(Open(k)) \in Nat /\ Cardinality(Ok(k)) \in Nat
        /\ \A S \in {Open(k), Ok(k)} :
             /\ IF o \in S THEN S \cup {o} = S ELSE S \ {o} = S
             /\ Cardinality(S \cup {o}) = IF o \in S THEN Cardinality(S) ELSE Cardinality(S) + 1
             /\ Cardinality(S \ {o}) = IF o \in S THEN Cardinality(S) - 1 ELSE Cardinality(S)
  BY CountsAfter
<1>5. \A k \in Nat : /\ o \in Open(k) <=> g = k /\ call[o].outcome # "ok"
                     /\ o \in Ok(k) <=> g = k /\ call[o].outcome = "ok"
  BY DEF Open, Ok
\* A generation ahead of all the calls has neither probes nor successes.
<1>6. ASSUME ~Over, NEW k \in Nat, k > n
      PROVE  Open(k) = {} /\ Ok(k) = {}
  <2>1. \A p \in Op : call[p].generation \in Int /\ call[p].generation <= n
    BY <1>1, <1>2, <1>6 DEF BreakerInv, Call
  <2>2. \A p \in Op : call[p].generation # k
    BY <1>6, <2>1
  <2> QED BY <2>2 DEF Open, Ok
\* It is enough that the breaker is typed and counts, and that nobody is ahead of it.
<1>7. ASSUME breaker' \in Breaker, NEW m \in Nat, m = breaker'.generation,
             Counted(breaker', Open(m)', Ok(m)'), n <= m,
             Over \/ call'[o].generation <= m
      PROVE  BreakerInv'
  <2>1. Over' \/ \A p \in Op : call'[p].generation <= breaker'.generation
    <3>1. CASE Over
      BY <3>1
    <3>2. CASE ~Over
      <4>1. ASSUME NEW p \in Op PROVE call'[p].generation <= m
        <5>1. CASE p = o
          BY <1>7, <3>2, <5>1
        <5>2. CASE p # o
          <6>1. /\ call'[p].generation = call[p].generation /\ call[p].generation \in Int
                /\ call[p].generation <= n
            BY <1>1, <1>2, <3>2, <5>2 DEF Rest, BreakerInv, Call
          <6> QED BY <1>2, <1>7, <6>1
        <5> QED BY <5>1, <5>2
      <4> QED BY <1>7, <4>1
    <3> QED BY <3>1, <3>2
  <2>2. /\ ProbesAccounted'
        /\ (breaker.state = "half-open" => breaker.successes = Cardinality(Succeeded))'
    BY <1>7 DEF ProbesAccounted, Probes, Succeeded, Counted, Open, Ok
  <2> QED BY <1>7, <2>1, <2>2 DEF BreakerInv
<1>8. CASE Silent(o)
  <2>1. /\ breaker' = breaker /\ call'[o].generation = g
        /\ call'[o].outcome = "ok" => call[o].outcome = "ok" \/ g = NoGeneration
        /\ call[o].outcome = "ok" => call'[o].outcome = "ok"
    BY <1>8 DEF Silent
  <2>2. NoGeneration # n
    BY DEF NoGeneration
  <2>3. Open(n)' = Open(n) /\ Ok(n)' = Ok(n)
    <3>1. /\ o \in Open(n) <=> call'[o].generation = n /\ call'[o].outcome # "ok"
          /\ o \in Ok(n) <=> call'[o].generation = n /\ call'[o].outcome = "ok"
      BY <1>5, <2>1, <2>2
    <3> QED BY <1>4, <3>1
  <2>4. Over \/ call'[o].generation <= n
    BY <1>1, <1>2, <2>1 DEF BreakerInv
  <2>5. Counted(breaker', Open(n)', Ok(n)') /\ n <= n /\ n = breaker'.generation
    BY <1>2, <1>3, <2>1, <2>3
  <2>6. BreakerInv'
    BY <1>1, <1>7, <2>1, <2>4, <2>5
  <2> QED BY <2>1, <2>6 DEF Earned
<1>9. CASE ~Over /\ (ReportsSuccess(o) \/ ReportsFailure(o))
  <2>1. PICK failed \in BOOLEAN, recent \in 0 .. breaker.failures, dense \in BOOLEAN :
          /\ breaker' = Recorded(breaker, g, failed, recent, dense)
          /\ call[o].outcome # "ok"
          /\ failed => call'[o].generation = NoGeneration /\ call'[o].outcome # "ok"
          /\ ~failed => call'[o].generation = g /\ call'[o].outcome = "ok"
    <3>1. CASE ReportsSuccess(o)
      <4>1. PICK recent \in 0 .. breaker.failures, dense \in BOOLEAN :
              breaker' = Recorded(breaker, g, FALSE, recent, dense)
        BY <3>1 DEF ReportsSuccess, Records
      <4> QED BY <3>1, <4>1 DEF ReportsSuccess
    <3>2. CASE ReportsFailure(o)
      <4>1. PICK recent \in 0 .. breaker.failures, dense \in BOOLEAN :
              breaker' = Recorded(breaker, g, TRUE, recent, dense)
        BY <3>2 DEF ReportsFailure, Records
      <4> QED BY <3>2, <4>1 DEF ReportsFailure
    <3> QED BY <1>9, <3>1, <3>2
  <2>2. /\ breaker' \in Breaker /\ breaker'.generation >= n
        /\ breaker'.state = "half-open" =>
             /\ breaker.state = "half-open" /\ breaker'.generation = n
             /\ g # n => breaker' = breaker
             /\ g = n => /\ ~failed /\ breaker'.inFlight = OneLess(breaker.inFlight)
                         /\ breaker'.successes = breaker.successes + 1
        /\ breaker.state = "half-open" /\ breaker'.state = "closed" =>
             g = n /\ ~failed /\ breaker.successes + 1 >= HalfOpenMax
    BY <1>1, <1>2, <2>1, RecordedForm
  <2>3. PICK m \in Nat : m = breaker'.generation
    BY <2>2 DEF Breaker
  <2>4. n <= m /\ call'[o].generation <= m
    <3>1. g <= n
      BY <1>2, <1>9 DEF BreakerInv
    <3>2. n <= m
      BY <2>2, <2>3
    <3>3. NoGeneration <= m
      BY DEF NoGeneration
    <3> QED BY <1>1, <2>1, <3>1, <3>2, <3>3
  <2>5. NoGeneration # n
    BY DEF NoGeneration
  <2>6. CASE g = n
    <3>1. o \in Open(n) /\ o \notin Ok(n) /\ Cardinality(Open(n)) >= 1
      <4>1. o \in Open(n) /\ o \notin Ok(n)
        BY <1>5, <2>1, <2>6
      <4>2. Cardinality(Open(n) \cup {o}) = Cardinality(Open(n)) /\ Open(n) \cup {o} # {}
        BY <1>4, <4>1
      <4>3. IsFiniteSet(Open(n)) /\ Open(n) # {}
        BY <4>1, CallSets DEF Open
      <4>4. Cardinality(Open(n)) # 0 /\ Cardinality(Open(n)) \in Nat
        BY <1>4, <4>3, FS_EmptySet
      <4> QED BY <4>1, <4>4
    <3>2. ASSUME ~failed
          PROVE  /\ Open(n)' = Open(n) \ {o} /\ Ok(n)' = Ok(n) \cup {o}
                 /\ Cardinality(Open(n)') = Cardinality(Open(n)) - 1
                 /\ Cardinality(Ok(n)') = Cardinality(Ok(n)) + 1
      <4>1. Open(n)' = Open(n) \ {o} /\ Ok(n)' = Ok(n) \cup {o}
        BY <1>4, <2>1, <2>6, <3>2
      <4> QED BY <1>4, <3>1, <4>1
    <3>3. Counted(breaker', Open(m)', Ok(m)')
      <4>1. SUFFICES ASSUME breaker'.state = "half-open"
                     PROVE  /\ breaker'.inFlight = Cardinality(Open(m)')
                            /\ breaker'.successes = Cardinality(Ok(m)')
        BY DEF Counted
      <4>2. /\ m = n /\ ~failed /\ breaker'.inFlight = OneLess(breaker.inFlight)
            /\ breaker'.successes = breaker.successes + 1
            /\ breaker.inFlight = Cardinality(Open(n)) /\ breaker.successes = Cardinality(Ok(n))
        BY <1>3, <2>2, <2>3, <2>6, <4>1 DEF Counted
      <4>3. OneLess(breaker.inFlight) = Cardinality(Open(n)) - 1
        <5> DEFINE k == Cardinality(Open(n))
        <5>1. k >= 1 /\ breaker.inFlight = k
          BY <3>1, <4>2
        <5>2. k \in Nat
          BY <1>4
        <5> HIDE DEF k
        <5>3. breaker.inFlight > 0
          BY <5>1, <5>2
        <5> QED BY <5>1, <5>3 DEF OneLess, k
      <4> QED BY <3>2, <4>2, <4>3
    <3>4. BreakerInv'
      BY <1>7, <2>2, <2>3, <2>4, <3>3
    <3>5. Earned
      <4>1. SUFFICES ASSUME breaker.state = "half-open", breaker'.state = "closed"
                     PROVE  Cardinality(Ok(n)') >= HalfOpenMax
        BY <1>2 DEF Earned, Ok
      <4>2. ~failed /\ breaker.successes + 1 >= HalfOpenMax
            /\ breaker.successes = Cardinality(Ok(n))
        BY <1>3, <2>2, <4>1 DEF Counted
      <4> QED BY <3>2, <4>2
    <3> QED BY <3>4, <3>5
  <2>7. CASE g # n
    <3>1. o \notin Open(n) /\ o \notin Ok(n)
      BY <1>5, <2>7
    <3>2. Open(n)' = Open(n) /\ Ok(n)' = Ok(n)
      <4>1. call'[o].generation # n
        BY <2>1, <2>5, <2>7
      <4>2. Open(n)' = Open(n) \ {o} /\ Ok(n)' = Ok(n) \ {o}
        BY <1>4, <4>1
      <4> QED BY <1>4, <3>1, <4>2
    <3>3. Counted(breaker', Open(m)', Ok(m)')
      <4>1. CASE breaker'.state = "half-open"
        <5>1. m = n /\ breaker' = breaker
          BY <2>2, <2>3, <2>7, <4>1
        <5> QED BY <1>3, <3>2, <5>1
      <4>2. CASE breaker'.state # "half-open"
        BY <4>2 DEF Counted
      <4> QED BY <4>1, <4>2
    <3>4. BreakerInv'
      BY <1>7, <2>2, <2>3, <2>4, <3>3
    <3>5. Earned
      BY <2>2, <2>7 DEF Earned
    <3> QED BY <3>4, <3>5
  <2> QED BY <2>6, <2>7
<1>10. CASE ~Over /\ (Resigns(o) \/ Enters(o))
  <2> DEFINE W == Without(o)
  <2>1. /\ W \in Breaker
        /\ breaker.state # "half-open" => W = breaker
        /\ breaker.state = "half-open" =>
             /\ W.state = "half-open" /\ W.generation = n /\ W.successes = breaker.successes
             /\ W.inFlight = IF g = n THEN OneLess(breaker.inFlight) ELSE breaker.inFlight
    BY <1>1, <1>2, WithoutForm
  <2>2. call[o].outcome # "ok" /\ call'[o].outcome # "ok"
    BY <1>10 DEF Resigns, Enters
  <2> HIDE DEF W
  <2>3. /\ Probing(W) \in Breaker /\ (Admits(W) => AfterAdmission(W) \in Breaker)
        /\ \/ Probing(W) = W
           \/ /\ W.state = "open" /\ Probing(W).state = "half-open"
              /\ Probing(W).generation = W.generation + 1
              /\ Probing(W).inFlight = 0 /\ Probing(W).successes = 0
        /\ AfterAdmission(W).state = Probing(W).state
        /\ AfterAdmission(W).generation = Probing(W).generation
        /\ AfterAdmission(W).successes = Probing(W).successes
        /\ Probing(W).state = "half-open" =>
             AfterAdmission(W).inFlight = Probing(W).inFlight + 1
    BY <2>1, ProbingForm, ProbingKeeps
  <2>4. W.generation = n /\ W.inFlight \in Nat
    BY <1>2, <2>1 DEF Breaker
  <2>5. g <= n
    BY <1>2, <1>10 DEF BreakerInv
  \* The slots of the others, and the successes, before the call resigns or enters anew.
  <2>6. ASSUME W.state = "half-open"
        PROVE  /\ breaker.state = "half-open"
               /\ W.inFlight = Cardinality(Open(n) \ {o}) /\ W.successes = Cardinality(Ok(n))
    <3>1. breaker.state = "half-open"
      BY <2>1, <2>6
    <3>2. breaker.inFlight = Cardinality(Open(n)) /\ breaker.successes = Cardinality(Ok(n))
      BY <1>3, <3>1 DEF Counted
    <3>3. CASE g = n
      <4>1. o \in Open(n)
        BY <1>5, <2>2, <3>3
      <4>2. Cardinality(Open(n) \ {o}) = Cardinality(Open(n)) - 1
        BY <1>4, <4>1
      <4>3. IsFiniteSet(Open(n)) /\ Open(n) # {}
        BY <4>1, CallSets DEF Open
      <4>4. Cardinality(Open(n)) # 0 /\ Cardinality(Open(n)) \in Nat
        BY <1>4, <4>3, FS_EmptySet
      <4>5. OneLess(breaker.inFlight) = Cardinality(Open(n)) - 1
        BY <3>2, <4>4 DEF OneLess
      <4> QED BY <2>1, <3>1, <3>2, <3>3, <4>2, <4>5
    <3>4. CASE g # n
      <4>1. o \notin Open(n)
        BY <1>5, <3>4
      <4> QED BY <1>4, <2>1, <3>1, <3>2, <3>4, <4>1
    <3> QED BY <3>1, <3>3, <3>4
  <2>7. Earned
    <3>1. SUFFICES ASSUME breaker.state = "half-open" PROVE breaker'.state = "half-open"
      BY DEF Earned
    <3>2. W.state = "half-open" /\ Probing(W) = W
      BY <2>1, <2>3, <3>1
    <3> QED BY <1>10, <2>3, <3>2 DEF Resigns, Enters, W
  <2>8. NoGeneration # n /\ NoGeneration # n + 1 /\ NoGeneration <= n /\ NoGeneration <= n + 1
    BY DEF NoGeneration
  <2>9. ASSUME breaker' = W, call'[o].generation = NoGeneration
        PROVE  BreakerInv'
    <3>1. Open(n)' = Open(n) \ {o} /\ Ok(n)' = Ok(n)
      <4>1. o \notin Ok(n)
        BY <1>5, <2>2
      <4>2. /\ Open(n)' = Open(n) \ {o} /\ Ok(n)' = Ok(n) \ {o}
        BY <1>4, <2>2, <2>8, <2>9
      <4> QED BY <1>4, <4>1, <4>2
    <3>2. Counted(breaker', Open(n)', Ok(n)')
      BY <2>6, <2>9, <3>1 DEF Counted
    <3> QED BY <1>7, <2>1, <2>4, <2>8, <2>9, <3>2
  <2>10. ASSUME breaker' = Probing(W), Probing(W) # W, call'[o].generation = NoGeneration
         PROVE  BreakerInv'
    <3>1. Open(n + 1)' = {} /\ Ok(n + 1)' = {}
      <4>1. n + 1 \in Nat /\ n + 1 > n
        OBVIOUS
      <4>2. Open(n + 1) = {} /\ Ok(n + 1) = {}
        BY <1>6, <1>10, <4>1
      <4> QED BY <1>4, <2>2, <2>8, <2>10, <4>1, <4>2
    <3>2. /\ breaker'.generation = n + 1 /\ breaker'.inFlight = 0 /\ breaker'.successes = 0
      BY <2>3, <2>4, <2>10
    <3>3. Counted(breaker', Open(n + 1)', Ok(n + 1)')
      BY <3>1, <3>2, FS_EmptySet DEF Counted
    <3>4. n + 1 \in Nat /\ n <= n + 1 /\ call'[o].generation <= n + 1
      BY <2>8, <2>10
    <3> QED BY <1>7, <2>3, <2>10, <3>2, <3>3, <3>4
  <2>11. ASSUME Admits(W), breaker' = AfterAdmission(W), Probing(W) = W,
                call'[o].generation = W.generation
         PROVE  BreakerInv'
    <3>1. Open(n)' = Open(n) \cup {o} /\ Ok(n)' = Ok(n)
      <4>1. o \notin Ok(n)
        BY <1>5, <2>2
      <4>2. /\ Open(n)' = Open(n) \cup {o} /\ Ok(n)' = Ok(n) \ {o}
        BY <1>4, <2>2, <2>4, <2>11
      <4> QED BY <1>4, <4>1, <4>2
    <3>2. Cardinality(Open(n)') = Cardinality(Open(n) \ {o}) + 1
      <4>1. /\ Cardinality(Open(n)) \in Nat
            /\ Cardinality(Open(n) \cup {o}) =
                 IF o \in Open(n) THEN Cardinality(Open(n)) ELSE Cardinality(Open(n)) + 1
            /\ Cardinality(Open(n) \ {o}) =
                 IF o \in Open(n) THEN Cardinality(Open(n)) - 1 ELSE Cardinality(Open(n))
        BY <1>4
      <4> QED BY <3>1, <4>1
    <3>3. Counted(breaker', Open(n)', Ok(n)')
      BY <2>3, <2>6, <2>11, <3>1, <3>2 DEF Counted
    <3>4. breaker'.generation = n /\ n <= n /\ call'[o].generation <= n
      BY <2>3, <2>4, <2>11
    <3> QED BY <1>7, <2>3, <2>11, <3>3, <3>4
  <2>12. ASSUME Admits(W), breaker' = AfterAdmission(W), Probing(W) # W,
                call'[o].generation = Probing(W).generation
         PROVE  BreakerInv'
    <3>1. n + 1 \in Nat /\ n + 1 > n /\ n <= n + 1
      OBVIOUS
    <3>2. /\ breaker'.generation = n + 1 /\ breaker'.inFlight = 1 /\ breaker'.successes = 0
          /\ call'[o].generation = n + 1
      BY <2>3, <2>4, <2>12
    <3>3. Open(n + 1) = {} /\ Ok(n + 1) = {}
      BY <1>6, <1>10, <3>1
    <3>4. Open(n + 1)' = {o} /\ Ok(n + 1)' = {}
      BY <1>4, <2>2, <3>1, <3>2, <3>3
    <3>5. Cardinality({o}) = 1 /\ Cardinality({}) = 0
      BY FS_EmptySet, FS_Singleton
    <3>6. Counted(breaker', Open(n + 1)', Ok(n + 1)')
      BY <3>2, <3>4, <3>5 DEF Counted
    <3> QED BY <1>7, <2>3, <2>12, <3>1, <3>2, <3>6
  <2>13. BreakerInv'
    <3>1. CASE Resigns(o)
      <4>1. breaker' \in {W, Probing(W)} /\ call'[o].generation = NoGeneration
        BY <3>1 DEF Resigns, W
      <4> QED BY <2>9, <2>10, <4>1
    <3>2. CASE Enters(o)
      <4>1. /\ Admits(W) /\ breaker' = AfterAdmission(W)
            /\ call'[o].generation = Probing(W).generation
        BY <3>2 DEF Enters, W
      <4> QED BY <2>11, <2>12, <4>1
    <3> QED BY <1>10, <3>1, <3>2
  <2> QED BY <2>7, <2>13
<1> QED BY <1>8, <1>9, <1>10 DEF Tells

--------------------------------------------------------------------------------
(* The invariant.                                                          *)

\* A step of one call: it begins only while the runtime runs, and talks to the breaker only
\* while it is on its way.
CallStep(o) ==
    /\ Kept(o) /\ UNCHANGED <<state, draining, faults>>
    /\ entry' = entry \/ (entry = NoOp /\ o \in Keyed /\ entry' = o)
    /\ call[o].at = "idle" => state = "running"
    /\ ~Over \/ (Silent(o) /\ call'[o].at = call[o].at)

\* It keeps the invariant.
LEMMA StepOfCall ==
  ASSUME RuntimeInv, NEW o \in Op, CallStep(o)
  PROVE  RuntimeInv' /\ Earned
<1> USE DEF CallStep
<1>1. BulkheadInv' /\ Rest(o) /\ Tells(o) /\ Claims(o)
  BY DEF Kept
<1>2. BreakerInv' /\ Earned
  <2>1. ASSUME Over PROVE Over'
    <3>1. call'[o].at = call[o].at /\ state' # "running"
      BY <2>1 DEF Over
    <3>2. \A p \in Op : call[p].at \in {"idle", "done"}
      BY <2>1 DEF Over, Pending
    <3>3. \A p \in Op : call'[p].at \in {"idle", "done"}
      BY <1>1, <3>1, <3>2 DEF Rest
    <3> QED BY <3>1, <3>3 DEF Over, Pending
  <2> QED BY <1>1, <2>1, BreakerStep DEF RuntimeInv
<1>3. OwnersSound'
  <2>1. ASSUME NEW q \in Keyed, Owns(q)' PROVE entry' = q
    <3>1. q \in Op /\ q # NoOp
      BY ResilienceConstants
    <3>2. CASE q # o
      <4>1. Owns(q)
        BY <1>1, <2>1, <3>1, <3>2 DEF Rest, Owns, Owning
      <4> QED BY <3>1, <4>1 DEF RuntimeInv, OwnersSound
    <3>3. CASE q = o
      BY <1>1, <2>1, <3>1, <3>3 DEF Claims, RuntimeInv, OwnersSound
    <3> QED BY <3>2, <3>3
  <2> QED BY <2>1 DEF RuntimeInv, OwnersSound
<1>4. Lifecycle'
  BY DEF RuntimeInv, Lifecycle
<1> QED BY <1>1, <1>2, <1>3, <1>4 DEF RuntimeInv

\* The initial states.
LEMMA InitInv == Init => RuntimeInv
<1> SUFFICES ASSUME Init PROVE RuntimeInv
  OBVIOUS
<1>1. FreshCall \in Call
  BY ResilienceConstants DEF FreshCall, Call, Phase, Outcome, NoGeneration
<1>2. \A o \in Op : call[o] = FreshCall /\ work[o] = "none"
  BY DEF Init
<1>3. CallsSound
  <2>1. Sound(FreshCall, "none")
    BY <1>1 DEF Sound, FreshCall
  <2> QED BY <1>1, <1>2, <2>1 DEF CallsSound, Init, At, FreshCall
<1>4. QueueSound
  <2>1. queue = <<>> /\ \A o \in Op : ~At(o, "queued")
    BY <1>2 DEF Init, At, FreshCall
  <2> QED BY <2>1, EmptySeq, ResilienceConstants DEF QueueSound
<1>5. PermitsSound
  <2>1. Holders = {}
    BY <1>2 DEF Holders, FreshCall
  <2> QED BY <2>1, FS_EmptySet, ResilienceConstants DEF PermitsSound, Init
<1>6. BreakerInv
  <2>1. ClosedBreaker \in Breaker
    BY ResilienceConstants DEF ClosedBreaker, Breaker
  <2>2. \A o \in Op : call[o].generation <= breaker.generation
    BY <1>2 DEF Init, FreshCall, ClosedBreaker, NoGeneration
  <2>3. breaker = ClosedBreaker /\ breaker.state = "closed"
    BY DEF Init, ClosedBreaker
  <2> QED BY <2>1, <2>2, <2>3 DEF BreakerInv, ProbesAccounted
<1>7. OwnersSound
  BY <1>2, ResilienceConstants DEF Init, OwnersSound, Owns, Owning, FreshCall
<1>8. Lifecycle
  <2>1. 0 \in 0 .. MaxFaults
    BY ResilienceConstants
  <2>2. state = "running" /\ draining = FALSE /\ faults = 0
    BY DEF Init
  <2> QED BY <2>1, <2>2 DEF Lifecycle
<1> QED BY <1>3, <1>4, <1>5, <1>6, <1>7, <1>8 DEF RuntimeInv, BulkheadInv

\* The shutdown aborts every call and empties the queue.
LEMMA ShutdownInv ==
  ASSUME RuntimeInv, Shutdown
  PROVE  RuntimeInv' /\ Earned
<1>1. /\ state' = "draining" /\ draining' = TRUE /\ queue' = <<>>
      /\ UNCHANGED <<work, active, breaker, entry, permits, faults>>
  BY DEF Shutdown
<1>2. /\ call \in [Op -> Call] /\ work \in [Op -> {"none", "primary", "fallback"}]
      /\ \A o \in Op : Sound(call[o], work[o])
  BY DEF RuntimeInv, BulkheadInv, CallsSound
<1>3. ASSUME NEW o \in Op
      PROVE  /\ call'[o] \in Call /\ Sound(call'[o], work[o])
             /\ call'[o].at = call[o].at /\ call'[o].holds = call[o].holds
             /\ call'[o].generation = call[o].generation
             /\ call'[o].outcome = call[o].outcome
             /\ call'[o].at \notin {"idle", "done"} => call'[o].abort # "none"
  <2> DEFINE d == [call[o] EXCEPT !.abort = "shutdown"]
  <2>1. call'[o] = IF o \in Pending /\ call[o].abort = "none" THEN d ELSE call[o]
    BY DEF Shutdown
  <2>2. call[o] \in Call /\ Sound(call[o], work[o])
    BY <1>2
  <2>3. /\ d \in Call /\ d.abort = "shutdown" /\ d.at = call[o].at /\ d.holds = call[o].holds
        /\ d.generation = call[o].generation /\ d.outcome = call[o].outcome
        /\ d.attempts = call[o].attempts /\ d.of = call[o].of
    BY <2>2 DEF Call
  <2> HIDE DEF d
  <2>4. CASE o \in Pending /\ call[o].abort = "none"
    <3>1. call[o].at \notin {"idle", "done"}
      BY <2>4 DEF Pending
    <3>2. Sound(d, work[o])
      BY <2>2, <2>3, <3>1 DEF Sound
    <3> QED BY <2>1, <2>3, <2>4, <3>2
  <2>5. CASE ~(o \in Pending /\ call[o].abort = "none")
    BY <2>1, <2>2, <2>5 DEF Pending
  <2> QED BY <2>4, <2>5
<1>4. CallsSound'
  <2>1. call' \in [Op -> Call]
    <3>1. \E f : call' = [o \in Op |-> f[o]]
      <4>1. call' = [o \in Op |-> call'[o]]
        BY DEF Shutdown
      <4> QED BY <4>1
    <3> QED BY <1>3, <3>1
  <2>2. \A o \in Op : call'[o].at = "done" /\ call'[o].holds => work[o] # "none"
    BY <1>3 DEF RuntimeInv, BulkheadInv, CallsSound, At
  <2> QED BY <1>1, <1>2, <1>3, <2>1, <2>2 DEF CallsSound, At
<1>5. QueueSound'
  <2>1. \A o \in Op : ~(call'[o].at = "queued" /\ call'[o].abort = "none")
    BY <1>3
  <2> QED BY <1>1, <2>1, EmptySeq, ResilienceConstants DEF QueueSound, At
<1>6. PermitsSound'
  <2>1. Holders' = Holders
    BY <1>3 DEF Holders
  <2> QED BY <1>1, <2>1 DEF RuntimeInv, BulkheadInv, PermitsSound
<1>7. BreakerInv'
  <2>1. Probes' = Probes /\ Succeeded' = Succeeded
    BY <1>1, <1>3 DEF Probes, Succeeded
  <2>2. Over => Over'
    BY <1>1, <1>3 DEF Over, Pending
  <2>3. (\A o \in Op : call[o].generation <= breaker.generation) =>
          \A o \in Op : call'[o].generation <= breaker'.generation
    BY <1>1, <1>3
  <2> QED BY <1>1, <2>1, <2>2, <2>3 DEF RuntimeInv, BreakerInv, ProbesAccounted
<1>8. OwnersSound'
  <2>1. \A o \in Keyed : Owns(o)' => Owns(o)
    BY <1>1, <1>3, ResilienceConstants DEF Owns
  <2> QED BY <1>1, <2>1 DEF RuntimeInv, OwnersSound
<1>9. Lifecycle' /\ Earned
  BY <1>1 DEF RuntimeInv, Lifecycle, Earned
<1> QED BY <1>4, <1>5, <1>6, <1>7, <1>8, <1>9 DEF RuntimeInv, BulkheadInv

\* The runtime forgets everything when nothing is on its way or at work: no permit is out.
LEMMA ClearedInv ==
  ASSUME RuntimeInv, draining, Drained, Cleared, UNCHANGED permits,
         state' \in {state, "closed"}, faults' \in 0 .. MaxFaults
  PROVE  RuntimeInv' /\ Earned
<1>1. /\ draining' = FALSE /\ breaker' = ClosedBreaker /\ active' = 0 /\ entry' = NoOp
      /\ UNCHANGED <<call, work, queue>>
  BY DEF Cleared
<1>2. \A o \in Op : call[o].at \in {"idle", "done"} /\ work[o] = "none"
  BY DEF Drained, Pending, Working
<1>3. CallsSound'
  BY <1>1 DEF RuntimeInv, BulkheadInv, CallsSound, At
<1>4. queue = <<>>
  <2>1. queue \in Seq(Op) /\ \A i \in 1 .. Len(queue) : queue[i] \in Op
    BY ElementOfSeq DEF RuntimeInv, BulkheadInv, QueueSound
  <2>2. ~(1 \in 1 .. Len(queue))
    <3>1. \A i \in 1 .. Len(queue) : call[queue[i]].at = "queued"
      BY DEF RuntimeInv, BulkheadInv, QueueSound, At
    <3> QED BY <1>2, <2>1, <3>1
  <2> QED BY <2>1, <2>2, EmptySeq
<1>5. QueueSound'
  BY <1>1 DEF RuntimeInv, BulkheadInv, QueueSound, At, Waits
<1>6. PermitsSound'
  <2>1. Holders = {}
    BY <1>2 DEF Holders, RuntimeInv, BulkheadInv, CallsSound, Sound, At
  <2>2. Holders' = Holders
    BY <1>1 DEF Holders
  <2> QED BY <1>1, <1>4, <2>1, <2>2, FS_EmptySet DEF RuntimeInv, BulkheadInv, PermitsSound
<1>7. BreakerInv'
  <2>1. ClosedBreaker \in Breaker /\ ClosedBreaker.state = "closed"
    BY ResilienceConstants DEF ClosedBreaker, Breaker
  <2>2. Over'
    <3>1. state' # "running"
      BY DEF RuntimeInv, Lifecycle
    <3>2. Pending' = {}
      BY <1>1, <1>2 DEF Pending
    <3> QED BY <3>1, <3>2 DEF Over
  <2> QED BY <1>1, <2>1, <2>2 DEF BreakerInv, ProbesAccounted
<1>8. OwnersSound'
  BY <1>1, <1>2, ResilienceConstants DEF OwnersSound, Owns, Owning
<1>9. Lifecycle' /\ Earned
  BY <1>1 DEF RuntimeInv, Lifecycle, Earned
<1> QED BY <1>3, <1>5, <1>6, <1>7, <1>8, <1>9 DEF RuntimeInv, BulkheadInv

\* Steps that leave calls, work, queue and permits alone.
LEMMA QuietInv ==
  ASSUME RuntimeInv, UNCHANGED <<call, work, queue, active, permits>>
  PROVE  BulkheadInv'
<1>1. CallsSound'
  BY DEF RuntimeInv, BulkheadInv, CallsSound, At
<1>2. QueueSound'
  BY DEF RuntimeInv, BulkheadInv, QueueSound, At, Waits
<1>3. PermitsSound'
  BY DEF RuntimeInv, BulkheadInv, PermitsSound, Holders
<1> QED BY <1>1, <1>2, <1>3 DEF BulkheadInv

\* The coalesced operation is over.
LEMMA ForgetEntryInv ==
  ASSUME RuntimeInv, ForgetEntry
  PROVE  RuntimeInv' /\ Earned
<1>1. /\ call[entry].at = "done" /\ work[entry] = "none" /\ entry' = NoOp
      /\ UNCHANGED <<state, draining, call, work, queue, active, breaker, permits, faults>>
  BY DEF ForgetEntry, OwnerIsOver, At
<1>2. BulkheadInv'
  BY <1>1, QuietInv
<1>3. BreakerInv'
  BY <1>1 DEF RuntimeInv, BreakerInv, ProbesAccounted, Probes, Succeeded, Over, Pending
<1>4. OwnersSound'
  <2>1. \A o \in Keyed : ~Owns(o)
    BY <1>1 DEF RuntimeInv, OwnersSound, Owns, Owning
  <2> QED BY <1>1, <2>1 DEF OwnersSound, Owns
<1>5. Lifecycle' /\ Earned
  BY <1>1 DEF RuntimeInv, Lifecycle, Earned
<1> QED BY <1>2, <1>3, <1>4, <1>5 DEF RuntimeInv

\* The cool-down elapses.
LEMMA BreakerCoolsInv ==
  ASSUME RuntimeInv, BreakerCools
  PROVE  RuntimeInv' /\ Earned
<1>1. /\ breaker.state = "open" /\ breaker \in Breaker
      /\ breaker' = [breaker EXCEPT !.cooled = TRUE]
      /\ UNCHANGED <<state, draining, call, work, queue, active, entry, permits, faults>>
  BY DEF BreakerCools, RuntimeInv, BreakerInv
<1>2. breaker' \in Breaker /\ breaker'.state = "open" /\ breaker'.generation = breaker.generation
  BY <1>1 DEF Breaker
<1>3. BulkheadInv'
  BY <1>1, QuietInv
<1>4. BreakerInv'
  BY <1>1, <1>2 DEF RuntimeInv, BreakerInv, ProbesAccounted, Over, Pending
<1>5. OwnersSound' /\ Lifecycle' /\ Earned
  BY <1>1 DEF RuntimeInv, OwnersSound, Owns, Lifecycle, Earned
<1> QED BY <1>3, <1>4, <1>5 DEF RuntimeInv

\* Nothing happens to calls, breaker and entry.
LEMMA IdleInv ==
  ASSUME RuntimeInv, Lifecycle', state' = state,
         UNCHANGED <<call, work, queue, active, breaker, entry, permits>>
  PROVE  RuntimeInv' /\ Earned
<1>1. BulkheadInv'
  BY QuietInv
<1>2. BreakerInv'
  BY DEF RuntimeInv, BreakerInv, ProbesAccounted, Probes, Succeeded, Over, Pending
<1>3. OwnersSound' /\ Earned
  BY DEF RuntimeInv, OwnersSound, Owns, Earned
<1> QED BY <1>1, <1>2, <1>3 DEF RuntimeInv

\* A call on its way is not over.
LEMMA OnItsWay ==
  ASSUME NEW o \in Op, call[o].at \notin {"idle", "done"} \/ state = "running"
  PROVE  ~Over
  BY DEF Over, Pending

\* Every step is one of a call, of the cool-down, of the coalesced operation's end or of the
\* shutdown.
LEMMA StepForms ==
  ASSUME RuntimeInv, Next
  PROVE  \/ \E o \in Op : CallStep(o)
         \/ ForgetEntry \/ BreakerCools
         \/ Shutdown \/ ShutdownTimesOut \/ ShutdownSucceeds \/ DisposerFails
<1>0. BulkheadInv /\ breaker \in Breaker /\ OwnersSound /\ Lifecycle
  BY DEF RuntimeInv, BreakerInv
<1>1. ASSUME NEW o \in Op, Execute(o) PROVE CallStep(o)
  <2>1. Kept(o)
    BY <1>0, <1>1, ExecuteStep
  <2>2. state = "running" /\ UNCHANGED <<state, draining, faults>>
    BY <1>1 DEF Execute
  <2>3. entry' = entry \/ (entry = NoOp /\ o \in Keyed /\ entry' = o)
    BY <1>1 DEF Execute, Joins
  <2> QED BY <2>1, <2>2, <2>3, OnItsWay DEF CallStep
<1>2. ASSUME NEW o \in Op, JoinsTooLate(o) PROVE CallStep(o)
  <2>1. Kept(o)
    BY <1>0, <1>2, JoinsTooLateStep
  <2>2. state = "running" /\ UNCHANGED <<state, draining, entry, faults>>
    BY <1>2 DEF JoinsTooLate
  <2> QED BY <2>1, <2>2, OnItsWay DEF CallStep
<1>3. ASSUME NEW o \in Op, Kept(o), call[o].at \notin {"idle", "done"},
             UNCHANGED <<state, draining, entry, faults>>
      PROVE  CallStep(o)
  BY <1>3, OnItsWay DEF CallStep
<1>4. ASSUME NEW o \in Op, Continues(o) PROVE CallStep(o)
  <2>1. CASE StartOwner(o)
    <3>1. /\ call[o].at \notin {"idle", "done"}
          /\ UNCHANGED <<state, draining, entry, faults>>
      BY <2>1 DEF StartOwner, At
    <3> QED BY <1>0, <1>3, <2>1, <3>1, StartOwnerStep
  <2>2. CASE Proceed(o)
    <3>1. /\ call[o].at \notin {"idle", "done"}
          /\ UNCHANGED <<state, draining, entry, faults>>
      BY <2>2 DEF Proceed, At
    <3> QED BY <1>0, <1>3, <2>2, <3>1, ProceedStep
  <2>3. CASE Unwind(o)
    <3>1. /\ call[o].at \notin {"idle", "done"}
          /\ UNCHANGED <<state, draining, entry, faults>>
      BY <2>3 DEF Unwind, At
    <3> QED BY <1>0, <1>3, <2>3, <3>1, UnwindStep
  <2>4. CASE FollowerReceives(o)
    <3>1. /\ call[o].at \notin {"idle", "done"}
          /\ UNCHANGED <<state, draining, entry, faults>>
      BY <2>4 DEF FollowerReceives, At
    <3> QED BY <1>0, <1>3, <2>4, <3>1, FollowerReceivesStep
  <2> QED BY <1>4, <2>1, <2>2, <2>3, <2>4 DEF Continues
<1>5. ASSUME NEW o \in Op, WorkSettles(o) PROVE CallStep(o)
  <2>1. CASE PrimarySucceeds(o)
    <3>1. call[o].at \notin {"idle", "done"} /\ UNCHANGED <<state, draining, entry, faults>>
      BY <2>1 DEF PrimarySucceeds, Awaits
    <3> QED BY <1>0, <1>3, <2>1, <3>1, PrimarySucceedsStep
  <2>2. CASE PrimaryIsRetried(o)
    <3>1. call[o].at \notin {"idle", "done"} /\ UNCHANGED <<state, draining, entry, faults>>
      BY <2>2 DEF PrimaryIsRetried, Awaits
    <3> QED BY <1>0, <1>3, <2>2, <3>1, PrimaryIsRetriedStep
  <2>3. CASE PrimaryFails(o)
    <3>1. call[o].at \notin {"idle", "done"} /\ UNCHANGED <<state, draining, entry, faults>>
      BY <2>3 DEF PrimaryFails, Awaits
    <3> QED BY <1>0, <1>3, <2>3, <3>1, PrimaryFailsStep
  <2>4. CASE PrimaryIsMisconfigured(o)
    <3>1. call[o].at \notin {"idle", "done"} /\ UNCHANGED <<state, draining, entry, faults>>
      BY <2>4 DEF PrimaryIsMisconfigured, Awaits
    <3> QED BY <1>0, <1>3, <2>4, <3>1, PrimaryIsMisconfiguredStep
  <2>5. CASE LateWorkEnds(o)
    <3>1. UNCHANGED <<state, draining, entry, faults>> /\ call[o].at # "idle"
      BY <1>0, <2>5 DEF LateWorkEnds, BulkheadInv, CallsSound, Sound
    <3> QED BY <1>0, <2>5, <3>1, LateWorkEndsStep DEF CallStep
  <2>6. ASSUME NEW outcome \in {"ok", "error"}, FallbackSettles(o, outcome)
        PROVE  CallStep(o)
    <3>1. call[o].at \notin {"idle", "done"} /\ UNCHANGED <<state, draining, entry, faults>>
      BY <2>6 DEF FallbackSettles, Awaits
    <3> QED BY <1>0, <1>3, <2>6, <3>1, FallbackSettlesStep
  <2> QED BY <1>5, <2>1, <2>2, <2>3, <2>4, <2>5, <2>6 DEF WorkSettles
<1>6. ASSUME NEW o \in Op, RetryDelayEnds(o) \/ Timeout(o) \/ QueueTimeout(o)
      PROVE  CallStep(o)
  <2>1. call[o].at \notin {"idle", "done"} /\ UNCHANGED <<state, draining, entry, faults>>
    BY <1>6 DEF RetryDelayEnds, Timeout, Timed, Pending, QueueTimeout, At
  <2> QED BY <1>0, <1>3, <1>6, <2>1, RetryDelayEndsStep, TimeoutStep, QueueTimeoutStep
<1> QED BY <1>1, <1>2, <1>4, <1>5, <1>6 DEF Next

\* Every step keeps the invariant.
LEMMA NextInv == RuntimeInv /\ [Next]_vars => RuntimeInv' /\ (Earned \/ UNCHANGED vars)
<1> SUFFICES ASSUME RuntimeInv, [Next]_vars
             PROVE  RuntimeInv' /\ (Earned \/ UNCHANGED vars)
  OBVIOUS
<1>0. Lifecycle
  BY DEF RuntimeInv
<1>1. ASSUME NEW o \in Op, CallStep(o) PROVE RuntimeInv' /\ Earned
  BY <1>1, StepOfCall
<1>2. ASSUME ShutdownTimesOut PROVE RuntimeInv' /\ Earned
  <2>1. /\ state' = state /\ draining' = FALSE /\ faults' = faults
        /\ UNCHANGED <<call, work, queue, active, breaker, entry, permits>>
    BY <1>2 DEF ShutdownTimesOut
  <2>2. Lifecycle'
    BY <1>0, <2>1 DEF Lifecycle
  <2> QED BY <2>1, <2>2, IdleInv
<1>3. ASSUME ShutdownSucceeds \/ DisposerFails PROVE RuntimeInv' /\ Earned
  <2>1. draining /\ Drained /\ Cleared /\ UNCHANGED permits /\ state' \in {state, "closed"}
    BY <1>3 DEF ShutdownSucceeds, DisposerFails
  <2>2. faults' \in 0 .. MaxFaults
    <3>1. CASE ShutdownSucceeds
      BY <1>0, <3>1 DEF ShutdownSucceeds, Lifecycle
    <3>2. CASE DisposerFails
      <4>1. faults < MaxFaults /\ faults' = faults + 1 /\ faults \in 0 .. MaxFaults
        BY <1>0, <3>2 DEF DisposerFails, Lifecycle
      <4> QED BY <4>1, ResilienceConstants
    <3> QED BY <1>3, <3>1, <3>2
  <2> QED BY <2>1, <2>2, ClearedInv
<1>4. ASSUME UNCHANGED vars PROVE RuntimeInv'
  <2>1. Lifecycle' /\ state' = state
        /\ UNCHANGED <<call, work, queue, active, breaker, entry, permits>>
    BY <1>0, <1>4 DEF Lifecycle, vars
  <2> QED BY <2>1, IdleInv
<1>5. CASE Next
  BY <1>1, <1>2, <1>3, <1>5, StepForms, ForgetEntryInv, BreakerCoolsInv, ShutdownInv
<1> QED BY <1>4, <1>5

\* The invariant holds throughout.
LEMMA RuntimeInvHolds == Spec => []RuntimeInv
<1>1. RuntimeInv /\ [Next]_vars => RuntimeInv'
  BY NextInv
<1> QED BY InitInv, <1>1, PTL DEF Spec

--------------------------------------------------------------------------------
(* The theorems.                                                           *)

\* Every variable of the managed runtime stays in its type, whatever the policy.
THEOREM RuntimeTyped == Spec => []TypeOK
<1>1. ASSUME RuntimeInv PROVE TypeOK
  <2>1. active \in 0 .. permits
    BY <1>1, CallSets DEF RuntimeInv, BulkheadInv, PermitsSound, Holders
  <2>2. call \in [Op -> Call] /\ work \in [Op -> {"none", "primary", "fallback"}]
    BY <1>1 DEF RuntimeInv, BulkheadInv, CallsSound
  <2>3. queue \in Seq(Op) /\ Len(queue) <= MaxQueue
    BY <1>1 DEF RuntimeInv, BulkheadInv, QueueSound
  <2>4. breaker \in Breaker /\ entry \in Keyed \cup {NoOp}
    BY <1>1 DEF RuntimeInv, BreakerInv, OwnersSound
  <2> QED BY <1>1, <2>1, <2>2, <2>3, <2>4 DEF TypeOK, RuntimeInv, Lifecycle, Breaker
<1> QED BY RuntimeInvHolds, <1>1, PTL

\* No permit of the bulkhead is lost or doubled, however a call leaves the queue, an
\* attempt or a fallback, and nobody waits in the queue while one is free.
THEOREM PermitsAreConserved == Spec => []PermitsConserved
<1>1. RuntimeInv => PermitsConserved
  BY DEF RuntimeInv, BulkheadInv, PermitsSound, QueueSound, PermitsConserved
<1> QED BY RuntimeInvHolds, <1>1, PTL

\* At most as many functions as the bulkhead has permits are physically at work, those
\* that ignore their call's timeout or the shutdown included.
THEOREM WorkIsIsolated == Spec => []Isolation
<1>1. ASSUME RuntimeInv PROVE Isolation
  <2> DEFINE W == {o \in Op : work[o] = "primary"}
  <2>1. W \subseteq Holders
    BY <1>1 DEF RuntimeInv, BulkheadInv, CallsSound, Sound, Holders
  <2>2. IsFiniteSet(Holders) /\ Cardinality(Holders) \in Nat /\ Cardinality(W) \in Nat
    BY CallSets DEF Holders
  <2>3. Cardinality(W) <= Cardinality(Holders)
    BY <2>1, <2>2, FS_Subset
  <2>4. Cardinality(Holders) <= permits /\ permits \in Nat
    BY <1>1 DEF RuntimeInv, BulkheadInv, PermitsSound
  <2> QED BY <2>2, <2>3, <2>4 DEF Isolation
<1> QED BY RuntimeInvHolds, <1>1, PTL

\* Of the calls with one key at most one has the application's code at work for it.
THEOREM FlightsAreSingle == Spec => []SingleFlight
<1>1. ASSUME RuntimeInv PROVE SingleFlight
  <2> DEFINE W == {o \in Keyed : work[o] # "none"}
  <2>1. W \subseteq {entry}
    BY <1>1 DEF RuntimeInv, OwnersSound, Owns
  <2>2. IsFiniteSet({entry}) /\ Cardinality({entry}) = 1
    BY FS_Singleton
  <2>3. Cardinality(W) <= 1
    BY <2>1, <2>2, FS_Subset
  <2> QED BY <2>3 DEF SingleFlight
<1> QED BY RuntimeInvHolds, <1>1, PTL

\* The slots a half-open breaker counts are exactly those of its probes on their way.
THEOREM ProbesAreAccounted == Spec => []ProbesAccounted
<1>1. RuntimeInv => ProbesAccounted
  BY DEF RuntimeInv, BreakerInv
<1> QED BY RuntimeInvHolds, <1>1, PTL

\* A half-open breaker closes only on the successes of enough probes of its generation:
\* results of calls from before it opened do not close it.
THEOREM RecoveryHolds == Spec => RecoveryIsEarned
<1>1. RuntimeInv /\ [Next]_vars => (Earned \/ UNCHANGED vars)
  BY NextInv
<1>2. RuntimeInv /\ [Next]_vars =>
        [(breaker.state = "half-open" /\ breaker'.state = "closed" /\ ~draining) =>
           Cardinality({o \in Op : /\ call'[o].generation = breaker.generation
                                   /\ call'[o].outcome = "ok"}) >= HalfOpenMax]_vars
  BY <1>1 DEF Earned
<1> QED BY RuntimeInvHolds, <1>2, PTL DEF Spec, RecoveryIsEarned

--------------------------------------------------------------------------------
(***************************************************************************)
(* The breaker implements CircuitBreaker: every step of the runtime is one *)
(* of it, or leaves what the breaker knows of its period alone.            *)
(***************************************************************************)

\* From the shutdown on every call on its way has been aborted.
Aborted == state # "running" => \A o \in Pending : call[o].abort # "none"

\* A call on its way is aborted by the shutdown, or was, and none begins after it.
LEMMA AbortedKept ==
  ASSUME RuntimeInv, Aborted, [Next]_vars
  PROVE  Aborted'
<1>1. ASSUME NEW o \in Op, CallStep(o) PROVE Aborted'
  <2>1. SUFFICES ASSUME state # "running", NEW p \in Pending' PROVE call'[p].abort # "none"
    BY <1>1 DEF CallStep, Aborted
  <2>2. p \in Op /\ call'[p].at \notin {"idle", "done"}
    BY DEF Pending
  <2>3. CASE p # o
    <3>1. call'[p].abort = call[p].abort /\ call[p].at \notin {"idle", "done"}
      BY <1>1, <2>2, <2>3 DEF CallStep, Kept, Rest
    <3> QED BY <2>1, <2>2, <3>1 DEF Aborted, Pending
  <2>4. CASE p = o
    <3>1. call[o].at \notin {"idle", "done"}
      BY <1>1, <2>1, <2>2, <2>4 DEF CallStep, Kept, Heeds
    <3>2. call[o].abort # "none"
      BY <2>1, <3>1 DEF Aborted, Pending
    <3> QED BY <1>1, <2>2, <2>4, <3>2 DEF CallStep, Kept, Heeds
  <2> QED BY <2>3, <2>4
<1>2. CASE Shutdown
  <2>1. ASSUME NEW p \in Op, call'[p].at \notin {"idle", "done"} PROVE call'[p].abort # "none"
    <3>1. call[p] \in Call
      BY DEF RuntimeInv, BulkheadInv, CallsSound
    <3> DEFINE d == [call[p] EXCEPT !.abort = "shutdown"]
    <3>2. call'[p] = IF p \in Pending /\ call[p].abort = "none" THEN d ELSE call[p]
      BY <1>2 DEF Shutdown
    <3>3. d.abort = "shutdown" /\ d.at = call[p].at
      BY <3>1 DEF Call
    <3> QED BY <2>1, <3>2, <3>3 DEF Pending
  <2> QED BY <2>1 DEF Aborted, Pending
<1>3. CASE ForgetEntry \/ BreakerCools \/ ShutdownTimesOut \/ UNCHANGED vars
  BY <1>3 DEF ForgetEntry, BreakerCools, ShutdownTimesOut, vars, Aborted, Pending
<1>4. CASE ShutdownSucceeds \/ DisposerFails
  BY <1>4 DEF ShutdownSucceeds, DisposerFails, Cleared, Drained, Aborted, Pending
<1> QED BY <1>1, <1>2, <1>3, <1>4, StepForms

\* The calls of generation g that are on their way, and those that ended without telling.
Sent(g) == {p \in Pending : call[p].generation = g}
Gone(g) == Open(g) \ Pending

\* What the breaker's period is, by the breaker's state.
LEMMA PeriodForm ==
  ASSUME breaker \in Breaker
  PROVE  /\ breaker.state = "open" => Out = {} /\ Lost = {} /\ Proven = {} /\ Remembered = 0
         /\ breaker.state = "closed" => /\ Out = Sent(breaker.generation) /\ Lost = {}
                                        /\ Proven = {}
         /\ breaker.state = "half-open" => Out = Sent(breaker.generation) /\ Remembered = 0
         /\ state # "running" => Lost = {} /\ Proven = {} /\ Remembered = 0
         /\ state = "running" =>
              /\ breaker.state = "closed" => Remembered = breaker.failures
              /\ breaker.state = "half-open" =>
                   Lost = Gone(breaker.generation) /\ Proven = Ok(breaker.generation)
  BY DEF Breaker, Out, Lost, Proven, Remembered, HalfOpen, Sent, Gone, Open, Ok, Probes

\* The same after a step.
LEMMA PeriodAfter ==
  ASSUME breaker' \in Breaker
  PROVE  /\ breaker'.state = "open" =>
              Out' = {} /\ Lost' = {} /\ Proven' = {} /\ Remembered' = 0
         /\ breaker'.state = "closed" => /\ Out' = Sent(breaker.generation)' /\ Lost' = {}
                                         /\ Proven' = {}
         /\ breaker'.state = "half-open" =>
              Out' = Sent(breaker.generation)' /\ Remembered' = 0
         /\ state' # "running" => Lost' = {} /\ Proven' = {} /\ Remembered' = 0
         /\ state' = "running" =>
              /\ breaker'.state = "closed" => Remembered' = breaker'.failures
              /\ breaker'.state = "half-open" =>
                   Lost' = Gone(breaker.generation)' /\ Proven' = Ok(breaker.generation)'
  BY DEF Breaker, Out, Lost, Proven, Remembered, HalfOpen, Sent, Gone, Open, Ok, Probes
\* Only o enters or leaves these sets in a step of o.
LEMMA SetsAfter ==
  ASSUME BulkheadInv, BulkheadInv', NEW o \in Op, Rest(o), NEW g \in Nat
  PROVE  /\ Sent(g)' = IF call'[o].at \notin {"idle", "done"} /\ call'[o].generation = g
                       THEN Sent(g) \cup {o} ELSE Sent(g) \ {o}
         /\ Gone(g)' = IF /\ call'[o].at = "done" /\ call'[o].generation = g
                          /\ call'[o].outcome # "ok"
                       THEN Gone(g) \cup {o} ELSE Gone(g) \ {o}
         /\ Ok(g)' = IF call'[o].generation = g /\ call'[o].outcome = "ok"
                     THEN Ok(g) \cup {o} ELSE Ok(g) \ {o}
         /\ o \in Sent(g) <=> call[o].at \notin {"idle", "done"} /\ call[o].generation = g
         /\ o \in Gone(g) <=> /\ call[o].at = "done" /\ call[o].generation = g
                              /\ call[o].outcome # "ok"
         /\ o \in Ok(g) <=> call[o].generation = g /\ call[o].outcome = "ok"
         /\ Sent(g) \cup Gone(g) = Open(g)
<1>1. \A p \in Op :
        /\ call[p].at = "idle" => call[p].generation # g
        /\ call'[p].at = "idle" => call'[p].generation # g
        /\ call[p].outcome = "ok" => call[p].at = "done"
  BY DEF BulkheadInv, CallsSound, Sound, NoGeneration
<1>2. \A p \in Op \ {o} :
        /\ call'[p].generation = call[p].generation /\ call'[p].outcome = call[p].outcome
        /\ call'[p].at \notin {"idle", "done"} <=> call[p].at \notin {"idle", "done"}
  BY DEF Rest
<1>3. Sent(g)' = IF call'[o].at \notin {"idle", "done"} /\ call'[o].generation = g
                 THEN Sent(g) \cup {o} ELSE Sent(g) \ {o}
  BY <1>2 DEF Sent, Pending
<1>4. Gone(g)' = IF /\ call'[o].at = "done" /\ call'[o].generation = g
                    /\ call'[o].outcome # "ok"
                 THEN Gone(g) \cup {o} ELSE Gone(g) \ {o}
  BY <1>1, <1>2 DEF Gone, Open, Pending
<1>5. Ok(g)' = IF call'[o].generation = g /\ call'[o].outcome = "ok"
               THEN Ok(g) \cup {o} ELSE Ok(g) \ {o}
  BY <1>2 DEF Ok
<1>6. /\ o \in Sent(g) <=> call[o].at \notin {"idle", "done"} /\ call[o].generation = g
      /\ o \in Gone(g) <=> /\ call[o].at = "done" /\ call[o].generation = g
                           /\ call[o].outcome # "ok"
      /\ o \in Ok(g) <=> call[o].generation = g /\ call[o].outcome = "ok"
  BY <1>1 DEF Sent, Gone, Open, Ok, Pending
<1>7. Sent(g) \cup Gone(g) = Open(g)
  BY <1>1 DEF Sent, Gone, Open, Pending
<1> QED BY <1>3, <1>4, <1>5, <1>6, <1>7

\* What a result that counts does to the breaker's period.
LEMMA CountedForm ==
  ASSUME NEW b \in Breaker, NEW g \in Int, NEW failed \in BOOLEAN,
         NEW recent \in 0 .. b.failures, NEW dense \in BOOLEAN, Counts(b, g)
  PROVE  LET r == Recorded(b, g, failed, recent, dense)
             now == recent + (IF failed THEN 1 ELSE 0)
         IN /\ b.state \in {"closed", "half-open"}
            /\ b.state = "half-open" =>
                 IF failed THEN r.state = "open"
                 ELSE IF b.successes + 1 >= HalfOpenMax
                 THEN r.state = "closed" /\ r.generation = b.generation + 1 /\ r.failures = 0
                 ELSE r.state = "half-open" /\ r.generation = b.generation
            /\ b.state = "closed" =>
                 \/ r.state = "open" /\ now >= FailureCount
                 \/ /\ r.state = "closed" /\ r.generation = b.generation
                    /\ r.failures = IF now < FailureCount THEN now ELSE FailureCount
<1> DEFINE r == Recorded(b, g, failed, recent, dense)
           now == recent + (IF failed THEN 1 ELSE 0)
<1>1. b.state \in {"closed", "half-open"}
  BY DEF Counts, Breaker
<1>2. CASE b.state = "half-open"
  <2> DEFINE q == [b EXCEPT !.inFlight = OneLess(@)]
             p == [b EXCEPT !.inFlight = OneLess(@), !.successes = @ + 1]
  <2>1. CASE failed
    <3>1. r = Opened(q)
      BY <1>2, <2>1 DEF Recorded
    <3>2. Opened(q).state = "open"
      BY DEF Opened, Breaker
    <3> QED BY <1>1, <1>2, <2>1, <3>1, <3>2
  <2>2. CASE ~failed
    <3>1. p.successes = b.successes + 1 /\ p.generation = b.generation /\ p.state = b.state
      BY DEF Breaker
    <3>2. r = IF p.successes >= HalfOpenMax THEN Reclosed(p) ELSE p
      BY <1>2, <2>2 DEF Recorded
    <3>3. /\ Reclosed(p).state = "closed" /\ Reclosed(p).failures = 0
          /\ Reclosed(p).generation = p.generation + 1
      BY DEF Reclosed, ClosedBreaker
    <3> HIDE DEF p
    <3> QED BY <1>1, <1>2, <2>2, <3>1, <3>2, <3>3
  <2> QED BY <2>1, <2>2
<1>3. CASE b.state = "closed"
  <2>1. r = IF now < FailureCount THEN [b EXCEPT !.failures = now]
            ELSE IF dense THEN Opened(b) ELSE [b EXCEPT !.failures = FailureCount]
    BY <1>3 DEF Recorded
  <2>2. now \in Int /\ FailureCount \in Int
    BY ResilienceConstants DEF Breaker
  <2> HIDE DEF now
  <2>3. Opened(b).state = "open"
    BY DEF Opened, Breaker
  <2>4. ASSUME NEW k
        PROVE  /\ [b EXCEPT !.failures = k].state = b.state
               /\ [b EXCEPT !.failures = k].generation = b.generation
               /\ [b EXCEPT !.failures = k].failures = k
    BY DEF Breaker
  <2> HIDE DEF r
  <2>5. \/ r.state = "open" /\ now >= FailureCount
        \/ /\ r.state = "closed" /\ r.generation = b.generation
           /\ r.failures = IF now < FailureCount THEN now ELSE FailureCount
    <3>1. CASE now < FailureCount
      BY <1>3, <2>1, <2>4, <3>1
    <3>2. CASE ~(now < FailureCount)
      <4>1. now >= FailureCount
        BY <2>2, <3>2
      <4>2. r = Opened(b) \/ r = [b EXCEPT !.failures = FailureCount]
        BY <2>1, <3>2
      <4> QED BY <1>3, <2>3, <2>4, <3>2, <4>1, <4>2
    <3> QED BY <3>1, <3>2
  <2> QED BY <1>3, <2>5 DEF now, r
<1> QED BY <1>1, <1>2, <1>3

\* Both modules count alike.
LEMMA SameCount ==
  ASSUME NEW S
  PROVE  Circuit!Cardinality(S) = Cardinality(S)
  BY Zenon DEF Circuit!Cardinality, Cardinality, Circuit!IsFiniteSet, IsFiniteSet

\* A step of the breaker's period, or one that leaves it alone.
Stays == UNCHANGED <<Status, Out, Lost, Proven, Remembered>>
Moves == Circuit!Next \/ Stays

\* While the runtime runs no call is ahead of the breaker's generation n.
LEMMA Running ==
  ASSUME RuntimeInv, state = "running"
  PROVE  /\ breaker \in Breaker /\ breaker.generation \in Nat /\ ~Over
         /\ breaker.state \in {"closed", "open", "half-open"} /\ breaker.failures \in Nat
         /\ \A p \in Op : call[p].generation \in Int
                          /\ call[p].generation <= breaker.generation
<1>1. breaker \in Breaker /\ ~Over
  BY DEF RuntimeInv, BreakerInv, Over
<1>2. \A p \in Op : call[p].generation \in Int
  BY DEF RuntimeInv, BulkheadInv, CallsSound, Call
<1>3. \A p \in Op : call[p].generation <= breaker.generation
  BY <1>1 DEF RuntimeInv, BreakerInv
<1> QED BY <1>1, <1>2, <1>3, ResilienceConstants DEF Breaker

\* A step of which the breaker is not told: the call may have ended with its admission.
LEMMA SilentMoves ==
  ASSUME RuntimeInv, RuntimeInv', NEW o \in Op, Rest(o), Heeds(o), Silent(o),
         state = "running", state' = state
  PROVE  Moves
<1>1. PICK n \in Nat : n = breaker.generation
  BY Running
<1>2. breaker \in Breaker /\ breaker' = breaker /\ call'[o].generation = call[o].generation
  BY Running DEF Silent
<1>3. /\ Sent(n)' = IF call'[o].at \notin {"idle", "done"} /\ call'[o].generation = n
                    THEN Sent(n) \cup {o} ELSE Sent(n) \ {o}
      /\ Gone(n)' = IF /\ call'[o].at = "done" /\ call'[o].generation = n
                       /\ call'[o].outcome # "ok"
                    THEN Gone(n) \cup {o} ELSE Gone(n) \ {o}
      /\ Ok(n)' = IF call'[o].generation = n /\ call'[o].outcome = "ok"
                  THEN Ok(n) \cup {o} ELSE Ok(n) \ {o}
      /\ o \in Sent(n) <=> call[o].at \notin {"idle", "done"} /\ call[o].generation = n
      /\ o \in Gone(n) <=> /\ call[o].at = "done" /\ call[o].generation = n
                           /\ call[o].outcome # "ok"
      /\ o \in Ok(n) <=> call[o].generation = n /\ call[o].outcome = "ok"
  BY SetsAfter DEF RuntimeInv
<1>4. Status' = Status /\ Remembered' = Remembered
  BY <1>2 DEF Status, Remembered
<1>5. /\ Out = IF breaker.state = "open" THEN {} ELSE Sent(n)
      /\ Out' = IF breaker.state = "open" THEN {} ELSE Sent(n)'
      /\ Lost = IF breaker.state = "half-open" THEN Gone(n) ELSE {}
      /\ Lost' = IF breaker.state = "half-open" THEN Gone(n)' ELSE {}
      /\ Proven = IF breaker.state = "half-open" THEN Ok(n) ELSE {}
      /\ Proven' = IF breaker.state = "half-open" THEN Ok(n)' ELSE {}
  BY <1>1, <1>2 DEF Out, Lost, Proven, HalfOpen, Sent, Gone, Open, Ok, Probes
<1>6. /\ call[o].at = "idle" => call[o].generation # n
      /\ call'[o].at = "idle" => call'[o].generation # n
      /\ call[o].outcome = "ok" => call[o].at = "done"
      /\ NoGeneration # n
  BY DEF RuntimeInv, BulkheadInv, CallsSound, Sound, NoGeneration
<1>7. CASE o \in Sent(n) /\ call'[o].at \in {"idle", "done"}
  <2>1. /\ Sent(n)' = Sent(n) \ {o} /\ Gone(n)' = Gone(n) \cup {o} /\ Ok(n)' = Ok(n)
    BY <1>2, <1>3, <1>6, <1>7 DEF Silent
  <2>2. CASE breaker.state = "open"
    BY <1>4, <1>5, <2>2 DEF Moves, Stays
  <2>3. CASE breaker.state # "open"
    <3>1. Status = breaker.state /\ Status \in {"closed", "open", "half-open"}
      BY Running DEF Status
    <3>2. o \in Out /\ Out' = Out \ {o} /\ Proven' = Proven
      BY <1>5, <1>7, <2>1, <2>3
    <3>3. Lost' = IF Status = "half-open" THEN Lost \cup {o} ELSE Lost
      BY <1>5, <2>1, <2>3, <3>1
    <3>4. Circuit!Lose(o)
      BY <1>4, <3>1, <3>2, <3>3 DEF Circuit!Lose
    <3> QED BY <3>4 DEF Moves, Circuit!Next
  <2> QED BY <2>2, <2>3
<1>8. CASE ~(o \in Sent(n) /\ call'[o].at \in {"idle", "done"})
  <2>1. Sent(n)' = Sent(n)
    BY <1>2, <1>3, <1>6, <1>8 DEF Heeds
  <2>2. Gone(n)' = Gone(n)
    BY <1>2, <1>3, <1>6, <1>8 DEF Heeds, Silent
  <2>3. Ok(n)' = Ok(n)
    BY <1>2, <1>3, <1>6 DEF Silent
  <2> QED BY <1>4, <1>5, <2>1, <2>2, <2>3 DEF Moves, Stays
<1> QED BY <1>7, <1>8
\* A result counts only in the period that admitted its call.
LEMMA ReportMoves ==
  ASSUME RuntimeInv, RuntimeInv', NEW o \in Op, Rest(o), Heeds(o),
         ReportsSuccess(o) \/ ReportsFailure(o), state = "running", state' = state
  PROVE  Moves
<1> DEFINE g == call[o].generation
<1>1. PICK n \in Nat : n = breaker.generation
  BY Running
<1>2. PICK failed \in BOOLEAN, recent \in 0 .. breaker.failures, dense \in BOOLEAN :
        /\ breaker' = Recorded(breaker, g, failed, recent, dense)
        /\ call[o].outcome # "ok"
        /\ failed => call'[o].generation = NoGeneration /\ call'[o].outcome # "ok"
        /\ ~failed => call'[o].generation = g /\ call'[o].outcome = "ok"
  <2>1. CASE ReportsSuccess(o)
    <3>1. PICK recent \in 0 .. breaker.failures, dense \in BOOLEAN :
            breaker' = Recorded(breaker, g, FALSE, recent, dense)
      BY <2>1 DEF ReportsSuccess, Records
    <3> QED BY <2>1, <3>1 DEF ReportsSuccess
  <2>2. CASE ReportsFailure(o)
    <3>1. PICK recent \in 0 .. breaker.failures, dense \in BOOLEAN :
            breaker' = Recorded(breaker, g, TRUE, recent, dense)
      BY <2>2 DEF ReportsFailure, Records
    <3> QED BY <2>2, <3>1 DEF ReportsFailure
  <2> QED BY <2>1, <2>2
<1>3. /\ breaker \in Breaker /\ breaker' \in Breaker /\ g \in Int
      /\ breaker.state \in {"closed", "open", "half-open"} /\ breaker.failures \in Nat
      /\ \A p \in Op : call[p].generation \in Int /\ call[p].generation <= n
  BY <1>1, Running DEF RuntimeInv, BreakerInv
<1>4. \A k \in Nat :
        /\ Sent(k)' = IF call'[o].at \notin {"idle", "done"} /\ call'[o].generation = k
                      THEN Sent(k) \cup {o} ELSE Sent(k) \ {o}
        /\ Gone(k)' = IF /\ call'[o].at = "done" /\ call'[o].generation = k
                         /\ call'[o].outcome # "ok"
                      THEN Gone(k) \cup {o} ELSE Gone(k) \ {o}
        /\ Ok(k)' = IF call'[o].generation = k /\ call'[o].outcome = "ok"
                    THEN Ok(k) \cup {o} ELSE Ok(k) \ {o}
        /\ o \in Sent(k) <=> call[o].at \notin {"idle", "done"} /\ call[o].generation = k
        /\ o \in Gone(k) <=> /\ call[o].at = "done" /\ call[o].generation = k
                             /\ call[o].outcome # "ok"
        /\ o \in Ok(k) <=> call[o].generation = k /\ call[o].outcome = "ok"
  BY SetsAfter DEF RuntimeInv
<1>5. /\ NoGeneration # n
      /\ call[o].at = "idle" => g # n
      /\ call'[o].outcome = "ok" => call'[o].at = "done"
  BY DEF RuntimeInv, BulkheadInv, CallsSound, Sound, NoGeneration
<1>6. /\ Status = breaker.state /\ Status' = breaker'.state
  BY DEF Status
<1>7. /\ call'[o].generation \in {g, NoGeneration}
      /\ call'[o].outcome = "ok" => call'[o].generation = g
      /\ call'[o].outcome # "ok" => call'[o].generation = NoGeneration
      /\ failed <=> call'[o].outcome # "ok"
  <2>1. CASE failed
    BY <1>2, <2>1
  <2>2. CASE ~failed
    BY <1>2, <2>2
  <2> QED BY <2>1, <2>2
<1>8. CASE ~Counts(breaker, g)
  <2>1. breaker' = breaker /\ (breaker.state = "open" \/ g # n)
    BY <1>1, <1>2, <1>8 DEF Recorded, Counts
  <2>2. CASE breaker.state = "open"
    <3>1. Out = {} /\ Lost = {} /\ Proven = {} /\ Remembered = 0
      BY <1>3, <2>2, PeriodForm
    <3>2. Out' = {} /\ Lost' = {} /\ Proven' = {} /\ Remembered' = 0
      BY <1>3, <2>1, <2>2, PeriodAfter
    <3> QED BY <1>6, <2>1, <3>1, <3>2 DEF Moves, Stays
  <2>3. CASE g # n
    <3>1. Sent(n)' = Sent(n) /\ Gone(n)' = Gone(n) /\ Ok(n)' = Ok(n)
      <4>1. call'[o].generation # n
        BY <1>5, <1>7, <2>3
      <4>2. o \notin Sent(n) /\ o \notin Gone(n) /\ o \notin Ok(n)
        BY <1>4, <2>3
      <4>3. /\ Sent(n)' = Sent(n) \ {o} /\ Gone(n)' = Gone(n) \ {o}
            /\ Ok(n)' = Ok(n) \ {o}
        BY <1>4, <4>1
      <4> QED BY <4>2, <4>3
    <3>2. Out' = Out /\ Lost' = Lost /\ Proven' = Proven /\ Remembered' = Remembered
      <4>1. /\ Sent(breaker.generation)' = Sent(n)' /\ Gone(breaker.generation)' = Gone(n)'
            /\ Ok(breaker.generation)' = Ok(n)'
        BY <1>1, <2>1 DEF Sent, Gone, Open, Ok
      <4> QED BY <1>1, <2>1, <3>1, <4>1
              DEF Out, Lost, Proven, Remembered, HalfOpen, Sent, Gone, Open, Ok, Probes
    <3> QED BY <1>6, <2>1, <3>2 DEF Moves, Stays
  <2> QED BY <2>1, <2>2, <2>3
<1>9. CASE Counts(breaker, g)
  <2> DEFINE now == recent + (IF failed THEN 1 ELSE 0)
  <2>1. g = n /\ call[o].at \notin {"idle", "done"}
    <3>1. g = n
      BY <1>1, <1>9 DEF Counts
    <3>2. call[o].at # "done"
      <4>1. SUFFICES ASSUME Silent(o) PROVE FALSE
        BY DEF Heeds
      <4>2. call'[o].generation = g
        BY <4>1 DEF Silent
      <4>3. call'[o].outcome = "ok"
        BY <1>5, <1>7, <3>1, <4>2
      <4> QED BY <1>2, <1>5, <3>1, <4>1, <4>3 DEF Silent
    <3>3. call[o].at # "idle"
      BY <1>5, <3>1
    <3> QED BY <3>1, <3>2, <3>3
  <2>2. /\ breaker.state \in {"closed", "half-open"}
        /\ breaker.state = "half-open" =>
             IF failed THEN breaker'.state = "open"
             ELSE IF breaker.successes + 1 >= HalfOpenMax
             THEN /\ breaker'.state = "closed" /\ breaker'.generation = breaker.generation + 1
                  /\ breaker'.failures = 0
             ELSE breaker'.state = "half-open" /\ breaker'.generation = breaker.generation
        /\ breaker.state = "closed" =>
             \/ breaker'.state = "open" /\ now >= FailureCount
             \/ /\ breaker'.state = "closed" /\ breaker'.generation = breaker.generation
                /\ breaker'.failures = IF now < FailureCount THEN now ELSE FailureCount
    BY <1>2, <1>3, <1>9, CountedForm
  <2> HIDE DEF now
  <2>3. /\ o \in Sent(n) /\ Sent(n)' = Sent(n) \ {o} /\ Gone(n)' = Gone(n)
        /\ ~failed => Ok(n)' = Ok(n) \cup {o}
    <3>1. o \in Sent(n) /\ o \notin Gone(n)
      BY <1>4, <2>1
    <3>2. ~(call'[o].at \notin {"idle", "done"} /\ call'[o].generation = n)
      BY <1>5, <1>7
    <3>3. ~(call'[o].generation = n /\ call'[o].outcome # "ok")
      BY <1>5, <1>7
    <3>4. Sent(n)' = Sent(n) \ {o} /\ Gone(n)' = Gone(n) \ {o}
      BY <1>4, <3>2, <3>3
    <3>5. ~failed => Ok(n)' = Ok(n) \cup {o}
      BY <1>4, <1>7, <2>1
    <3> QED BY <3>1, <3>4, <3>5
  <2>4. o \in Out /\ Out = Sent(n)
    BY <1>1, <1>3, <2>2, <2>3, PeriodForm
  \* The period ends with an open one.
  <2>5. ASSUME breaker'.state = "open" PROVE Circuit!Begins("open", {})
    <3>1. Out' = {} /\ Lost' = {} /\ Proven' = {} /\ Remembered' = 0
      BY <1>3, <2>5, PeriodAfter
    <3> QED BY <1>6, <2>5, <3>1 DEF Circuit!Begins
  \* It goes on.
  <2>6. ASSUME breaker'.generation = breaker.generation, breaker'.state = breaker.state
        PROVE  /\ Out' = Out \ {o} /\ Lost' = Lost
               /\ breaker.state = "half-open" => Proven = Ok(n) /\ Proven' = Ok(n)'
               /\ breaker.state = "closed" => Proven = {} /\ Proven' = {}
    <3>1. /\ Sent(breaker.generation)' = Sent(n)' /\ Gone(breaker.generation)' = Gone(n)'
          /\ Ok(breaker.generation)' = Ok(n)'
      BY <1>1, <2>6 DEF Sent, Gone, Open, Ok
    <3>2. Out' = Out \ {o}
      BY <1>3, <2>2, <2>3, <2>4, <2>6, <3>1, PeriodAfter
    <3>3. CASE breaker.state = "half-open"
      BY <1>1, <1>3, <2>3, <2>6, <3>1, <3>2, <3>3, PeriodForm, PeriodAfter
    <3>4. CASE breaker.state = "closed"
      BY <1>3, <2>6, <3>2, <3>4, PeriodForm, PeriodAfter
    <3> QED BY <2>2, <3>3, <3>4
  <2>7. CASE breaker.state = "closed"
    <3> DEFINE k == IF failed THEN 1 ELSE 0
    <3>1. k \in {0, 1} /\ now = recent + k /\ recent \in 0 .. Remembered
          /\ Remembered = breaker.failures
      BY <1>3, <2>7, PeriodForm DEF now
    <3> HIDE DEF k
    <3>2. CASE breaker'.state = "open" /\ now >= FailureCount
      <4>1. Circuit!Hear(o, k)
        BY <1>6, <2>4, <2>5, <2>7, <3>1, <3>2 DEF Circuit!Hear
      <4> QED BY <3>1, <4>1 DEF Moves, Circuit!Next
    <3>3. CASE /\ breaker'.state = "closed" /\ breaker'.generation = breaker.generation
               /\ breaker'.failures = IF now < FailureCount THEN now ELSE FailureCount
      <4>1. Remembered' = breaker'.failures
        BY <1>3, <3>3, PeriodAfter
      <4>2. Out' = Out \ {o} /\ Lost' = Lost /\ Proven' = Proven /\ Status' = Status
        BY <1>6, <2>6, <2>7, <3>3
      <4>3. Remembered' = IF recent + k < FailureCount THEN recent + k ELSE FailureCount
        BY <3>1, <3>3, <4>1
      <4>4. Circuit!Hear(o, k)
        BY <1>6, <2>4, <2>7, <3>1, <4>2, <4>3 DEF Circuit!Hear
      <4> QED BY <3>1, <4>4 DEF Moves, Circuit!Next
    <3> QED BY <2>2, <2>7, <3>2, <3>3
  <2>8. CASE breaker.state = "half-open" /\ failed
    <3>1. Circuit!Fail(o)
      BY <1>6, <2>2, <2>4, <2>5, <2>8 DEF Circuit!Fail
    <3> QED BY <3>1 DEF Moves, Circuit!Next
  <2>9. CASE breaker.state = "half-open" /\ ~failed
    <3>1. Proven = Ok(n) /\ breaker.successes = Cardinality(Ok(n))
      BY <1>1, <1>3, <2>9, PeriodForm DEF RuntimeInv, BreakerInv, Succeeded, Ok
    <3>2. Cardinality(Proven \cup {o}) = breaker.successes + 1
      <4>1. o \notin Ok(n) /\ IsFiniteSet(Ok(n))
        BY <1>2, <1>4, CallSets DEF Ok
      <4> QED BY <3>1, <4>1, FS_AddElement
    <3>3. CASE breaker.successes + 1 >= HalfOpenMax
      <4>1. /\ breaker'.state = "closed" /\ breaker'.generation = n + 1
            /\ breaker'.failures = 0
        BY <1>1, <2>2, <2>9, <3>3
      <4>2. Out' = {}
        <5>1. n + 1 \in Nat /\ Sent(n + 1) = {}
          BY <1>3 DEF Sent, Pending
        <5>2. Sent(n + 1)' = {}
          BY <1>2, <1>4, <2>1, <2>9, <5>1
        <5>3. Sent(breaker.generation)' = Sent(n + 1)'
          BY <4>1 DEF Sent
        <5> QED BY <1>3, <4>1, <5>2, <5>3, PeriodAfter
      <4>3. Lost' = {} /\ Proven' = {} /\ Remembered' = 0
        BY <1>3, <4>1, PeriodAfter
      <4>4. Circuit!Succeed(o)
        <5>1. Circuit!Begins("closed", {})
          BY <1>6, <4>1, <4>2, <4>3 DEF Circuit!Begins
        <5>2. Cardinality(Proven \cup {o}) >= HalfOpenMax /\ Status = "half-open"
          BY <1>6, <2>9, <3>2, <3>3
        <5> QED BY <2>4, <5>1, <5>2, SameCount DEF Circuit!Succeed
      <4> QED BY <4>4 DEF Moves, Circuit!Next
    <3>4. CASE ~(breaker.successes + 1 >= HalfOpenMax)
      <4>1. breaker'.state = "half-open" /\ breaker'.generation = breaker.generation
        BY <2>2, <2>9, <3>4
      <4>2. Out' = Out \ {o} /\ Lost' = Lost /\ Proven' = Proven \cup {o}
        BY <2>3, <2>6, <2>9, <4>1
      <4>3. Remembered = 0 /\ Remembered' = 0
        BY <1>3, <2>9, <4>1, PeriodForm, PeriodAfter
      <4>4. Circuit!Succeed(o)
        <5>1. /\ ~(Cardinality(Proven \cup {o}) >= HalfOpenMax)
              /\ Status = "half-open" /\ Status' = Status
          BY <1>6, <2>9, <3>2, <3>4, <4>1
        <5> QED BY <2>4, <4>2, <4>3, <5>1, SameCount DEF Circuit!Succeed
      <4> QED BY <4>4 DEF Moves, Circuit!Next
    <3> QED BY <3>3, <3>4
  <2> QED BY <2>2, <2>7, <2>8, <2>9
<1> QED BY <1>8, <1>9
\* A call gives its slot back, or is admitted anew in the place of its earlier admission.
LEMMA AdmissionMoves ==
  ASSUME RuntimeInv, RuntimeInv', NEW o \in Op, Rest(o), Heeds(o), ~Silent(o),
         Resigns(o) \/ Enters(o), state = "running", state' = state
  PROVE  Moves
<1> DEFINE g == call[o].generation
           W == Without(o)
<1>1. PICK n \in Nat : n = breaker.generation
  BY Running
<1>2. /\ breaker \in Breaker /\ breaker' \in Breaker /\ g \in Int
      /\ breaker.state \in {"closed", "open", "half-open"}
      /\ \A p \in Op : call[p].generation \in Int /\ call[p].generation <= n
  BY <1>1, Running DEF RuntimeInv, BreakerInv
<1>3. \A k \in Nat :
        /\ Sent(k)' = IF call'[o].at \notin {"idle", "done"} /\ call'[o].generation = k
                      THEN Sent(k) \cup {o} ELSE Sent(k) \ {o}
        /\ Gone(k)' = IF /\ call'[o].at = "done" /\ call'[o].generation = k
                         /\ call'[o].outcome # "ok"
                      THEN Gone(k) \cup {o} ELSE Gone(k) \ {o}
        /\ Ok(k)' = IF call'[o].generation = k /\ call'[o].outcome = "ok"
                    THEN Ok(k) \cup {o} ELSE Ok(k) \ {o}
        /\ o \in Sent(k) <=> call[o].at \notin {"idle", "done"} /\ call[o].generation = k
        /\ o \in Gone(k) <=> /\ call[o].at = "done" /\ call[o].generation = k
                             /\ call[o].outcome # "ok"
        /\ o \in Ok(k) <=> call[o].generation = k /\ call[o].outcome = "ok"
        /\ Sent(k) \cup Gone(k) = Open(k)
  BY SetsAfter DEF RuntimeInv
<1>4. /\ call[o].at # "done" /\ call[o].outcome # "ok" /\ call'[o].outcome # "ok"
  BY DEF Heeds, Resigns, Enters
<1>5. Status = breaker.state /\ Status' = breaker'.state
  BY DEF Status
<1>6. /\ W \in Breaker
      /\ breaker.state # "half-open" => W = breaker
      /\ breaker.state = "half-open" =>
           /\ W.state = "half-open" /\ W.generation = n
           /\ W.inFlight = IF g = n THEN OneLess(breaker.inFlight) ELSE breaker.inFlight
  BY <1>1, <1>2, WithoutForm
<1>7. W.generation = n /\ W.state = breaker.state
  BY <1>1, <1>6
<1> HIDE DEF W
<1>8. /\ \/ Probing(W) = W
         \/ /\ W.state = "open" /\ Probing(W).state = "half-open"
            /\ Probing(W).generation = W.generation + 1
      /\ AfterAdmission(W).state = Probing(W).state
      /\ AfterAdmission(W).generation = Probing(W).generation
  BY <1>6, ProbingForm
<1>9. NoGeneration # n /\ NoGeneration # n + 1
  BY DEF NoGeneration
\* A new period: none of the calls belongs to it but o, if it is admitted.
<1>10. ASSUME breaker.state = "open", breaker'.state = "half-open",
              breaker'.generation = n + 1, NEW S \in SUBSET {o},
              IF call'[o].generation = n + 1 /\ call'[o].at \notin {"idle", "done"}
                THEN S = {o} ELSE S = {},
              call'[o].generation = n + 1 => call'[o].at # "done"
       PROVE  Circuit!Probe(S)
  <2>1. /\ n + 1 \in Nat /\ Sent(n + 1) = {} /\ Gone(n + 1) = {} /\ Ok(n + 1) = {}
    <3>1. \A p \in Op : call[p].generation # n + 1
      BY <1>2
    <3> QED BY <3>1 DEF Sent, Gone, Open, Ok, Pending
  <2>2. Sent(n + 1)' = S /\ Gone(n + 1)' = {} /\ Ok(n + 1)' = {}
    BY <1>3, <1>4, <1>10, <2>1
  <2>3. /\ Sent(breaker.generation)' = Sent(n + 1)' /\ Ok(breaker.generation)' = Ok(n + 1)'
        /\ Gone(breaker.generation)' = Gone(n + 1)'
    BY <1>10 DEF Sent, Gone, Open, Ok
  <2>4. Out' = S /\ Lost' = {} /\ Proven' = {} /\ Remembered' = 0
    BY <1>2, <1>10, <2>2, <2>3, PeriodAfter
  <2>5. Cardinality(S) <= 1
    BY FS_Singleton, FS_EmptySet
  <2> QED BY <1>5, <1>10, <2>4, <2>5, SameCount DEF Circuit!Probe, Circuit!Begins
\* The period goes on: successes and lost slots stay, remembered failures too.
<1>11. ASSUME breaker'.state = breaker.state, breaker'.generation = n,
              breaker.state = "closed" => breaker'.failures = breaker.failures,
              call'[o].generation = n => call'[o].at # "done"
       PROVE  /\ Status' = Status /\ Lost' = Lost /\ Proven' = Proven
              /\ Remembered' = Remembered
              /\ Out = IF breaker.state = "open" THEN {} ELSE Sent(n)
              /\ Out' = IF breaker.state = "open" THEN {} ELSE Sent(n)'
  <2>1. Gone(n)' = Gone(n) /\ Ok(n)' = Ok(n)
    <3>1. o \notin Gone(n) /\ o \notin Ok(n)
      BY <1>3, <1>4
    <3>2. Gone(n)' = Gone(n) \ {o} /\ Ok(n)' = Ok(n) \ {o}
      BY <1>3, <1>4, <1>11
    <3> QED BY <3>1, <3>2
  <2>2. /\ Sent(breaker.generation)' = Sent(n)' /\ Ok(breaker.generation)' = Ok(n)'
        /\ Gone(breaker.generation)' = Gone(n)'
    BY <1>11 DEF Sent, Gone, Open, Ok
  <2>3. CASE breaker.state = "open"
    BY <1>2, <1>5, <1>11, <2>3, PeriodForm, PeriodAfter
  <2>4. CASE breaker.state = "closed"
    BY <1>1, <1>2, <1>5, <1>11, <2>2, <2>4, PeriodForm, PeriodAfter
  <2>5. CASE breaker.state = "half-open"
    BY <1>1, <1>2, <1>5, <1>11, <2>1, <2>2, <2>5, PeriodForm, PeriodAfter
  <2> QED BY <1>2, <2>3, <2>4, <2>5
<1>12. CASE Resigns(o)
  <2>1. breaker' \in {W, Probing(W)} /\ call'[o].generation = NoGeneration
    BY <1>12 DEF Resigns, W
  <2>2. CASE breaker' = W
    <3>1. /\ Status' = Status /\ Lost' = Lost /\ Proven' = Proven
          /\ Remembered' = Remembered
          /\ Out = IF breaker.state = "open" THEN {} ELSE Sent(n)
          /\ Out' = IF breaker.state = "open" THEN {} ELSE Sent(n)'
      BY <1>6, <1>7, <1>9, <1>11, <2>1, <2>2
    <3>2. Sent(n)' = Sent(n) \ {o}
      BY <1>3, <1>9, <2>1
    <3>3. CASE breaker.state # "open" /\ o \in Sent(n)
      <4>1. o \in Out /\ Out' = Out \ {o} /\ Status # "retired"
        BY <1>2, <1>5, <3>1, <3>2, <3>3
      <4>2. Circuit!Withdraw(o)
        BY <3>1, <4>1 DEF Circuit!Withdraw
      <4> QED BY <4>2 DEF Moves, Circuit!Next
    <3>4. CASE ~(breaker.state # "open" /\ o \in Sent(n))
      BY <3>1, <3>2, <3>4 DEF Moves, Stays
    <3> QED BY <3>3, <3>4
  <2>3. CASE breaker' # W
    <3>1. breaker' = Probing(W) /\ breaker.state = "open" /\ breaker'.state = "half-open"
          /\ breaker'.generation = n + 1
      BY <1>7, <1>8, <2>1, <2>3
    <3>2. Circuit!Probe({})
      BY <1>9, <1>10, <2>1, <3>1
    <3> QED BY <3>2 DEF Moves, Circuit!Next
  <2> QED BY <2>2, <2>3
<1>13. CASE Enters(o)
  <2>1. /\ Admits(W) /\ breaker' = AfterAdmission(W)
        /\ call'[o].generation = Probing(W).generation /\ call'[o].at \notin {"idle", "done"}
    BY <1>13 DEF Enters, W
  <2>2. CASE Probing(W) = W
    <3>1. /\ breaker.state # "open" /\ breaker'.state = breaker.state
          /\ breaker'.generation = n /\ call'[o].generation = n
          /\ W.state = "half-open" => W.inFlight < HalfOpenMax
          /\ breaker.state = "closed" => breaker' = breaker
      BY <1>6, <1>7, <1>8, <2>1, <2>2 DEF Admits, AfterAdmission
    <3>2. /\ Status' = Status /\ Lost' = Lost /\ Proven' = Proven
          /\ Remembered' = Remembered /\ Out = Sent(n) /\ Out' = Sent(n)'
      BY <1>11, <2>1, <3>1
    <3>3. Out' = Out \cup {o}
      BY <1>3, <2>1, <3>1, <3>2
    <3>4. ASSUME Status = "half-open"
          PROVE  Cardinality((Out \cup Lost) \ {o}) < HalfOpenMax
      <4>1. breaker.state = "half-open" /\ Lost = Gone(n)
        BY <1>1, <1>2, <1>5, <3>4, PeriodForm
      <4>2. Out \cup Lost = Open(n) /\ IsFiniteSet(Open(n))
        BY <1>3, <3>2, <4>1, CallSets DEF Open
      <4>3. breaker.inFlight = Cardinality(Open(n)) /\ W.inFlight < HalfOpenMax
        BY <1>1, <1>7, <3>1, <4>1 DEF RuntimeInv, BreakerInv, ProbesAccounted, Probes, Open
      <4>4. Cardinality(Open(n)) \in Nat /\ Cardinality(Open(n) \ {o}) =
              IF o \in Open(n) THEN Cardinality(Open(n)) - 1 ELSE Cardinality(Open(n))
        BY CountsAfter
      <4>5. CASE o \in Open(n)
        <5>1. g = n /\ Cardinality(Open(n)) # 0
          BY <4>2, <4>5, FS_EmptySet DEF Open
        <5>2. W.inFlight = Cardinality(Open(n)) - 1
          BY <1>6, <4>1, <4>3, <4>4, <5>1 DEF OneLess
        <5> QED BY <4>2, <4>3, <4>4, <4>5, <5>2
      <4>6. CASE o \notin Open(n)
        <5>1. g # n
          BY <1>4, <4>6 DEF Open
        <5> QED BY <1>6, <4>1, <4>2, <4>3, <4>4, <4>6, <5>1
      <4> QED BY <4>5, <4>6
    <3>5. Circuit!Admit(o)
      BY <1>2, <1>5, <3>1, <3>2, <3>3, <3>4, SameCount DEF Circuit!Admit
    <3> QED BY <3>5 DEF Moves, Circuit!Next
  <2>3. CASE Probing(W) # W
    <3>1. /\ breaker.state = "open" /\ breaker'.state = "half-open"
          /\ breaker'.generation = n + 1 /\ call'[o].generation = n + 1
      BY <1>7, <1>8, <2>1, <2>3
    <3>2. Circuit!Probe({o}) /\ {o} \in SUBSET Op
      BY <1>10, <2>1, <3>1
    <3> QED BY <3>2 DEF Moves, Circuit!Next
  <2> QED BY <2>2, <2>3
<1> QED BY <1>12, <1>13
\* From the shutdown on, calls leave the breaker's period and none enters.
LEMMA RetiredMoves ==
  ASSUME RuntimeInv, RuntimeInv', Aborted, NEW o \in Op, CallStep(o), state # "running"
  PROVE  Moves
<1>1. /\ state' = state /\ Rest(o) /\ Tells(o) /\ Heeds(o) /\ call[o].at # "idle"
  BY DEF CallStep, Kept
<1>2. /\ Status = "retired" /\ Status' = "retired"
      /\ Lost = {} /\ Lost' = {} /\ Proven = {} /\ Proven' = {}
      /\ Remembered = 0 /\ Remembered' = 0
  BY <1>1 DEF Status, Lost, Proven, Remembered, HalfOpen
<1>3. ASSUME NEW p \in Out' PROVE p \in Out
  <2>1. /\ p \in Op /\ call'[p].at \notin {"idle", "done"} /\ breaker'.state # "open"
        /\ call'[p].generation = breaker'.generation
    BY <1>3 DEF Out, Pending
  <2>2. p \in Pending /\ (p # o => call'[p].generation = call[p].generation)
    BY <1>1, <2>1 DEF Rest, Heeds, Pending
  <2>3. ~Over /\ call[p].abort # "none"
    BY <2>2 DEF Over, Aborted
  <2>4. PICK n \in Nat : n = breaker.generation
    BY DEF RuntimeInv, BreakerInv, Breaker
  <2>5. /\ breaker \in Breaker /\ breaker' \in Breaker /\ NoGeneration # n
        /\ \A k \in Nat : NoGeneration # k
        /\ \A q \in Op : call[q].generation \in Int /\ call[q].generation <= n
    BY <2>3, <2>4 DEF RuntimeInv, BreakerInv, NoGeneration, BulkheadInv, CallsSound, Call
  <2>6. call'[o].outcome = "ok" => call'[o].at = "done"
    BY DEF RuntimeInv, BulkheadInv, CallsSound, Sound
  \* It is enough that the period and the call's admission are the same.
  <2>7. SUFFICES breaker.state # "open" /\ call[p].generation = n
    BY <2>2, <2>4 DEF Out
  <2>8. CASE Silent(o)
    BY <2>1, <2>2, <2>4, <2>8 DEF Silent
  <2>9. CASE ReportsSuccess(o) \/ ReportsFailure(o)
    <3> DEFINE g == call[o].generation
    <3>1. PICK failed \in BOOLEAN, recent \in 0 .. breaker.failures, dense \in BOOLEAN :
            breaker' = Recorded(breaker, g, failed, recent, dense)
      BY <2>9 DEF ReportsSuccess, ReportsFailure, Records
    <3>2. breaker'.generation >= n
      BY <2>4, <2>5, <3>1, RecordedForm
    <3>3. breaker.state # "open"
      <4>1. breaker.state = "open" => breaker' = breaker
        BY <3>1 DEF Recorded, Counts
      <4> QED BY <2>1, <4>1
    <3>4. p # o
      <4>1. SUFFICES ASSUME p = o PROVE FALSE
        OBVIOUS
      <4>2. call'[o].generation = NoGeneration
        BY <2>1, <2>6, <2>9, <4>1 DEF ReportsSuccess, ReportsFailure
      <4>3. breaker'.generation \in Nat
        BY <2>5 DEF Breaker
      <4> QED BY <2>1, <2>5, <4>1, <4>2, <4>3
    <3>5. call[p].generation = breaker'.generation
      BY <2>1, <2>2, <3>4
    <3>6. call[p].generation = n
      BY <2>1, <2>5, <3>2, <3>5
    <3> QED BY <3>3, <3>6
  <2>10. CASE Resigns(o)
    <3> DEFINE W == Without(o)
    <3>1. /\ W \in Breaker /\ W.generation = n /\ W.state = breaker.state
      BY <2>4, <2>5, WithoutForm
    <3>2. breaker' \in {W, Probing(W)} /\ call'[o].generation = NoGeneration
      BY <2>10 DEF Resigns
    <3> HIDE DEF W
    <3>3. Probing(W) = W \/ Probing(W).generation = n + 1
      BY <3>1, ProbingForm
    <3>4. breaker'.generation \in {n, n + 1} /\ (breaker' = W \/ breaker'.generation = n + 1)
      BY <3>1, <3>2, <3>3
    <3>5. p # o
      <4>1. n + 1 \in Nat
        OBVIOUS
      <4> QED BY <2>1, <2>5, <3>2, <3>4, <4>1
    <3>6. call[p].generation = breaker'.generation
      BY <2>1, <2>2, <3>5
    <3>7. call[p].generation = n /\ breaker' = W
      BY <2>1, <2>5, <3>4, <3>6
    <3> QED BY <2>1, <3>1, <3>7
  <2>11. ~Enters(o)
    <3>1. call[o].at # "done" => call[o].abort # "none"
      BY <1>1 DEF Aborted, Pending
    <3>2. call[o].at = "done" => call'[o].at = "done"
      BY <1>1 DEF Heeds
    <3> QED BY <3>1, <3>2 DEF Enters
  <2> QED BY <1>1, <2>8, <2>9, <2>10, <2>11 DEF Tells
<1>4. Circuit!Drain
  <2>1. Out' \in SUBSET Out
    BY <1>3
  <2> QED BY <1>2, <2>1 DEF Circuit!Drain
<1> QED BY <1>4 DEF Moves, Circuit!Next

\* The shutdown retires the breaker, and nothing else but the calls touches its period.
LEMMA NextMoves == RuntimeInv /\ RuntimeInv' /\ Aborted /\ [Next]_vars => Moves
<1> SUFFICES ASSUME RuntimeInv, RuntimeInv', Aborted, [Next]_vars PROVE Moves
  OBVIOUS
<1>1. ASSUME NEW o \in Op, CallStep(o) PROVE Moves
  <2>1. state' = state /\ Rest(o) /\ Tells(o) /\ Heeds(o)
    BY <1>1 DEF CallStep, Kept
  <2>2. CASE state # "running"
    BY <1>1, <2>2, RetiredMoves
  <2>3. CASE state = "running" /\ Silent(o)
    BY <2>1, <2>3, SilentMoves
  <2>4. CASE state = "running" /\ ~Silent(o)
    BY <2>1, <2>4, ReportMoves, AdmissionMoves DEF Tells
  <2> QED BY <2>2, <2>3, <2>4
<1>2. CASE Shutdown
  <2>1. state' = "draining" /\ breaker' = breaker
    BY <1>2 DEF Shutdown
  <2>2. ASSUME NEW p \in Op
        PROVE call'[p].at = call[p].at /\ call'[p].generation = call[p].generation
    <3>1. call[p] \in Call
      BY DEF RuntimeInv, BulkheadInv, CallsSound
    <3> DEFINE d == [call[p] EXCEPT !.abort = "shutdown"]
    <3>2. call'[p] = IF p \in Pending /\ call[p].abort = "none" THEN d ELSE call[p]
      BY <1>2 DEF Shutdown
    <3>3. d.generation = call[p].generation /\ d.at = call[p].at
      BY <3>1 DEF Call
    <3> QED BY <3>2, <3>3
  <2>3. Out' = Out
    BY <2>1, <2>2 DEF Out, Pending
  <2>4. Status' = "retired" /\ Lost' = {} /\ Proven' = {} /\ Remembered' = 0
    BY <2>1 DEF Status, Lost, Proven, Remembered, HalfOpen
  <2>5. CASE state = "running"
    <3>1. Status # "retired"
      BY <2>5, Running DEF Status
    <3>2. Circuit!Retire
      BY <2>3, <2>4, <3>1 DEF Circuit!Retire
    <3> QED BY <3>2 DEF Moves, Circuit!Next
  <2>6. CASE state # "running"
    <3>1. Status = "retired" /\ Lost = {} /\ Proven = {} /\ Remembered = 0
      BY <2>6 DEF Status, Lost, Proven, Remembered, HalfOpen
    <3> QED BY <2>3, <2>4, <3>1 DEF Moves, Stays
  <2> QED BY <2>5, <2>6
<1>3. CASE ForgetEntry \/ ShutdownTimesOut \/ UNCHANGED vars
  <2>1. UNCHANGED <<state, call, breaker>>
    BY <1>3 DEF ForgetEntry, ShutdownTimesOut, vars
  <2> QED BY <2>1 DEF Moves, Stays, Status, Out, Lost, Proven, Remembered, HalfOpen, Probes,
                      Pending
<1>4. CASE BreakerCools
  <2>1. /\ breaker.state = "open" /\ breaker'.state = "open" /\ state' = state
    BY <1>4 DEF BreakerCools, RuntimeInv, BreakerInv, Breaker
  <2> QED BY <2>1 DEF Moves, Stays, Status, Out, Lost, Proven, Remembered, HalfOpen
<1>5. CASE ShutdownSucceeds \/ DisposerFails
  <2>1. /\ Pending = {} /\ call' = call /\ state # "running" /\ state' # "running"
    BY <1>5 DEF ShutdownSucceeds, DisposerFails, Drained, Cleared, RuntimeInv, Lifecycle
  <2>2. Out = {} /\ Out' = {}
    BY <2>1 DEF Out, Pending
  <2> QED BY <2>1, <2>2 DEF Moves, Stays, Status, Lost, Proven, Remembered, HalfOpen
<1> QED BY <1>1, <1>2, <1>3, <1>4, <1>5, StepForms

\* The breaker of the managed runtime is one of CircuitBreaker: a call counts once and only
\* in the period that admitted it, and from the shutdown on none is admitted.
THEOREM RuntimeImplementsBreaker == Spec => ImplementsBreaker
<1>1. Init => Aborted /\ Circuit!Init
  <2>1. SUFFICES ASSUME Init PROVE Aborted /\ Circuit!Init
    OBVIOUS
  <2>2. /\ state = "running" /\ breaker.state = "closed" /\ breaker.failures = 0
        /\ Pending = {}
    BY <2>1 DEF Init, ClosedBreaker, Pending, FreshCall
  <2> QED BY <2>2 DEF Aborted, Circuit!Init, Status, Out, Lost, Proven, Remembered, HalfOpen,
                      Pending
<1>2. RuntimeInv /\ Aborted /\ [Next]_vars => Aborted'
  BY AbortedKept
<1>3. RuntimeInv /\ RuntimeInv' /\ Aborted /\ [Next]_vars => [Circuit!Next]_Circuit!circuit
  BY NextMoves DEF Moves, Stays, Circuit!circuit
<1>4. Spec => []Aborted
  BY RuntimeInvHolds, <1>1, <1>2, PTL DEF Spec
<1>5. Spec => Circuit!Spec
  BY RuntimeInvHolds, <1>1, <1>3, <1>4, PTL DEF Spec, Circuit!Spec
<1> QED BY <1>5 DEF ImplementsBreaker
================================================================================
