------------------------ MODULE JobsLeaseRenewal_proofs ------------------------
(***************************************************************************)
(* The renewal protocol never loses a lease to a dependable store, for     *)
(* every interval, latency, recovery grace and number of renewals: as long *)
(* as applying a request and reading the run take together less than half  *)
(* a lease.  The answers to the requests may all be lost or late.          *)
(***************************************************************************)
EXTENDS JobsLeaseRenewal, TLAPS

\* What the theorems ask of the store: it applies every request and answers every read,
\* both within half a lease, and stale recovery grants the time a request takes.
KeepsItsTimes ==
    /\ Dependable
    /\ Latency + ReadLatency < Interval
    /\ Latency <= RecoveryAfterMs

\* The requests are those sent so far; the others have not been touched.
Typed ==
    /\ TypeOK
    /\ \A n \in Request : IF n > sent THEN req[n] = Unsent
                          ELSE req[n].call # "none" /\ req[n].answer # "none"

\* What is known of request n, which may be an older one.
Kept(n) ==
    /\ req[n].call = "sent" => Age(n) <= Latency /\ (held => lease + Age(n) > 0)
    /\ req[n].call = "applied" => lease >= req[n].want
    /\ held => req[n].call # "refused"
    /\ req[n].answer \notin {"none", "awaited"} => req[n].call # "sent"
    /\ req[n].guard = "armed" => Age(n) <= Interval
    /\ req[n].guard = "reading" =>
         /\ Age(n) + req[n].guardLeft = LeaseMs
         /\ req[n].guardLeft \in (Interval - ReadLatency) .. Interval

\* The newest request is the current one until its guard fences it.
Newest ==
    /\ current \in {0, sent} /\ renewal \in {0, sent}
    /\ held => active
    /\ held /\ sent > 0 =>
         /\ req[sent].guard \in {"armed", "reading"} => current = sent
         /\ req[sent].guard = "armed" => renewal = sent
         /\ renewal # 0 => req[sent].guard \in {"armed", "reading"}
         /\ renewal = 0 => req[sent].call # "sent"

\* The heartbeat comes before the lease asked for last has run out.
InTime ==
    held /\ phase = "handling" /\ sent < MaxRequests =>
      /\ sent = 0 => lease = Interval + beat
      /\ sent > 0 /\ renewal = 0 /\ req[sent].guard # "reading" =>
            Age(sent) + beat < LeaseMs

LeaseInv == (\A n \in Request : Kept(n)) /\ Newest /\ InTime

--------------------------------------------------------------------------------
(* Types.                                                                  *)

\* The durations are numbers and the request records well formed.
LEMMA RequestFacts ==
    /\ Interval \in Nat \ {0} /\ MaxRequests \in Nat \ {0}
    /\ Floor \in Int /\ LeaseMs \in Nat /\ Floor < 0 /\ 0 < LeaseMs
    /\ Unsent \in RequestRecord /\ Fresh \in RequestRecord
BY RenewalConstants DEF RequestRecord, Waiting, Unsent, Fresh, Floor, LeaseMs

\* A request has a call and an answer to wait for exactly when it was sent.
LEMMA SentFacts ==
  ASSUME Typed, NEW n \in Request
  PROVE  /\ req \in [Request -> RequestRecord] /\ req[n] \in RequestRecord
         /\ n \in Nat \ {0} /\ sent \in 0 .. MaxRequests /\ sent \in Nat /\ n <= MaxRequests
         /\ n <= sent <=> req[n].call # "none"
         /\ n <= sent <=> req[n].answer # "none"
         /\ req[n].guard # "none" => n <= sent
BY RequestFacts DEF Typed, TypeOK, Request, Unsent

\* What the passing of time does to a request leaves it a request.
LEMMA Refilled ==
  ASSUME NEW r \in RequestRecord, NEW w \in Floor .. LeaseMs,
         NEW x \in 0 .. Interval, NEW y \in 0 .. Interval
  PROVE  [r EXCEPT !.want = w, !.answerLeft = x, !.guardLeft = y] \in RequestRecord
BY DEF RequestRecord

\* What a step may do to the requests other than send one.
Touches(n, requests) ==
    /\ requests \in [Request -> RequestRecord]
    /\ requests[n].call # "none" /\ requests[n].answer # "none"
    /\ \A m \in Request \ {n} : requests[m] = req[m]

\* renewLease keeps the types, whether it sends a request or not.
LEMMA RenewType ==
  ASSUME Typed, NEW n \in Request, n <= sent, NEW requests, Touches(n, requests),
         NEW pending \in 0 .. sent, NEW generation \in 0 .. sent,
         RenewLease(requests, pending, generation)
  PROVE  /\ req' \in [Request -> RequestRecord] /\ sent' \in 0 .. MaxRequests
         /\ sent <= sent' /\ current' \in 0 .. sent' /\ renewal' \in 0 .. sent'
         /\ \A m \in Request : IF m > sent' THEN req'[m] = Unsent
                                ELSE req'[m].call # "none" /\ req'[m].answer # "none"
<1> USE RequestFacts
<1>1. CASE MayRenew(pending) /\ sent < MaxRequests
  <2>1. /\ sent + 1 \in Request /\ sent + 1 # n
        /\ req' = [requests EXCEPT ![sent + 1] = Fresh]
        /\ sent' = sent + 1 /\ current' = sent + 1 /\ renewal' = sent + 1
    BY <1>1 DEF RenewLease, Request, Typed, TypeOK
  <2>2. req' \in [Request -> RequestRecord]
    BY <2>1 DEF Touches
  <2>3. \A m \in Request : req'[m] = IF m = sent + 1 THEN Fresh ELSE requests[m]
    BY <2>1 DEF Touches
  <2>4. Fresh.call # "none" /\ Fresh.answer # "none"
    BY DEF Fresh
  <2> QED BY <2>1, <2>2, <2>3, <2>4 DEF Typed, TypeOK, Touches, Request
<1>2. CASE ~(MayRenew(pending) /\ sent < MaxRequests)
  BY <1>2 DEF RenewLease, Typed, TypeOK, Touches, Request
<1> QED BY <1>1, <1>2

\* The heartbeat keeps the types.
LEMMA HeartbeatType ==
  ASSUME Typed, Heartbeat
  PROVE  Typed'
<1> USE RequestFacts
<1>1. \E n \in Request : TRUE
  BY DEF Request
<1>2. CASE sent > 0
  <2>1. sent \in Request /\ Touches(sent, req)
    BY <1>2 DEF Typed, TypeOK, Touches, Request
  <2> QED BY <2>1, RenewType DEF Heartbeat, Typed, TypeOK
<1>3. CASE sent = 0
  BY <1>3 DEF Heartbeat, RenewLease, Typed, TypeOK, Request, Fresh
<1> QED BY <1>2, <1>3 DEF Typed, TypeOK

\* The passing of time keeps the types.
LEMMA TickType ==
  ASSUME Typed, Tick
  PROVE  Typed'
<1>1. \A n \in Request :
        /\ req'[n] \in RequestRecord
        /\ req'[n].call = req[n].call /\ req'[n].answer = req[n].answer
        /\ req[n] = Unsent => req'[n] = Unsent
  <2> TAKE n \in Request
  <2>1. CASE req[n].call = "none"
    <3>1. req'[n] = req[n]
      BY <2>1 DEF Tick
    <3> QED BY <3>1, SentFacts
  <2>2. CASE req[n].call # "none"
    <3> DEFINE w == Sooner(req[n].want)
               x == IF Reading(n) THEN Left(req[n].answerLeft) ELSE 0
               y == IF req[n].guard = "reading" THEN Left(req[n].guardLeft) ELSE 0
    <3>1. req'[n] = [req[n] EXCEPT !.want = w, !.answerLeft = x, !.guardLeft = y]
      BY <2>2 DEF Tick
    <3>2. req[n] \in RequestRecord
      BY DEF Typed, TypeOK
    <3>3. w \in Floor .. LeaseMs /\ x \in 0 .. Interval /\ y \in 0 .. Interval
      BY <3>2, RequestFacts DEF RequestRecord, Sooner, Left
    <3>4. req[n] # Unsent
      BY <2>2 DEF Unsent
    <3> HIDE DEF w, x, y
    <3>5. req'[n] \in RequestRecord
      <4>1. [req[n] EXCEPT !.want = w, !.answerLeft = x, !.guardLeft = y] \in RequestRecord
        BY <3>2, <3>3, Refilled
      <4> QED BY <3>1, <4>1
    <3> QED BY <3>1, <3>2, <3>4, <3>5 DEF RequestRecord
  <2> QED BY <2>1, <2>2
<1>2. req' \in [Request -> RequestRecord]
  BY <1>1 DEF Tick
<1>3. lease' \in Floor .. LeaseMs /\ beat' \in 0 .. Interval
  <2>1. lease \in Floor .. LeaseMs /\ beat \in 0 .. Interval
    BY DEF Typed, TypeOK
  <2>2. lease' = Sooner(lease) /\ beat' = Left(beat)
    BY DEF Tick
  <2> QED BY <2>1, <2>2, RequestFacts DEF Sooner, Left
<1> QED BY <1>1, <1>2, <1>3 DEF Typed, TypeOK, Tick

\* The store keeps the types.
LEMMA ApplyType ==
  ASSUME Typed, NEW n \in Request, Apply(n)
  PROVE  Typed'
<1> USE RequestFacts
<1>1. lease' \in Floor .. LeaseMs
  BY DEF Apply, Extended, Typed, TypeOK, RequestRecord
<1>2. PICK c \in {"applied", "refused"} : req' = [req EXCEPT ![n].call = c]
  BY DEF Apply
<1>3. n <= sent
  BY SentFacts DEF Apply
<1>4. Touches(n, req')
  BY <1>2, <1>3, SentFacts DEF Touches, RequestRecord
<1> QED BY <1>1, <1>3, <1>4 DEF Touches, Apply, Typed, TypeOK, Request

\* The answer or the guard of a request that was sent, without a new one.
LEMMA ContinuationType ==
  ASSUME Typed, NEW n \in Request,
         \/ Answer(n) \/ GuardFires(n) \/ GuardRevokes(n)
         \/ \E seen \in BOOLEAN : AnswerRecovers(n, seen)
  PROVE  Typed'
<1> USE RequestFacts
<1>1. n <= sent
  BY DEF Answer, AnsweredTrue, AnsweredBadly, GuardFires, GuardDue, GuardRevokes, AnswerRecovers,
         Typed, TypeOK, Unsent, Request
<1>2. /\ req' \in [Request -> RequestRecord]
      /\ req'[n].call = req[n].call /\ req'[n].answer # "none"
      /\ \A m \in Request \ {n} : req'[m] = req[m]
  <2>1. CASE Answer(n)
    BY <2>1, <1>1 DEF Answer, AnsweredTrue, AnsweredBadly, Settle, Done, Typed, TypeOK,
                       RequestRecord, Waiting
  <2>2. CASE GuardFires(n) \/ GuardRevokes(n)
    <3>1. req \in [Request -> RequestRecord] /\ req[n].answer # "none"
      BY <1>1, SentFacts
    <3>2. \E g \in {"reading", "done"}, x \in 0 .. Interval :
            \/ req' = [req EXCEPT ![n].guard = g, ![n].guardLeft = x]
            \/ req' = [req EXCEPT ![n].guard = g]
      BY <2>2 DEF GuardFires, GuardRevokes
    <3> QED BY <3>1, <3>2 DEF RequestRecord
  <2>3. CASE \E seen \in BOOLEAN : AnswerRecovers(n, seen)
    <3>1. req \in [Request -> RequestRecord] /\ req[n] \in RequestRecord
      BY SentFacts
    <3>2. PICK g \in {"none", "armed", "reading", "done"} :
            req' = [req EXCEPT ![n].answer = "done", ![n].guard = g]
      BY <3>1, <2>3 DEF AnswerRecovers, Settle, Done, RequestRecord
    <3> QED BY <3>1, <3>2 DEF RequestRecord
  <2> QED BY <2>1, <2>2, <2>3
<1>3. /\ UNCHANGED <<held, lease, sent, current, beat, phase>>
      /\ renewal' \in {0, renewal} /\ confirmed' \subseteq Request
      /\ active' \in BOOLEAN /\ revokedBy' \in {n, revokedBy}
  BY DEF Answer, AnsweredTrue, AnsweredBadly, GuardFires, GuardRevokes, AnswerRecovers,
         Settle, Cleared, Revoke, Accept, Typed, TypeOK
<1> QED BY <1>1, <1>2, <1>3 DEF Typed, TypeOK, Request

\* A guard that finds the write, and renews again, keeps the types.
LEMMA GuardRecoversType ==
  ASSUME Typed, NEW n \in Request, GuardRecovers(n)
  PROVE  Typed'
<1> USE RequestFacts
<1> DEFINE requests == [req EXCEPT ![n].guard = "done"]
<1>1. n <= sent
  BY DEF GuardRecovers, Typed, TypeOK, Unsent, Request
<1>2. Touches(n, requests)
  <2>1. req \in [Request -> RequestRecord] /\ req[n].answer # "none" /\ req[n].call # "none"
    BY <1>1, SentFacts
  <2> QED BY <2>1 DEF Touches, RequestRecord
<1>3. confirmed' \subseteq Request
  BY DEF GuardRecovers, Accept, Typed, TypeOK
<1>4. CASE current = n
  <2>1. RenewLease(requests, Cleared(n), 0) /\ Cleared(n) \in 0 .. sent /\ 0 \in 0 .. sent
    BY <1>4 DEF GuardRecovers, Cleared, Typed, TypeOK
  <2> HIDE DEF requests
  <2> QED BY <1>1, <1>2, <1>3, <2>1, RenewType DEF GuardRecovers, Typed, TypeOK
<1>5. CASE current # n
  <2>1. /\ req' = requests
        /\ UNCHANGED <<held, lease, sent, current, renewal, beat, active, revokedBy, phase>>
    BY <1>5 DEF GuardRecovers
  <2> HIDE DEF requests
  <2> QED BY <1>1, <1>2, <1>3, <2>1 DEF Touches, Typed, TypeOK, Request
<1> QED BY <1>4, <1>5

\* Every step keeps the types.
LEMMA TypedStep ==
  ASSUME Typed, [Next]_vars
  PROVE  Typed'
<1>1. CASE HandlerSettles \/ Finish \/ TakeAway
  BY <1>1 DEF HandlerSettles, Finish, TakeAway, Typed, TypeOK
<1>2. CASE UNCHANGED vars
  BY <1>2 DEF vars, Typed, TypeOK
<1>3. ASSUME NEW n \in Request, Recover(n) PROVE Typed'
  BY <1>3, ContinuationType, GuardRecoversType DEF Recover
<1> QED BY <1>1, <1>2, <1>3, HeartbeatType, TickType, ApplyType, ContinuationType DEF Next

\* The execution starts out with every variable in its type.
LEMMA TypedInit == Init => Typed
BY RequestFacts DEF Init, Typed, TypeOK, Request

\* Every variable of the renewal protocol stays in its type, whatever the store does.
THEOREM RenewalTyped == Spec => []TypeOK
<1>1. Typed => TypeOK
  BY DEF Typed
<1> QED BY <1>1, TypedInit, TypedStep, PTL DEF Spec

--------------------------------------------------------------------------------
(* The lease of a dependable store.                                        *)

\* The times of the execution and of a request, as numbers.
LEMMA RequestNumbers ==
  ASSUME Typed, NEW n \in Request
  PROVE  /\ Interval \in Nat \ {0} /\ LeaseMs = 2 * Interval /\ Floor = 0 - 2 * Interval
         /\ Latency \in Nat /\ ReadLatency \in 0 .. Interval /\ RecoveryAfterMs \in Nat
         /\ lease \in Int /\ Floor <= lease /\ lease <= LeaseMs /\ beat \in 0 .. Interval
         /\ req[n].want \in Int /\ Floor <= req[n].want /\ req[n].want <= LeaseMs
         /\ req[n].guardLeft \in 0 .. Interval
         /\ Age(n) = 2 * Interval - req[n].want /\ Age(n) \in Nat
<1>1. req[n] \in RequestRecord
  BY SentFacts
<1> QED BY <1>1, RenewalConstants DEF RequestRecord, Typed, TypeOK, LeaseMs, Floor, Age

\* A request keeps what is known of it while its continuations go on and others extend
\* the lease.
LEMMA KeptStays ==
  ASSUME Typed, NEW n \in Request, Kept(n), lease' \in Int, lease <= lease', held' => held,
         req'[n].want = req[n].want, req'[n].call = req[n].call,
         \/ req'[n].answer = req[n].answer
         \/ req[n].call # "sent",
         \/ req'[n].guard \in {"none", "done"}
         \/ req'[n].guard = req[n].guard /\ req'[n].guardLeft = req[n].guardLeft
  PROVE  Kept(n)'
BY RequestNumbers DEF Kept, Age

\* A request just sent, with a lease that has not run out.
LEMMA KeptFresh ==
  ASSUME Typed, NEW n \in Request, req'[n] = Fresh, held' => lease' > 0, lease' \in Int
  PROVE  Kept(n)'
BY RequestNumbers DEF Kept, Age, Fresh

\* A renewal is sent while the lease it extends has not run out.
LEMMA SendKeeps ==
  ASSUME KeepsItsTimes, Typed, \A m \in Request : Kept(m), sent < MaxRequests,
         NEW requests \in [Request -> RequestRecord],
         \A m \in Request : /\ requests[m].want = req[m].want
                            /\ requests[m].call = req[m].call
                            /\ requests[m].answer = req[m].answer
                            /\ requests[m].guardLeft = req[m].guardLeft
                            /\ requests[m].guard \in {"done", req[m].guard},
         req' = [requests EXCEPT ![sent + 1] = Fresh], sent' = sent + 1,
         current' = sent + 1, renewal' = sent + 1, UNCHANGED <<held, lease, active, phase>>,
         held => lease > 0 /\ active
  PROVE  LeaseInv'
<1>1. sent + 1 \in Request /\ sent \in Nat
  BY RequestFacts DEF Request, Typed, TypeOK
<1>2. \A m \in Request : req'[m] = IF m = sent + 1 THEN Fresh ELSE requests[m]
  OBVIOUS
<1>3. lease \in Int
  BY <1>1, RequestNumbers
<1>4. ASSUME NEW m \in Request PROVE Kept(m)'
  <2>1. CASE m = sent + 1
    BY <2>1, <1>1, <1>2, <1>3, KeptFresh
  <2>2. CASE m # sent + 1
    <3>1. req'[m] = requests[m]
      BY <1>2, <2>2
    <3> QED BY <3>1, <1>3, KeptStays
  <2> QED BY <2>1, <2>2
<1>5. req'[sent'] = Fresh /\ sent' # 0
  BY <1>1, <1>2
<1>6. Newest'
  BY <1>5 DEF Newest, Fresh
<1>7. InTime'
  BY <1>5, <1>1 DEF InTime
<1> QED BY <1>4, <1>6, <1>7 DEF LeaseInv

\* The lease has time left when the next renewal is due.
LEMMA TimeLeft ==
  ASSUME KeepsItsTimes, Typed, LeaseInv, held, sent > 0, req[sent].call # "sent",
         req[sent].guard = "reading" \/ Age(sent) + beat < LeaseMs
  PROVE  lease > 0
<1>1. sent \in Request
  BY RequestFacts DEF Request, Typed, TypeOK
<1>2. req[sent].call = "applied"
  BY <1>1, SentFacts DEF LeaseInv, Kept, RequestRecord
<1>3. lease >= req[sent].want
  BY <1>1, <1>2 DEF LeaseInv, Kept
<1> QED BY <1>1, <1>3, RequestNumbers DEF LeaseInv, Kept, KeepsItsTimes

\* A request whose guard reads was applied, if the run is still held.
LEMMA ReadingFinds ==
  ASSUME KeepsItsTimes, Typed, LeaseInv, NEW n \in Request,
         \/ req[n].guard = "reading"
         \/ req[n].answer \notin {"none", "awaited"}
  PROVE  req[n].call # "sent" /\ (held => Recovered(n))
<1>1. req[n].call # "sent"
  BY RequestNumbers DEF LeaseInv, Kept, KeepsItsTimes
<1>2. req[n].call # "none"
  BY SentFacts
<1>3. held => req[n].call = "applied"
  BY <1>1, <1>2, SentFacts DEF LeaseInv, Kept, RequestRecord
<1> QED BY <1>1, <1>3 DEF LeaseInv, Kept, Recovered

\* The heartbeat comes in time.
LEMMA HeartbeatKeeps ==
  ASSUME KeepsItsTimes, Typed, LeaseInv, Heartbeat
  PROVE  LeaseInv'
<1>1. CASE MayRenew(renewal) /\ sent < MaxRequests
  <2>1. held => lease > 0 /\ active
    <3>1. CASE sent = 0
      <4>1. 1 \in Request
        BY RequestFacts DEF Request
      <4> QED BY <3>1, <4>1, <1>1, RequestNumbers DEF LeaseInv, InTime, Newest, Heartbeat
    <3>2. CASE sent > 0
      BY <3>2, <1>1, TimeLeft DEF LeaseInv, InTime, Newest, Heartbeat, MayRenew
    <3> QED BY <3>1, <3>2 DEF Typed, TypeOK
  <2>2. req \in [Request -> RequestRecord]
    BY DEF Typed, TypeOK
  <2> QED BY <1>1, <2>1, <2>2, SendKeeps DEF Heartbeat, RenewLease, LeaseInv
<1>2. CASE ~(MayRenew(renewal) /\ sent < MaxRequests)
  <2>1. UNCHANGED <<held, lease, req, sent, current, renewal, active, phase>>
    BY <1>2 DEF Heartbeat, RenewLease
  <2>2. \A m \in Request : Kept(m)'
    BY <2>1 DEF LeaseInv, Kept, Age
  <2>3. Newest'
    BY <2>1 DEF LeaseInv, Newest
  <2>4. held /\ phase = "handling" /\ sent < MaxRequests => renewal = sent /\ sent # 0
    BY <1>2 DEF MayRenew, LeaseInv, Newest
  <2>5. InTime'
    BY <2>1, <2>4 DEF InTime
  <2> QED BY <2>2, <2>3, <2>5 DEF LeaseInv
<1> QED BY <1>1, <1>2

\* The guard that finds the write renews in time.
LEMMA GuardRecoversKeeps ==
  ASSUME KeepsItsTimes, Typed, LeaseInv, NEW n \in Request, GuardRecovers(n)
  PROVE  LeaseInv'
<1> DEFINE requests == [req EXCEPT ![n].guard = "done"]
<1>1. /\ requests \in [Request -> RequestRecord]
      /\ \A m \in Request : /\ requests[m].want = req[m].want
                            /\ requests[m].call = req[m].call
                            /\ requests[m].answer = req[m].answer
                            /\ requests[m].guardLeft = req[m].guardLeft
                            /\ requests[m].guard \in {"done", req[m].guard}
                            /\ m # n => requests[m] = req[m]
      /\ requests[n].guard = "done"
  BY SentFacts DEF RequestRecord
<1>2. /\ UNCHANGED <<held, lease, active, phase, beat>> /\ req[n].guard = "reading"
      /\ IF current = n THEN RenewLease(requests, Cleared(n), 0)
         ELSE req' = requests /\ UNCHANGED <<sent, current, renewal>>
  BY DEF GuardRecovers
<1> HIDE DEF requests
<1>3. req[n].call # "sent" /\ sent \in Nat /\ n # 0 /\ lease \in Int
  BY <1>2, ReadingFinds, SentFacts, RequestNumbers
<1>4. ASSUME req' = requests, sent' = sent PROVE \A m \in Request : Kept(m)'
  BY <1>1, <1>2, <1>3, <1>4, KeptStays DEF LeaseInv
<1>5. CASE current = n
  <2>1. n = sent /\ Cleared(n) = 0
    BY <1>5, <1>3 DEF LeaseInv, Newest, Cleared
  <2>2. CASE MayRenew(0) /\ sent < MaxRequests
    <3>1. held => lease > 0 /\ active
      BY <1>2, <1>3, <2>1, TimeLeft DEF LeaseInv, Newest
    <3> QED BY <1>1, <1>2, <1>5, <2>1, <2>2, <3>1, SendKeeps DEF RenewLease, LeaseInv
  <2>3. CASE ~(MayRenew(0) /\ sent < MaxRequests)
    <3>1. req' = requests /\ sent' = sent /\ current' = 0 /\ renewal' = 0
      BY <1>2, <1>5, <2>1, <2>3 DEF RenewLease
    <3>2. Newest'
      BY <1>1, <1>2, <1>3, <2>1, <3>1 DEF LeaseInv, Newest
    <3>3. InTime'
      BY <1>2, <2>3, <3>1 DEF MayRenew, InTime, LeaseInv, Newest
    <3> QED BY <1>4, <3>1, <3>2, <3>3 DEF LeaseInv
  <2> QED BY <2>2, <2>3
<1>6. CASE current # n
  <2>1. req' = requests /\ UNCHANGED <<sent, current, renewal>>
    BY <1>2, <1>6
  <2>2. held /\ sent > 0 => sent \in Request /\ requests[sent] = req[sent]
    <3>1. sent > 0 => sent \in Request
      BY RequestFacts DEF Request, Typed, TypeOK
    <3>2. held /\ sent > 0 => n # sent
      BY <1>2, <1>6 DEF LeaseInv, Newest
    <3> QED BY <1>1, <3>1, <3>2
  <2>3. Newest'
    BY <1>2, <2>1, <2>2 DEF LeaseInv, Newest
  <2>4. InTime'
    BY <1>2, <2>1, <2>2 DEF LeaseInv, InTime, Age
  <2> QED BY <1>4, <2>1, <2>3, <2>4 DEF LeaseInv
<1> QED BY <1>5, <1>6

\* A guard gives up only a lease that is gone.
LEMMA GuardRevokesKeeps ==
  ASSUME KeepsItsTimes, Typed, LeaseInv, NEW n \in Request, GuardRevokes(n)
  PROVE  LeaseInv'
<1>1. ~held
  BY ReadingFinds DEF GuardRevokes, ReadFails, KeepsItsTimes
<1>2. UNCHANGED <<held, lease, sent, current, renewal>> /\ lease \in Int
  BY RequestNumbers DEF GuardRevokes
<1>3. \A m \in Request : Kept(m)'
  <2>1. \A m \in Request :
          /\ req'[m].want = req[m].want /\ req'[m].call = req[m].call
          /\ req'[m].answer = req[m].answer
          /\ req'[m] = req[m] \/ req'[m].guard = "done"
    BY SentFacts DEF GuardRevokes, RequestRecord
  <2> QED BY <1>1, <1>2, <2>1, KeptStays DEF LeaseInv
<1>4. Newest' /\ InTime'
  BY <1>1, <1>2 DEF LeaseInv, Newest, InTime
<1> QED BY <1>3, <1>4 DEF LeaseInv

\* The guard fires on time, and reads whenever its request is the current one.
LEMMA GuardFiresKeeps ==
  ASSUME KeepsItsTimes, Typed, LeaseInv, NEW n \in Request, GuardFires(n)
  PROVE  LeaseInv'
<1>1. /\ UNCHANGED <<held, lease, sent, current, renewal, active, phase, beat>>
      /\ req[n].guard = "armed" /\ Age(n) >= Interval
  BY DEF GuardFires, GuardDue
<1>2. Age(n) = Interval
  BY <1>1, RequestNumbers DEF LeaseInv, Kept
<1>3. /\ req'[n].guard = IF IsCurrent(n) THEN "reading" ELSE "done"
      /\ IsCurrent(n) => req'[n].guardLeft = Interval
      /\ req'[n].want = req[n].want /\ req'[n].call = req[n].call /\ req'[n].answer = req[n].answer
      /\ \A m \in Request \ {n} : req'[m] = req[m]
  BY SentFacts DEF GuardFires, RequestRecord
<1>4. Kept(n)'
  BY <1>1, <1>2, <1>3, RequestNumbers DEF LeaseInv, Kept, Age
<1>5. \A m \in Request : Kept(m)'
  BY <1>1, <1>3, <1>4, KeptStays, RequestNumbers DEF LeaseInv
<1>6. CASE n = sent
  <2>1. held /\ sent > 0 => req'[sent].guard = "reading"
    BY <1>1, <1>3, <1>6 DEF IsCurrent, LeaseInv, Newest
  <2> QED BY <1>1, <1>3, <1>5, <1>6, <2>1 DEF LeaseInv, Newest, InTime
<1>7. CASE n # sent
  <2>1. sent > 0 => req'[sent] = req[sent]
    BY <1>3, <1>7, RequestFacts DEF Request, Typed, TypeOK
  <2> QED BY <1>1, <1>5, <2>1 DEF LeaseInv, Newest, InTime, Age
<1> QED BY <1>6, <1>7

\* A request that settles was decided by the store, and before its guard if the guard
\* has not fired.
LEMMA SettleKeeps ==
  ASSUME KeepsItsTimes, Typed, LeaseInv, NEW n \in Request, TimersRan, Settle(n),
         req[n].call # "sent", UNCHANGED <<held, lease, sent, current, beat, phase>>,
         held => active'
  PROVE  LeaseInv'
<1>1. /\ req'[n].want = req[n].want /\ req'[n].call = req[n].call
      /\ req'[n].guard = IF req[n].guard = "armed" THEN "done" ELSE req[n].guard
      /\ req'[n].guardLeft = req[n].guardLeft
      /\ \A m \in Request \ {n} : req'[m] = req[m]
  BY SentFacts DEF Settle, Done, RequestRecord
<1>2. \A m \in Request : Kept(m)'
  BY <1>1, KeptStays, RequestNumbers DEF LeaseInv
<1>3. renewal' = IF renewal = n THEN 0 ELSE renewal
  BY DEF Settle, Cleared
<1>4. n # 0 /\ sent \in Nat
  BY SentFacts
<1>5. CASE n = sent
  <2>1. renewal' = 0
    BY <1>3, <1>5 DEF LeaseInv, Newest
  <2>2. Newest'
    BY <1>1, <1>4, <1>5, <2>1 DEF LeaseInv, Newest
  <2>3. held /\ req[n].guard \notin {"armed", "reading"} => renewal = 0
    BY <1>4, <1>5 DEF LeaseInv, Newest
  <2>4. req[n].guard = "armed" /\ phase = "handling" => Age(n) + beat < LeaseMs
    BY RequestNumbers DEF TimersRan, GuardDue
  <2>5. InTime'
    BY <1>1, <1>4, <1>5, <2>3, <2>4 DEF LeaseInv, InTime, Age
  <2> QED BY <1>2, <2>2, <2>5 DEF LeaseInv
<1>6. CASE n # sent
  <2>1. renewal' = renewal
    BY <1>3, <1>4, <1>6 DEF LeaseInv, Newest
  <2>2. sent > 0 => req'[sent] = req[sent]
    BY <1>1, <1>6, RequestFacts DEF Request, Typed, TypeOK
  <2> QED BY <1>2, <2>1, <2>2 DEF LeaseInv, Newest, InTime, Age
<1> QED BY <1>5, <1>6

\* An answer, true or bad, leaves the next renewal in time.
LEMMA AnswerKeeps ==
  ASSUME KeepsItsTimes, Typed, LeaseInv, NEW n \in Request, Answer(n)
  PROVE  LeaseInv'
<1>1. CASE AnsweredTrue(n)
  BY <1>1, SettleKeeps DEF AnsweredTrue, LeaseInv, Newest
<1>2. ASSUME NEW then \in {"readAfterFalse", "readAfterError"}, AnsweredBadly(n, then)
      PROVE  LeaseInv'
  <2>1. req[n].call # "sent"
    BY <1>2 DEF AnsweredBadly, KeepsItsTimes
  <2>2. CASE IsCurrent(n)
    <3>1. /\ req' = [req EXCEPT ![n].answer = then, ![n].answerLeft = Interval]
          /\ UNCHANGED <<held, lease, sent, current, renewal, active, phase, beat>>
      BY <1>2, <2>2 DEF AnsweredBadly
    <3>2. \A m \in Request :
            /\ req'[m].want = req[m].want /\ req'[m].call = req[m].call
            /\ req'[m].guard = req[m].guard /\ req'[m].guardLeft = req[m].guardLeft
            /\ m # n => req'[m] = req[m]
      BY <3>1, SentFacts DEF RequestRecord
    <3>3. \A m \in Request : Kept(m)'
      <4> SUFFICES ASSUME NEW m \in Request PROVE Kept(m)'
        OBVIOUS
      <4>1. req'[m].answer = req[m].answer \/ req[m].call # "sent"
        BY <2>1, <3>2
      <4>2. lease' \in Int /\ lease <= lease' /\ (held' => held) /\ Kept(m)
        BY <3>1, RequestNumbers DEF LeaseInv
      <4> QED BY <3>2, <4>1, <4>2, KeptStays
    <3>4. sent > 0 => sent \in Request
      BY RequestFacts DEF Request, Typed, TypeOK
    <3> QED BY <3>1, <3>2, <3>3, <3>4 DEF LeaseInv, Newest, InTime, Age
  <2>3. CASE ~IsCurrent(n)
    BY <1>2, <2>1, <2>3, SettleKeeps DEF AnsweredBadly, LeaseInv, Newest
  <2> QED BY <2>2, <2>3
<1> QED BY <1>1, <1>2 DEF Answer

\* The continuation of a bad answer gives up only a lease that is gone.
LEMMA AnswerRecoversKeeps ==
  ASSUME KeepsItsTimes, Typed, LeaseInv, NEW n \in Request, NEW seen \in BOOLEAN,
         AnswerRecovers(n, seen)
  PROVE  LeaseInv'
<1>1. req[n].call # "sent" /\ (held => Recovered(n))
  BY ReadingFinds DEF AnswerRecovers
<1>2. held => seen
  BY <1>1 DEF AnswerRecovers, ReadFails, KeepsItsTimes
<1>3. held => active'
  BY <1>2 DEF AnswerRecovers, LeaseInv, Newest
<1> QED BY <1>1, <1>3, SettleKeeps DEF AnswerRecovers

\* The store grants every request of a run that is still held.
LEMMA ApplyKeeps ==
  ASSUME KeepsItsTimes, Typed, LeaseInv, NEW n \in Request, Apply(n)
  PROVE  LeaseInv'
<1>1. /\ req[n].call = "sent"
      /\ UNCHANGED <<held, sent, current, renewal, active, phase, beat>>
  BY DEF Apply
<1>2. /\ lease' \in Int /\ lease <= lease'
      /\ req'[n].call = "applied" => lease' >= req[n].want
  BY RequestNumbers, SentFacts DEF Apply, Extended, RequestRecord
<1>3. /\ req'[n].want = req[n].want /\ req'[n].answer = req[n].answer
      /\ req'[n].guard = req[n].guard /\ req'[n].guardLeft = req[n].guardLeft
      /\ req'[n].call \in {"applied", "refused"}
      /\ \A m \in Request \ {n} : req'[m] = req[m]
  BY SentFacts DEF Apply, RequestRecord
<1>4. held => req'[n].call = "applied"
  BY <1>1, SentFacts DEF Apply, LeaseInv, Kept, RequestRecord
<1>5. Kept(n)'
  BY <1>1, <1>2, <1>3, <1>4, RequestNumbers DEF LeaseInv, Kept, Age
<1>6. \A m \in Request : Kept(m)'
  BY <1>1, <1>2, <1>3, <1>5, KeptStays DEF LeaseInv
<1>7. /\ sent > 0 => sent \in Request
      /\ sent # 0
  BY <1>1, SentFacts, RequestFacts DEF Request, Typed, TypeOK
<1>8. Newest' /\ InTime'
  BY <1>1, <1>3, <1>7 DEF LeaseInv, Newest, InTime, Age
<1> QED BY <1>6, <1>8 DEF LeaseInv

\* Time passes no further than the timers and the store's latencies let it.
LEMMA TickKeeps ==
  ASSUME KeepsItsTimes, Typed, LeaseInv, Tick
  PROVE  LeaseInv'
<1>1. /\ UNCHANGED <<held, sent, current, renewal, active, phase>>
      /\ lease' = Sooner(lease) /\ beat' = Left(beat)
      /\ phase = "handling" => beat > 0
  BY DEF Tick, Punctual, TimersRan
<1>2. ASSUME NEW n \in Request
      PROVE  /\ req'[n].call = req[n].call /\ req'[n].answer = req[n].answer
             /\ req'[n].guard = req[n].guard
             /\ req[n].call = "none" => req'[n] = Unsent
             /\ req[n].call # "none" => req'[n].want = Sooner(req[n].want)
             /\ req[n].call # "none" /\ req[n].guard = "reading" =>
                  req'[n].guardLeft = Left(req[n].guardLeft)
  <2>1. CASE req[n].call = "none"
    BY <2>1, SentFacts DEF Tick, Typed
  <2>2. CASE req[n].call # "none"
    BY <2>2, SentFacts DEF Tick, RequestRecord
  <2> QED BY <2>1, <2>2
<1>3. ASSUME NEW n \in Request PROVE Kept(n)'
  <2>1. CASE req[n].call = "none"
    BY <1>2, <2>1 DEF Kept, Unsent
  <2>2. CASE req[n].call # "none"
    <3>1. Kept(n)
      BY DEF LeaseInv
    <3>2. /\ req[n].call = "sent" => Age(n) < Latency
          /\ req[n].guard = "armed" => Age(n) < Interval
          /\ req[n].guard = "reading" => req[n].guardLeft > Interval - ReadLatency
      <4>1. /\ ~GuardDue(n) /\ (req[n].guard = "reading" => req[n].guardLeft > ReadTime)
            /\ Dependable /\ req[n].call = "sent" => Age(n) < Latency
        BY DEF Tick, Punctual, TimersRan
      <4>2. ReadTime = Interval - ReadLatency
        BY DEF ReadTime, KeepsItsTimes
      <4> QED BY <4>1, <4>2, RequestNumbers DEF GuardDue, KeepsItsTimes
    <3>3. req[n].want > Floor => Age(n)' = Age(n) + 1
      BY <1>2, <2>2, RequestNumbers DEF Sooner, Age
    <3> QED BY <1>1, <1>2, <2>2, <3>1, <3>2, <3>3, RequestNumbers
            DEF Kept, Sooner, Left, KeepsItsTimes
  <2> QED BY <2>1, <2>2
<1>4. sent > 0 => sent \in Request
  BY RequestFacts DEF Request, Typed, TypeOK
<1>5. Newest'
  BY <1>1, <1>2, <1>4 DEF LeaseInv, Newest
<1>6. InTime'
  <2>1. CASE sent = 0
    <3>1. 1 \in Request
      BY RequestFacts DEF Request
    <3> QED BY <1>1, <2>1, <3>1, RequestNumbers DEF LeaseInv, InTime, Sooner, Left
  <2>2. CASE sent > 0
    <3>1. Age(sent)' <= Age(sent) + 1 /\ Age(sent)' \in Int
      <4>1. sent \in Request /\ sent' = sent /\ req'[sent].want = Sooner(req[sent].want)
        BY <1>1, <1>2, <1>4, <2>2, SentFacts
      <4> QED BY <4>1, RequestNumbers DEF Sooner, Age
    <3> QED BY <1>1, <1>2, <1>4, <2>2, <3>1, RequestNumbers DEF LeaseInv, InTime, Left
  <2> QED BY <2>1, <2>2 DEF Typed, TypeOK
<1> QED BY <1>3, <1>5, <1>6 DEF LeaseInv

\* Every step keeps the lease.
LEMMA LeaseStep ==
  ASSUME KeepsItsTimes, Typed, LeaseInv, [Next]_vars
  PROVE  LeaseInv'
<1>1. CASE HandlerSettles \/ Finish \/ TakeAway \/ UNCHANGED vars
  <2>1. /\ UNCHANGED <<lease, req, sent, current, renewal, beat, active>>
        /\ held' => held /\ (phase' = "handling" => phase = "handling")
    BY <1>1 DEF HandlerSettles, Finish, TakeAway, vars
  <2>2. \A m \in Request : Kept(m)'
    BY <2>1 DEF LeaseInv, Kept, Age
  <2>3. Newest' /\ InTime'
    BY <2>1 DEF LeaseInv, Newest, InTime, Age
  <2> QED BY <2>2, <2>3 DEF LeaseInv
<1>2. ASSUME NEW n \in Request, Recover(n) PROVE LeaseInv'
  BY <1>2, AnswerRecoversKeeps, GuardFiresKeeps, GuardRecoversKeeps, GuardRevokesKeeps DEF Recover
<1> QED BY <1>1, <1>2, HeartbeatKeeps, TickKeeps, ApplyKeeps, AnswerKeeps DEF Next

\* The execution starts out with a whole lease and the first heartbeat ahead.
LEMMA LeaseInit ==
  ASSUME Init PROVE LeaseInv
<1>1. LeaseMs = Interval + Interval
  BY RequestFacts DEF LeaseMs
<1> QED BY <1>1, RequestFacts DEF Init, LeaseInv, Kept, Newest, InTime, Unsent

\* What is known of the lease of a dependable store holds in every reachable state.
LEMMA LeaseInvHolds ==
  ASSUME KeepsItsTimes PROVE Spec => [](Typed /\ LeaseInv)
<1>1. Init => Typed /\ LeaseInv
  BY TypedInit, LeaseInit
<1>2. Typed /\ LeaseInv /\ [Next]_vars => (Typed /\ LeaseInv)'
  BY TypedStep, LeaseStep
<1> QED BY <1>1, <1>2, PTL DEF Spec

\* An execution gives up only a lease that another client took: answers that are lost or
\* late, or false although the write was made, never make it stop a handler whose run it
\* still holds.
THEOREM LeaseIsNotGivenUp ==
  ASSUME KeepsItsTimes PROVE Spec => []NoFalseLoss
<1>1. LeaseInv => NoFalseLoss
  BY DEF LeaseInv, Newest, NoFalseLoss
<1> QED BY <1>1, LeaseInvHolds, PTL

\* Stale recovery never finds the lease of a handler that is still running, however long
\* it runs and whatever becomes of the answers to its renewals.
THEOREM LongHandlersKeepTheirRun ==
  ASSUME KeepsItsTimes PROVE Spec => []LeaseNeverStale
<1>1. ASSUME Typed, LeaseInv PROVE LeaseNeverStale
  <2> SUFFICES ASSUME held, phase = "handling", sent < MaxRequests
               PROVE  lease + RecoveryAfterMs > 0
    BY DEF LeaseNeverStale
  <2>1. CASE sent = 0
    <3>1. 1 \in Request
      BY RequestFacts DEF Request
    <3> QED BY <1>1, <2>1, <3>1, RequestNumbers DEF LeaseInv, InTime
  <2>2. CASE sent > 0
    <3>1. sent \in Request
      BY <1>1, <2>2, RequestFacts DEF Request, Typed, TypeOK
    <3>2. CASE req[sent].call = "sent"
      BY <1>1, <3>1, <3>2, RequestNumbers DEF LeaseInv, Kept, KeepsItsTimes
    <3>3. CASE req[sent].call # "sent"
      <4>1. CASE req[sent].guard = "armed"
        <5>1. Age(sent) <= Interval
          BY <1>1, <3>1, <4>1 DEF LeaseInv, Kept
        <5>2. req[sent].call = "applied"
          BY <1>1, <3>1, <3>3, SentFacts DEF LeaseInv, Kept, RequestRecord
        <5>3. lease >= req[sent].want
          BY <1>1, <3>1, <5>2 DEF LeaseInv, Kept
        <5> QED BY <1>1, <3>1, <5>1, <5>3, RequestNumbers
      <4>2. CASE req[sent].guard # "armed"
        <5>1. lease > 0
          BY <1>1, <2>2, <3>3, <4>2, TimeLeft DEF LeaseInv, Newest, InTime
        <5> QED BY <1>1, <3>1, <5>1, RequestNumbers
      <4> QED BY <4>1, <4>2
    <3> QED BY <3>2, <3>3
  <2> QED BY <1>1, <2>1, <2>2 DEF Typed, TypeOK
<1> QED BY <1>1, LeaseInvHolds, PTL
================================================================================
