--------------------------- MODULE JobsWorkers_proofs ---------------------------
(***************************************************************************)
(* Theorems about JobsWorkers for all runs, workers, faults, lags, delays  *)
(* and limits.  Workers only take steps of the store; handler starts are   *)
(* paid for by attempts; a cancellation that was acknowledged keeps its    *)
(* worker from starting the run and has told its handlers to abort; no     *)
(* claim is forgotten without a fault; and with punctual heartbeats the    *)
(* handlers of a run never overlap, stay within the concurrency, and the   *)
(* workers implement JobsHandlers.                                         *)
(***************************************************************************)
EXTENDS JobsWorkers, JobsStore_proofs

Ref(r, n) == [run |-> r, token |-> n]

\* The claims a worker has that it has neither started nor given back.
Pending(w) == dispatch[w].batch \cup dispatch[w].todo

DispatchFits(d) ==
    /\ d.at = "idle" => d.batch = {} /\ d.todo = {}
    /\ d.at \in {"claimed", "ready"} => d.todo = {} /\ d.tries < MaxTries
    /\ d.at = "releasing" =>
         /\ d.todo \cap d.batch = {}
         /\ d.then = "idle" => d.batch = {}
         /\ d.then = "ready" => d.tries < MaxTries
    /\ d.at = "verifying" => d.todo \subseteq d.batch /\ d.keep \subseteq d.batch

CancellingFits(c) ==
    /\ c.at # "idle" => c.run \in RunId
    /\ c.at \in {"idle", "reading"} => c.tries < MaxTries

ExecRecord == Execution \cup {NoExecution, Over}

\* A controller is that of a handler at work on its worker.
Controls(w, r) ==
    LET n == controllers[w][r]
    IN n # NoToken => At(r, n, "handling") /\ exec[r][n].worker = w

Typed ==
    /\ open \in [Worker -> BOOLEAN]
    /\ dispatch \in [Worker -> Dispatch]
    /\ exec \in [RunId -> [Token -> ExecRecord]]
    /\ controllers \in [Worker -> [RunId -> Token \cup {NoToken}]]
    /\ fence \in [Worker -> SUBSET RunId] /\ overflow \in [Worker -> BOOLEAN]
    /\ timedOutIds \in [Worker -> SUBSET RunId]
    /\ timedOutOps \in [Worker -> [RunId -> Token \cup {NoToken}]]
    /\ cancelling \in [Worker -> Cancelling] /\ acked \in [Worker -> SUBSET RunId]
    /\ faults \in 0 .. MaxFaults
    /\ \A r \in RunId : issued[r] <= MaxClaims
    /\ \A w \in Worker : DispatchFits(dispatch[w]) /\ CancellingFits(cancelling[w])
    /\ \A w \in Worker, r \in RunId : Controls(w, r)

--------------------------------------------------------------------------------
(* Records.                                                                *)

\* What an execution's record says of itself.
LEMMA ExecutionForm ==
    /\ NoExecution.at = "none" /\ Over.at = "over" /\ NoExecution # Over
    /\ NoExecution \in ExecRecord /\ Over \in ExecRecord
    /\ \A x \in ExecRecord :
         /\ x \in Execution <=> x.at \in {"handling", "settled"}
         /\ x = NoExecution <=> x.at = "none"
         /\ x = Over <=> x.at = "over"
<1>1. NoExecution.at = "none" /\ Over.at = "over"
  BY DEF NoExecution, Over
<1>2. \A x \in Execution : x.at \in {"handling", "settled"}
  BY DEF Execution
<1> QED BY <1>1, <1>2 DEF ExecRecord

\* A handler that starts.
LEMMA BegunForm ==
  ASSUME NEW w \in Worker
  PROVE  /\ Begun(w) \in ExecRecord /\ Begun(w).at = "handling" /\ Begun(w).worker = w
         /\ Begun(w).leaseActive /\ Begun(w).beaten
BY DEF Begun, Execution, ExecRecord

\* A dispatch at rest.
LEMMA IdleForm ==
    /\ Idle \in Dispatch /\ DispatchFits(Idle)
    /\ Idle.at = "idle" /\ Idle.batch = {} /\ Idle.todo = {} /\ Idle.tries = 0
<1>1. MaxTries \in Nat /\ 0 < MaxTries
  BY WorkerConstants
<1>2. Idle \in Dispatch
  BY <1>1 DEF Idle, Dispatch
<1> QED BY <1>1, <1>2 DEF Idle, DispatchFits

\* A dispatch that gives claims back, or has none to give back.
LEMMA ReleasingForm ==
  ASSUME Typed, NEW w \in Worker, NEW some \in SUBSET ClaimRef, NEW rest \in SUBSET ClaimRef,
         NEW then \in {"idle", "ready"}, some \cap rest = {},
         then = "idle" => rest = {},
         then = "ready" => dispatch[w].tries < MaxTries
  PROVE  \E d \in Dispatch :
            /\ d = Releasing(w, some, rest, then)
            /\ DispatchFits(d)
            /\ d.at = (IF some = {} THEN then ELSE "releasing")
            /\ d.todo = some /\ d.batch = rest /\ d.then = then
            /\ d.age = dispatch[w].age
<1> DEFINE d == Releasing(w, some, rest, then)
<1>1. dispatch[w] \in Dispatch
  BY DEF Typed
<1>2. d \in Dispatch /\ d.todo = some /\ d.batch = rest /\ d.then = then
      /\ d.tries = dispatch[w].tries /\ d.age = dispatch[w].age
      /\ d.at = (IF some = {} THEN then ELSE "releasing")
  BY <1>1 DEF Releasing, Dispatch
<1>3. DispatchFits(d)
  BY <1>2 DEF DispatchFits
<1> QED BY <1>2, <1>3

\* abort() of a controller: nothing but the flag of the handler it belongs to changes.
LEMMA AbortingForm ==
  ASSUME Typed, NEW x \in [RunId -> [Token -> ExecRecord]], NEW w \in Worker, NEW r \in RunId,
         \A n \in Token : exec[r][n].at = "handling" => x[r][n].at = "handling"
  PROVE  \E y \in [RunId -> [Token -> ExecRecord]] :
            /\ y = Aborting(x, w, r)
            /\ \A q \in RunId, n \in Token :
                 IF q = r /\ n = controllers[w][r]
                 THEN /\ y[q][n] \in Execution /\ y[q][n].at = x[q][n].at /\ y[q][n].aborted
                      /\ y[q][n].worker = x[q][n].worker /\ y[q][n].beaten = x[q][n].beaten
                      /\ y[q][n].leaseActive = x[q][n].leaseActive
                 ELSE y[q][n] = x[q][n]
<1> DEFINE k == controllers[w][r]
           y == Aborting(x, w, r)
<1>1. k \in Token \cup {NoToken} /\ NoToken \notin Token
  BY DEF Typed, Token, NoToken
<1>2. CASE k = NoToken
  BY <1>1, <1>2 DEF Aborting
<1>3. CASE k # NoToken
  <2>1. k \in Token /\ exec[r][k].at = "handling"
    BY <1>1, <1>3 DEF Typed, Controls, At
  <2>2. x[r][k] \in ExecRecord /\ x[r][k].at = "handling"
    BY <2>1
  <2>3. x[r][k] \in Execution
    BY <2>2, ExecutionForm
  <2>4. PICK z : z = [x[r][k] EXCEPT !.aborted = TRUE]
    OBVIOUS
  <2>5. /\ z \in Execution /\ z.at = x[r][k].at /\ z.aborted /\ z.worker = x[r][k].worker
        /\ z.beaten = x[r][k].beaten /\ z.leaseActive = x[r][k].leaseActive
    BY <2>3, <2>4 DEF Execution
  <2>6. y = [x EXCEPT ![r][k] = z]
    BY <1>3, <2>4 DEF Aborting
  <2>7. z \in ExecRecord
    BY <2>5 DEF ExecRecord
  <2>8. y \in [RunId -> [Token -> ExecRecord]]
    BY <2>1, <2>6, <2>7
  <2>9. \A q \in RunId, n \in Token : y[q][n] = IF q = r /\ n = k THEN z ELSE x[q][n]
    BY <2>1, <2>6
  <2> QED BY <2>1, <2>5, <2>8, <2>9
<1> QED BY <1>2, <1>3

--------------------------------------------------------------------------------
(* What each action does to the dispatches.                                *)

\* Nothing of w's claims changes: not where they are, and not how far the dispatch is.
SameClaims(w) ==
    /\ dispatch'[w].at = dispatch[w].at /\ dispatch'[w].then = dispatch[w].then
    /\ dispatch'[w].batch = dispatch[w].batch /\ dispatch'[w].todo = dispatch[w].todo
    /\ dispatch'[w].keep = dispatch[w].keep

\* A claim's answer is awaited.
LEMMA ClaimRunsForm ==
  ASSUME RecordInv, Typed, NEW w \in Worker, NEW S \in SUBSET RunId, NEW d \in Lag,
         ClaimRuns(w, S, d)
  PROVE  /\ dispatch' \in [Worker -> Dispatch] /\ DispatchFits(dispatch'[w])
         /\ \A v \in Worker \ {w} : dispatch'[v] = dispatch[v]
         /\ dispatch[w].at = "idle"
         /\ dispatch'[w].at = "claimed" /\ dispatch'[w].todo = {} /\ dispatch'[w].age = d
         /\ dispatch'[w].batch = {Ref(r, issued[r] + 1) : r \in S}
         /\ \A r \in S : issued[r] < MaxClaims
<1> DEFINE B == {Ref(r, issued[r] + 1) : r \in S}
<1>1. \A r \in S : issued[r] < MaxClaims
  BY DEF ClaimRuns, ClaimDueRuns
<1>2. \A r \in S : issued[r] \in Nat
  BY DEF RecordInv, TypeOK
<1>3. \A r \in S : issued[r] + 1 \in Token
  BY <1>1, <1>2, StoreConstants DEF Token
<1>4. B \in SUBSET ClaimRef
  BY <1>3 DEF Ref, ClaimRef
<1>5. d \in Nat
  BY LagIsNat
<1> HIDE DEF B
<1>6. PICK x : x = [Idle EXCEPT !.at = "claimed", !.age = d, !.batch = B]
  OBVIOUS
<1>7. x \in Dispatch /\ x.at = "claimed" /\ x.todo = {} /\ x.age = d /\ x.batch = B
      /\ x.tries = 0
  BY <1>4, <1>5, <1>6, IdleForm DEF Dispatch
<1>8. DispatchFits(x)
  BY <1>7, WorkerConstants DEF DispatchFits
<1>9. dispatch' = [dispatch EXCEPT ![w] = x] /\ dispatch[w].at = "idle"
  BY <1>6 DEF ClaimRuns, Ref, B
<1>10. dispatch \in [Worker -> Dispatch]
  BY DEF Typed
<1> QED BY <1>1, <1>7, <1>8, <1>9, <1>10 DEF B

\* The answer of a claim leads to releases or to the start of the batch.
LEMMA CheckClaimForm ==
  ASSUME Typed, NEW w \in Worker, CheckClaim(w)
  PROVE  /\ dispatch' \in [Worker -> Dispatch] /\ DispatchFits(dispatch'[w])
         /\ \A v \in Worker \ {w} : dispatch'[v] = dispatch[v]
         /\ dispatch[w].at = "claimed" /\ dispatch'[w].at # "claimed"
         /\ dispatch'[w].at # "verifying"
         /\ dispatch'[w].batch \cup dispatch'[w].todo = Pending(w)
         /\ dispatch'[w].batch \subseteq dispatch[w].batch
         /\ dispatch'[w].batch # {} => SurvivesHeartbeat(w)
<1>1. dispatch \in [Worker -> Dispatch] /\ dispatch[w] \in Dispatch
  BY DEF Typed
<1>2. /\ dispatch[w].at = "claimed" /\ dispatch[w].todo = {} /\ dispatch[w].tries < MaxTries
      /\ dispatch[w].batch \in SUBSET ClaimRef
  BY <1>1 DEF CheckClaim, Typed, DispatchFits, Dispatch
<1>3. CASE dispatch[w].batch # {} /\ ~SurvivesHeartbeat(w)
  <2>1. PICK x \in Dispatch :
             /\ x = Releasing(w, dispatch[w].batch, {}, "idle")
             /\ DispatchFits(x) /\ x.todo = dispatch[w].batch /\ x.batch = {}
             /\ x.at = (IF dispatch[w].batch = {} THEN "idle" ELSE "releasing")
    BY <1>2, ReleasingForm
  <2>2. dispatch' = [dispatch EXCEPT ![w] = x]
    BY <1>3, <2>1 DEF CheckClaim
  <2> QED BY <1>1, <1>2, <1>3, <2>1, <2>2 DEF Pending
<1>4. CASE ~(dispatch[w].batch # {} /\ ~SurvivesHeartbeat(w))
  <2> DEFINE late == {c \in dispatch[w].batch : c.run \in timedOutIds[w]}
             rest == Wanted(w, late)
  <2>1. late \in SUBSET ClaimRef /\ rest \in SUBSET ClaimRef /\ late \cap rest = {}
        /\ late \cup rest = dispatch[w].batch
    BY <1>2 DEF Wanted
  <2>2. dispatch' = [dispatch EXCEPT ![w] = Releasing(w, late, rest, "ready")]
    BY <1>4 DEF CheckClaim
  <2> HIDE DEF late, rest
  <2>3. PICK x \in Dispatch :
             /\ x = Releasing(w, late, rest, "ready")
             /\ DispatchFits(x) /\ x.todo = late /\ x.batch = rest
             /\ x.at = (IF late = {} THEN "ready" ELSE "releasing")
    BY <1>2, <2>1, ReleasingForm
  <2>4. dispatch' = [dispatch EXCEPT ![w] = x]
    BY <2>2, <2>3
  <2> QED BY <1>1, <1>2, <1>4, <2>1, <2>3, <2>4 DEF Pending
<1> QED BY <1>3, <1>4

\* A lost answer and a crash leave a dispatch at rest.
LEMMA ForgottenForm ==
  ASSUME Typed, NEW w \in Worker, dispatch' = [dispatch EXCEPT ![w] = Idle]
  PROVE  /\ dispatch' \in [Worker -> Dispatch] /\ DispatchFits(dispatch'[w])
         /\ \A v \in Worker \ {w} : dispatch'[v] = dispatch[v]
         /\ dispatch'[w].at = "idle" /\ dispatch'[w].batch = {} /\ dispatch'[w].todo = {}
BY IdleForm DEF Typed

\* One claim less to give back.
LEMMA ReleaseOneForm ==
  ASSUME Typed, NEW w \in Worker, NEW c \in dispatch[w].todo, ReleaseOne(w, c)
  PROVE  /\ dispatch' \in [Worker -> Dispatch] /\ DispatchFits(dispatch'[w])
         /\ \A v \in Worker \ {w} : dispatch'[v] = dispatch[v]
         /\ c \in ClaimRef
         /\ dispatch[w].at = "releasing" /\ dispatch'[w].at \in {"idle", "releasing", "ready"}
         /\ dispatch'[w].batch = dispatch[w].batch /\ c \notin dispatch[w].batch
         /\ dispatch'[w].todo = dispatch[w].todo \ {c}
<1>1. dispatch \in [Worker -> Dispatch] /\ dispatch[w] \in Dispatch /\ DispatchFits(dispatch[w])
  BY DEF Typed
<1>2. dispatch[w].at = "releasing" /\ c \in ClaimRef
  BY <1>1 DEF ReleaseOne, Dispatch
<1>3. /\ dispatch[w].todo \cap dispatch[w].batch = {}
      /\ dispatch[w].then = "idle" => dispatch[w].batch = {}
      /\ dispatch[w].then = "ready" => dispatch[w].tries < MaxTries
      /\ dispatch[w].then \in {"idle", "ready"}
  BY <1>1, <1>2 DEF DispatchFits, Dispatch
<1> DEFINE left == dispatch[w].todo \ {c}
<1>4. CASE left # {}
  <2>1. PICK x : x = [dispatch[w] EXCEPT !.todo = left]
    OBVIOUS
  <2>2. x \in Dispatch /\ x.todo = left /\ x.batch = dispatch[w].batch /\ x.at = "releasing"
        /\ x.then = dispatch[w].then /\ x.tries = dispatch[w].tries
    BY <1>1, <1>2, <2>1 DEF Dispatch
  <2>3. DispatchFits(x)
    BY <1>3, <2>2 DEF DispatchFits
  <2>4. dispatch' = [dispatch EXCEPT ![w] = x]
    BY <1>4, <2>1 DEF ReleaseOne, Released
  <2> QED BY <1>1, <1>2, <1>3, <2>2, <2>3, <2>4
<1>5. CASE left = {} /\ dispatch[w].then = "idle"
  <2>1. dispatch' = [dispatch EXCEPT ![w] = Idle]
    BY <1>5 DEF ReleaseOne, Released
  <2> QED BY <1>1, <1>2, <1>3, <1>5, <2>1, IdleForm
<1>6. CASE left = {} /\ dispatch[w].then = "ready"
  <2>1. PICK x : x = [dispatch[w] EXCEPT !.at = "ready", !.todo = {}]
    OBVIOUS
  <2>2. x \in Dispatch /\ x.todo = {} /\ x.batch = dispatch[w].batch /\ x.at = "ready"
        /\ x.tries = dispatch[w].tries
    BY <1>1, <2>1 DEF Dispatch
  <2>3. DispatchFits(x)
    BY <1>3, <1>6, <2>2 DEF DispatchFits
  <2>4. dispatch' = [dispatch EXCEPT ![w] = x]
    BY <1>6, <2>1 DEF ReleaseOne, Released
  <2> QED BY <1>1, <1>2, <1>3, <1>6, <2>2, <2>3, <2>4
<1> QED BY <1>3, <1>4, <1>5, <1>6

\* A batch is started, but for the runs a cancellation has overtaken, or it is given back
\* by a worker that has been shut down meanwhile.
LEMMA StartBatchForm ==
  ASSUME Typed, NEW w \in Worker, NEW B \in SUBSET dispatch[w].batch, StartBatch(w, B)
  PROVE  /\ dispatch' \in [Worker -> Dispatch] /\ DispatchFits(dispatch'[w])
         /\ \A v \in Worker \ {w} : dispatch'[v] = dispatch[v]
         /\ dispatch'[w].at \in {"idle", "releasing"} /\ dispatch'[w].batch = {}
         /\ IF open[w] THEN dispatch'[w].todo = {}
            ELSE dispatch'[w].todo = B /\ UNCHANGED <<exec, controllers, fence>>
<1>1. dispatch \in [Worker -> Dispatch] /\ dispatch[w] \in Dispatch
  BY DEF Typed
<1>2. B \in SUBSET ClaimRef
  BY <1>1 DEF Dispatch
<1>3. CASE ~open[w] /\ B # {}
  <2>1. PICK x \in Dispatch : /\ x = Releasing(w, B, {}, "idle") /\ DispatchFits(x)
                              /\ x.todo = B /\ x.batch = {} /\ x.at = "releasing"
    BY <1>2, <1>3, ReleasingForm
  <2>2. dispatch' = [dispatch EXCEPT ![w] = x]
    BY <1>3, <2>1 DEF StartBatch
  <2> QED BY <1>1, <1>3, <2>1, <2>2 DEF StartBatch
<1>4. CASE ~open[w] /\ B = {}
  <2>1. dispatch' = [dispatch EXCEPT ![w] = Idle]
    BY <1>4 DEF StartBatch
  <2> QED BY <1>1, <1>4, <2>1, IdleForm DEF StartBatch
<1>5. CASE open[w]
  <2>1. dispatch' = [dispatch EXCEPT ![w] = Idle]
    BY <1>5 DEF StartBatch
  <2> QED BY <1>1, <1>5, <2>1, IdleForm
<1> QED BY <1>3, <1>4, <1>5

\* The handlers a batch starts, and their controllers.
LEMMA StartedForm ==
  ASSUME Typed, NEW w \in Worker, NEW B \in SUBSET dispatch[w].batch, StartBatch(w, B), open[w]
  PROVE  /\ exec' \in [RunId -> [Token -> ExecRecord]]
         /\ controllers' \in [Worker -> [RunId -> Token \cup {NoToken}]]
         /\ fence' \in [Worker -> SUBSET RunId]
         /\ \A r \in RunId, n \in Token :
              exec'[r][n] = IF Ref(r, n) \in Unfenced(w, B) THEN Begun(w) ELSE exec[r][n]
         /\ \A v \in Worker, r \in RunId :
              IF v = w /\ \E n \in Token : Ref(r, n) \in Unfenced(w, B)
              THEN controllers'[v][r] \in Token /\ Ref(r, controllers'[v][r]) \in Unfenced(w, B)
              ELSE controllers'[v][r] = controllers[v][r]
         /\ \A v \in Worker : fence'[v] = IF v = w THEN {} ELSE fence[v]
<1>1. /\ dispatch[w] \in Dispatch /\ exec \in [RunId -> [Token -> ExecRecord]]
      /\ controllers \in [Worker -> [RunId -> Token \cup {NoToken}]]
      /\ fence \in [Worker -> SUBSET RunId]
  BY DEF Typed
<1> DEFINE S == Unfenced(w, B)
           tokenOf(r) == (CHOOSE c \in S : c.run = r).token
           started == {c.run : c \in S}
<1>2. S \in SUBSET ClaimRef
  BY <1>1 DEF Dispatch, Unfenced
<1>3. /\ exec' = [r \in RunId |-> [n \in Token |->
                    IF Ref(r, n) \in S THEN Begun(w) ELSE exec[r][n]]]
      /\ controllers' = [controllers EXCEPT ![w] =
           [r \in RunId |-> IF r \in started THEN tokenOf(r) ELSE @[r]]]
      /\ fence' = [fence EXCEPT ![w] = {}]
  BY DEF StartBatch, Ref
<1>4. ASSUME NEW r \in RunId, r \in started
      PROVE  tokenOf(r) \in Token /\ Ref(r, tokenOf(r)) \in S
  <2>1. PICK c \in S : c = CHOOSE e \in S : e.run = r
    BY <1>4
  <2>2. c.run = r
    BY <1>4, <2>1
  <2>3. c \in ClaimRef /\ tokenOf(r) = c.token
    BY <1>2, <2>1
  <2>4. Ref(r, c.token) = c
    BY <2>2, <2>3 DEF ClaimRef, Ref
  <2> QED BY <2>3, <2>4 DEF ClaimRef
<1>5. ASSUME NEW r \in RunId PROVE r \in started <=> \E n \in Token : Ref(r, n) \in S
  <2>1. ASSUME NEW n \in Token, Ref(r, n) \in S PROVE r \in started
    <3>1. Ref(r, n).run = r
      BY DEF Ref
    <3> QED BY <2>1, <3>1
  <2> QED BY <1>4, <2>1
<1> HIDE DEF S, tokenOf, started
<1>6. Begun(w) \in ExecRecord
  BY BegunForm
<1>7. exec' \in [RunId -> [Token -> ExecRecord]]
  BY <1>1, <1>3, <1>6
<1>8. \A r \in RunId, n \in Token :
        exec'[r][n] = IF Ref(r, n) \in S THEN Begun(w) ELSE exec[r][n]
  BY <1>3
<1>9. PICK f : f = [r \in RunId |-> IF r \in started THEN tokenOf(r) ELSE controllers[w][r]]
  OBVIOUS
<1>10. f \in [RunId -> Token \cup {NoToken}]
  BY <1>1, <1>4, <1>9
<1>11. controllers' = [controllers EXCEPT ![w] = f]
  BY <1>3, <1>9
<1>12. controllers' \in [Worker -> [RunId -> Token \cup {NoToken}]]
  BY <1>1, <1>10, <1>11
<1>13. \A v \in Worker, r \in RunId :
         controllers'[v][r] = IF v = w /\ r \in started THEN tokenOf(r) ELSE controllers[v][r]
  BY <1>1, <1>9, <1>11
<1>14. \A v \in Worker, r \in RunId :
         IF v = w /\ \E n \in Token : Ref(r, n) \in S
         THEN controllers'[v][r] \in Token /\ Ref(r, controllers'[v][r]) \in S
         ELSE controllers'[v][r] = controllers[v][r]
  BY <1>4, <1>5, <1>13
<1>15. fence' \in [Worker -> SUBSET RunId]
       /\ \A v \in Worker : fence'[v] = IF v = w THEN {} ELSE fence[v]
  BY <1>1, <1>3
<1> QED BY <1>7, <1>8, <1>12, <1>14, <1>15 DEF S

\* A window opens.
LEMMA OpenWindowForm ==
  ASSUME Typed, NEW w \in Worker, OpenWindow(w)
  PROVE  /\ dispatch' \in [Worker -> Dispatch] /\ DispatchFits(dispatch'[w])
         /\ \A v \in Worker \ {w} : dispatch'[v] = dispatch[v]
         /\ dispatch[w].at = "ready" /\ dispatch'[w].at = "verifying"
         /\ dispatch'[w].batch = dispatch[w].batch /\ dispatch'[w].todo = dispatch[w].batch
         /\ dispatch'[w].keep = {}
<1>1. dispatch \in [Worker -> Dispatch] /\ dispatch[w] \in Dispatch /\ DispatchFits(dispatch[w])
  BY DEF Typed
<1>2. dispatch[w].at = "ready" /\ dispatch[w].tries < MaxTries
  BY <1>1 DEF OpenWindow, DispatchFits
<1>3. PICK x : x = [dispatch[w] EXCEPT !.at = "verifying", !.todo = dispatch[w].batch,
                                       !.keep = {}, !.moved = FALSE, !.tries = @ + 1]
  OBVIOUS
<1>4. dispatch[w].tries + 1 \in 0 .. MaxTries
  BY <1>1, <1>2, WorkerConstants DEF Dispatch
<1>5. x \in Dispatch /\ x.at = "verifying" /\ x.batch = dispatch[w].batch
      /\ x.todo = dispatch[w].batch /\ x.keep = {}
  BY <1>1, <1>3, <1>4 DEF Dispatch
<1>6. DispatchFits(x)
  BY <1>5 DEF DispatchFits
<1>7. dispatch' = [dispatch EXCEPT ![w] = x]
  BY <1>1, <1>3 DEF OpenWindow
<1> QED BY <1>1, <1>2, <1>5, <1>6, <1>7

\* A claim is read: it is kept if it is held, or the whole batch is given back.
LEMMA ReadClaimForm ==
  ASSUME Typed, NEW w \in Worker, NEW c \in dispatch[w].todo, ReadClaim(w, c)
  PROVE  /\ dispatch' \in [Worker -> Dispatch] /\ DispatchFits(dispatch'[w])
         /\ \A v \in Worker \ {w} : dispatch'[v] = dispatch[v]
         /\ c \in ClaimRef
         /\ dispatch[w].at = "verifying"
         /\ dispatch'[w].batch \cup dispatch'[w].todo = Pending(w)
         /\ \/ /\ dispatch'[w].at = "releasing" /\ dispatch'[w].batch = {}
            \/ /\ dispatch'[w].at = "verifying" /\ dispatch'[w].batch = dispatch[w].batch
               /\ dispatch'[w].moved = dispatch[w].moved
               /\ dispatch'[w].todo = dispatch[w].todo \ {c}
               /\ dispatch'[w].keep = IF Holds(c.run, c.token) THEN dispatch[w].keep \cup {c}
                                      ELSE dispatch[w].keep
<1>1. dispatch \in [Worker -> Dispatch] /\ dispatch[w] \in Dispatch /\ DispatchFits(dispatch[w])
  BY DEF Typed
<1>2. /\ dispatch[w].at = "verifying" /\ c \in ClaimRef
      /\ dispatch[w].todo \subseteq dispatch[w].batch /\ dispatch[w].keep \subseteq dispatch[w].batch
      /\ dispatch[w].batch \in SUBSET ClaimRef
  BY <1>1 DEF ReadClaim, DispatchFits, Dispatch
<1>3. CASE dispatch' = [dispatch EXCEPT ![w] = Releasing(w, dispatch[w].batch, {}, "idle")]
  <2>1. PICK x \in Dispatch :
             /\ x = Releasing(w, dispatch[w].batch, {}, "idle")
             /\ DispatchFits(x) /\ x.todo = dispatch[w].batch /\ x.batch = {}
             /\ x.at = (IF dispatch[w].batch = {} THEN "idle" ELSE "releasing")
    BY <1>2, ReleasingForm
  <2>2. dispatch' = [dispatch EXCEPT ![w] = x]
    BY <1>3, <2>1
  <2> QED BY <1>1, <1>2, <2>1, <2>2 DEF Pending
<1>4. CASE dispatch' = [dispatch EXCEPT
                          ![w].todo = @ \ {c},
                          ![w].keep = IF Holds(c.run, c.token) THEN @ \cup {c} ELSE @]
  <2>1. PICK keep : keep = IF Holds(c.run, c.token) THEN dispatch[w].keep \cup {c}
                           ELSE dispatch[w].keep
    OBVIOUS
  <2>2. keep \subseteq dispatch[w].batch
    BY <1>2, <2>1
  <2>3. PICK x : x = [dispatch[w] EXCEPT !.todo = @ \ {c}, !.keep = keep]
    OBVIOUS
  <2>4. /\ x \in Dispatch /\ x.at = "verifying" /\ x.batch = dispatch[w].batch
        /\ x.todo = dispatch[w].todo \ {c} /\ x.keep = keep /\ x.moved = dispatch[w].moved
    BY <1>1, <1>2, <2>2, <2>3 DEF Dispatch
  <2>5. DispatchFits(x)
    BY <1>2, <2>2, <2>4 DEF DispatchFits
  <2>6. dispatch' = [dispatch EXCEPT ![w] = x]
    BY <1>1, <1>4, <2>1, <2>3
  <2> QED BY <1>1, <1>2, <2>1, <2>4, <2>5, <2>6 DEF Pending
<1> QED BY <1>3, <1>4 DEF ReadClaim

\* A window that was not quiet closes: another one, or the batch is given back.
LEMMA NoisyWindowForm ==
  ASSUME Typed, NEW w \in Worker, CloseWindow(w), ~WindowIsQuiet(w)
  PROVE  /\ dispatch' \in [Worker -> Dispatch] /\ DispatchFits(dispatch'[w])
         /\ \A v \in Worker \ {w} : dispatch'[v] = dispatch[v]
         /\ dispatch[w].at = "verifying"
         /\ dispatch'[w].at \in {"ready", "idle", "releasing"}
         /\ dispatch'[w].batch \cup dispatch'[w].todo = Pending(w)
         /\ dispatch'[w].batch \subseteq dispatch[w].batch
         /\ UNCHANGED <<exec, controllers, fence, overflow>>
<1>1. dispatch \in [Worker -> Dispatch] /\ dispatch[w] \in Dispatch /\ DispatchFits(dispatch[w])
  BY DEF Typed
<1>2. /\ dispatch[w].at = "verifying" /\ dispatch[w].todo = {}
      /\ dispatch[w].batch \in SUBSET ClaimRef
  BY <1>1 DEF CloseWindow, Dispatch
<1>3. CASE dispatch[w].tries < MaxTries
  <2>1. PICK x : x = [dispatch[w] EXCEPT !.at = "ready"]
    OBVIOUS
  <2>2. x \in Dispatch /\ x.at = "ready" /\ x.batch = dispatch[w].batch /\ x.todo = {}
        /\ x.tries = dispatch[w].tries
    BY <1>1, <1>2, <2>1 DEF Dispatch
  <2>3. DispatchFits(x)
    BY <1>3, <2>2 DEF DispatchFits
  <2>4. dispatch' = [dispatch EXCEPT ![w] = x]
    BY <1>1, <1>3, <2>1 DEF CloseWindow
  <2> QED BY <1>1, <1>2, <2>2, <2>3, <2>4 DEF Pending, CloseWindow
<1>4. CASE ~(dispatch[w].tries < MaxTries) /\ dispatch[w].batch = {}
  <2>1. dispatch' = [dispatch EXCEPT ![w] = Idle]
    BY <1>1, <1>4 DEF CloseWindow
  <2> QED BY <1>1, <1>2, <1>4, <2>1, IdleForm DEF Pending, CloseWindow
<1>5. CASE ~(dispatch[w].tries < MaxTries) /\ dispatch[w].batch # {}
  <2>1. PICK x \in Dispatch :
             /\ x = Releasing(w, dispatch[w].batch, {}, "idle")
             /\ DispatchFits(x) /\ x.todo = dispatch[w].batch /\ x.batch = {}
             /\ x.at = "releasing"
    BY <1>2, <1>5, ReleasingForm
  <2>2. dispatch' = [dispatch EXCEPT ![w] = x]
    BY <1>1, <1>5, <2>1 DEF CloseWindow
  <2> QED BY <1>1, <1>2, <2>1, <2>2 DEF Pending, CloseWindow
<1> QED BY <1>3, <1>4, <1>5

--------------------------------------------------------------------------------
(* What each action does to the executions.                                *)

\* The execution stays where it is; it may be told to abort.
Continues(r, n) ==
    /\ exec'[r][n].at = exec[r][n].at
    /\ Ongoing(r, n) => /\ exec'[r][n].worker = exec[r][n].worker
                        /\ exec[r][n].aborted => exec'[r][n].aborted

SameLease(r, n) == Ongoing(r, n) => exec'[r][n].leaseActive = exec[r][n].leaseActive

SameBeat(r, n) == Ongoing(r, n) => exec'[r][n].beaten = exec[r][n].beaten

\* A cancellation is applied on its worker: the fence knows the run or has overflowed, and
\* the controller of the run's handler is told.
LEMMA ApplyLocalForm ==
  ASSUME Typed, NEW w \in Worker, NEW r \in RunId, ApplyLocal(w, r)
  PROVE  /\ dispatch' \in [Worker -> Dispatch]
         /\ \A v \in Worker \ {w} : dispatch'[v] = dispatch[v]
         /\ SameClaims(w) /\ dispatch'[w].age = dispatch[w].age
         /\ DispatchFits(dispatch'[w])
         /\ dispatch'[w].moved = (dispatch[w].moved \/ dispatch[w].at = "verifying")
         /\ exec' \in [RunId -> [Token -> ExecRecord]]
         /\ \A q \in RunId, n \in Token : Continues(q, n) /\ SameLease(q, n) /\ SameBeat(q, n)
         /\ controllers[w][r] # NoToken => exec'[r][controllers[w][r]].aborted
         /\ fence' \in [Worker -> SUBSET RunId] /\ overflow' \in [Worker -> BOOLEAN]
         /\ \A v \in Worker \ {w} : fence'[v] = fence[v] /\ overflow'[v] = overflow[v]
         /\ fence'[w] \subseteq fence[w] \cup {r} /\ fence[w] \subseteq fence'[w]
         /\ overflow[w] => overflow'[w]
         /\ r \in fence'[w] \/ overflow'[w]
         /\ acked' \in [Worker -> SUBSET RunId]
         /\ \A v \in Worker : acked'[v] = IF v = w THEN acked[v] \cup {r} ELSE acked[v]
         /\ cancelling' = [cancelling EXCEPT ![w] = NotCancelling]
<1>1. /\ dispatch \in [Worker -> Dispatch] /\ dispatch[w] \in Dispatch /\ DispatchFits(dispatch[w])
      /\ exec \in [RunId -> [Token -> ExecRecord]]
      /\ fence \in [Worker -> SUBSET RunId] /\ overflow \in [Worker -> BOOLEAN]
      /\ acked \in [Worker -> SUBSET RunId]
      /\ controllers[w][r] \in Token \cup {NoToken}
  BY DEF Typed
<1>2. PICK moved \in BOOLEAN : moved = (dispatch[w].moved \/ dispatch[w].at = "verifying")
  BY <1>1 DEF Dispatch
<1>3. PICK x : x = [dispatch[w] EXCEPT !.moved = moved]
  OBVIOUS
<1>4. /\ x \in Dispatch /\ x.at = dispatch[w].at /\ x.then = dispatch[w].then
      /\ x.batch = dispatch[w].batch /\ x.todo = dispatch[w].todo /\ x.keep = dispatch[w].keep
      /\ x.age = dispatch[w].age /\ x.tries = dispatch[w].tries /\ x.moved = moved
  BY <1>1, <1>3 DEF Dispatch
<1>5. DispatchFits(x)
  BY <1>1, <1>4 DEF DispatchFits
<1>6. dispatch' = [dispatch EXCEPT ![w] = x]
  BY <1>1, <1>2, <1>3 DEF ApplyLocal
<1>7. /\ dispatch' \in [Worker -> Dispatch] /\ DispatchFits(dispatch'[w])
      /\ \A v \in Worker \ {w} : dispatch'[v] = dispatch[v]
      /\ SameClaims(w) /\ dispatch'[w].age = dispatch[w].age
      /\ dispatch'[w].moved = (dispatch[w].moved \/ dispatch[w].at = "verifying")
  BY <1>1, <1>2, <1>4, <1>5, <1>6 DEF SameClaims
<1>8. PICK y \in [RunId -> [Token -> ExecRecord]] :
           /\ y = Aborting(exec, w, r)
           /\ \A q \in RunId, n \in Token :
                IF q = r /\ n = controllers[w][r]
                THEN /\ y[q][n] \in Execution /\ y[q][n].at = exec[q][n].at /\ y[q][n].aborted
                     /\ y[q][n].worker = exec[q][n].worker /\ y[q][n].beaten = exec[q][n].beaten
                     /\ y[q][n].leaseActive = exec[q][n].leaseActive
                ELSE y[q][n] = exec[q][n]
  BY <1>1, AbortingForm
<1>9. exec' = y
  BY <1>8 DEF ApplyLocal
<1>10. /\ exec' \in [RunId -> [Token -> ExecRecord]]
       /\ \A q \in RunId, n \in Token : Continues(q, n) /\ SameLease(q, n) /\ SameBeat(q, n)
       /\ controllers[w][r] # NoToken => exec'[r][controllers[w][r]].aborted
  BY <1>1, <1>8, <1>9 DEF Continues, SameLease, SameBeat
<1>11. /\ fence' \in [Worker -> SUBSET RunId] /\ overflow' \in [Worker -> BOOLEAN]
       /\ \A v \in Worker \ {w} : fence'[v] = fence[v] /\ overflow'[v] = overflow[v]
       /\ fence'[w] \subseteq fence[w] \cup {r} /\ fence[w] \subseteq fence'[w]
       /\ overflow[w] => overflow'[w]
       /\ r \in fence'[w] \/ overflow'[w]
  BY <1>1 DEF ApplyLocal, Overflows
<1>12. /\ acked' \in [Worker -> SUBSET RunId]
       /\ \A v \in Worker : acked'[v] = IF v = w THEN acked[v] \cup {r} ELSE acked[v]
  BY <1>1 DEF ApplyLocal
<1> QED BY <1>7, <1>10, <1>11, <1>12 DEF ApplyLocal

\* An execution that has lost its lease tells the controller of its run.
LEMMA LostLeaseForm ==
  ASSUME Typed, NEW r \in RunId, NEW n \in Token, Ongoing(r, n), exec' = LostLease(r, n)
  PROVE  /\ exec' \in [RunId -> [Token -> ExecRecord]]
         /\ \A q \in RunId, m \in Token : Continues(q, m) /\ SameBeat(q, m)
         /\ \A q \in RunId, m \in Token : (q = r /\ m = n) \/ SameLease(q, m)
<1>1. exec \in [RunId -> [Token -> ExecRecord]] /\ exec[r][n] \in Execution
  BY ExecutionForm DEF Typed, Ongoing
<1>2. PICK z : z = [exec[r][n] EXCEPT !.leaseActive = FALSE]
  OBVIOUS
<1>3. /\ z \in Execution /\ z.at = exec[r][n].at /\ z.worker = exec[r][n].worker
      /\ z.aborted = exec[r][n].aborted /\ z.beaten = exec[r][n].beaten
  BY <1>1, <1>2 DEF Execution
<1>4. z \in ExecRecord /\ exec[r][n].worker \in Worker
  BY <1>1, <1>3 DEF ExecRecord, Execution
<1>5. PICK x : x = [exec EXCEPT ![r][n] = z]
  OBVIOUS
<1>6. /\ x \in [RunId -> [Token -> ExecRecord]]
      /\ \A q \in RunId, m \in Token : x[q][m] = IF q = r /\ m = n THEN z ELSE exec[q][m]
  BY <1>1, <1>4, <1>5
<1>7. exec' = Aborting(x, exec[r][n].worker, r)
  BY <1>1, <1>2, <1>5 DEF LostLease
<1>8. \A m \in Token : exec[r][m].at = "handling" => x[r][m].at = "handling"
  BY <1>3, <1>6
<1>9. PICK w \in Worker : w = exec[r][n].worker
  BY <1>4
<1>10. PICK y \in [RunId -> [Token -> ExecRecord]] :
           /\ y = Aborting(x, w, r)
           /\ \A q \in RunId, m \in Token :
                IF q = r /\ m = controllers[w][r]
                THEN /\ y[q][m] \in Execution /\ y[q][m].at = x[q][m].at /\ y[q][m].aborted
                     /\ y[q][m].worker = x[q][m].worker /\ y[q][m].beaten = x[q][m].beaten
                     /\ y[q][m].leaseActive = x[q][m].leaseActive
                ELSE y[q][m] = x[q][m]
  BY <1>6, <1>8, AbortingForm
<1>11. exec' = y
  BY <1>7, <1>9, <1>10
<1>12. ASSUME NEW q \in RunId, NEW m \in Token
       PROVE  /\ exec'[q][m].at = x[q][m].at /\ exec'[q][m].beaten = x[q][m].beaten
              /\ exec'[q][m].worker = x[q][m].worker
              /\ exec'[q][m].leaseActive = x[q][m].leaseActive
              /\ x[q][m].aborted => exec'[q][m].aborted
  BY <1>10, <1>11
<1>13. ASSUME NEW q \in RunId, NEW m \in Token
       PROVE  /\ Continues(q, m) /\ SameBeat(q, m)
              /\ (q = r /\ m = n) \/ SameLease(q, m)
  BY <1>3, <1>6, <1>12 DEF Continues, SameBeat, SameLease
<1>14. exec' \in [RunId -> [Token -> ExecRecord]]
  BY <1>10, <1>11
<1> QED BY <1>13, <1>14

\* A heartbeat renews the lease, or finds that it is lost.
LEMMA HeartbeatForm ==
  ASSUME Typed, NEW r \in RunId, NEW n \in Token, Heartbeat(r, n)
  PROVE  /\ exec' \in [RunId -> [Token -> ExecRecord]] /\ Ongoing(r, n)
         /\ \A q \in RunId, m \in Token : Continues(q, m)
         /\ \A q \in RunId, m \in Token : (q = r /\ m = n) \/ (SameLease(q, m) /\ SameBeat(q, m))
         /\ IF Fenced(r, n, 0) THEN RenewLease(r, n, 0) /\ SameLease(r, n)
            ELSE UNCHANGED storeVars /\ SameBeat(r, n)
<1>1. Ongoing(r, n)
  BY DEF Heartbeat, Beats, Ongoing, At
<1>2. exec \in [RunId -> [Token -> ExecRecord]] /\ exec[r][n] \in Execution
  BY <1>1, ExecutionForm DEF Typed, Ongoing
<1>3. CASE Fenced(r, n, 0)
  <2>1. PICK z : z = [exec[r][n] EXCEPT !.beaten = TRUE]
    OBVIOUS
  <2>2. /\ z \in Execution /\ z.at = exec[r][n].at /\ z.worker = exec[r][n].worker
        /\ z.aborted = exec[r][n].aborted /\ z.leaseActive = exec[r][n].leaseActive
    BY <1>2, <2>1 DEF Execution
  <2>3. z \in ExecRecord
    BY <2>2 DEF ExecRecord
  <2>4. exec' = [exec EXCEPT ![r][n] = z]
    BY <1>2, <1>3, <2>1 DEF Heartbeat
  <2>5. /\ exec' \in [RunId -> [Token -> ExecRecord]]
        /\ \A q \in RunId, m \in Token : exec'[q][m] = IF q = r /\ m = n THEN z ELSE exec[q][m]
    BY <1>2, <2>3, <2>4
  <2>6. RenewLease(r, n, 0)
    BY <1>3 DEF Heartbeat
  <2> QED BY <1>1, <1>3, <2>2, <2>5, <2>6 DEF Continues, SameLease, SameBeat
<1>4. CASE ~Fenced(r, n, 0)
  BY <1>1, <1>4, LostLeaseForm DEF Heartbeat
<1> QED BY <1>3, <1>4

\* A timeout tells the execution itself.
LEMMA TimeoutForm ==
  ASSUME Typed, NEW r \in RunId, NEW n \in Token, Timeout(r, n)
  PROVE  /\ exec' \in [RunId -> [Token -> ExecRecord]]
         /\ \A q \in RunId, m \in Token : Continues(q, m) /\ SameLease(q, m) /\ SameBeat(q, m)
         /\ timedOutIds' \in [Worker -> SUBSET RunId]
         /\ timedOutOps' \in [Worker -> [RunId -> Token \cup {NoToken}]]
<1>1. exec \in [RunId -> [Token -> ExecRecord]] /\ exec[r][n] \in Execution
      /\ At(r, n, "handling")
  BY ExecutionForm DEF Typed, At, Timeout
<1>2. PICK z : z = [exec[r][n] EXCEPT !.timedOut = TRUE, !.aborted = TRUE]
  OBVIOUS
<1>3. /\ z \in Execution /\ z.at = exec[r][n].at /\ z.worker = exec[r][n].worker
      /\ z.aborted /\ z.leaseActive = exec[r][n].leaseActive /\ z.beaten = exec[r][n].beaten
  BY <1>1, <1>2 DEF Execution
<1>4. z \in ExecRecord /\ exec[r][n].worker \in Worker
  BY <1>1, <1>3 DEF ExecRecord, Execution
<1>5. exec' = [exec EXCEPT ![r][n] = z]
  BY <1>1, <1>2 DEF Timeout
<1>6. /\ exec' \in [RunId -> [Token -> ExecRecord]]
      /\ \A q \in RunId, m \in Token : exec'[q][m] = IF q = r /\ m = n THEN z ELSE exec[q][m]
  BY <1>1, <1>4, <1>5
<1>7. /\ timedOutIds' \in [Worker -> SUBSET RunId]
      /\ timedOutOps' \in [Worker -> [RunId -> Token \cup {NoToken}]]
  BY <1>4 DEF Timeout, Typed, Remembered
<1> QED BY <1>3, <1>6, <1>7 DEF Continues, SameLease, SameBeat

\* A handler that settles leaves the controllers.
LEMMA HandlerSettlesForm ==
  ASSUME Typed, NEW r \in RunId, NEW n \in Token, HandlerSettles(r, n)
  PROVE  /\ exec' \in [RunId -> [Token -> ExecRecord]]
         /\ At(r, n, "handling") /\ exec'[r][n].at = "settled"
         /\ exec'[r][n].worker = exec[r][n].worker
         /\ exec'[r][n].leaseActive = exec[r][n].leaseActive
         /\ \A q \in RunId, m \in Token : (q = r /\ m = n) \/ exec'[q][m] = exec[q][m]
         /\ controllers' \in [Worker -> [RunId -> Token \cup {NoToken}]]
         /\ \A v \in Worker, q \in RunId :
              controllers'[v][q] = IF v = exec[r][n].worker /\ q = r THEN NoToken
                                   ELSE controllers[v][q]
         /\ timedOutIds' \in [Worker -> SUBSET RunId]
         /\ timedOutOps' \in [Worker -> [RunId -> Token \cup {NoToken}]]
<1>1. exec \in [RunId -> [Token -> ExecRecord]] /\ exec[r][n] \in Execution
      /\ At(r, n, "handling")
  BY ExecutionForm DEF Typed, At, HandlerSettles
<1>2. PICK z : z = [exec[r][n] EXCEPT !.at = "settled"]
  OBVIOUS
<1>3. /\ z \in Execution /\ z.at = "settled" /\ z.worker = exec[r][n].worker
      /\ z.leaseActive = exec[r][n].leaseActive
  BY <1>1, <1>2 DEF Execution
<1>4. z \in ExecRecord /\ exec[r][n].worker \in Worker
  BY <1>1, <1>3 DEF ExecRecord, Execution
<1>5. exec' = [exec EXCEPT ![r][n] = z]
  BY <1>1, <1>2 DEF HandlerSettles
<1>6. /\ exec' \in [RunId -> [Token -> ExecRecord]]
      /\ \A q \in RunId, m \in Token : exec'[q][m] = IF q = r /\ m = n THEN z ELSE exec[q][m]
  BY <1>1, <1>4, <1>5
<1>7. PICK w \in Worker : w = exec[r][n].worker
  BY <1>4
<1>8. /\ controllers' \in [Worker -> [RunId -> Token \cup {NoToken}]]
      /\ \A v \in Worker, q \in RunId :
           controllers'[v][q] = IF v = w /\ q = r THEN NoToken ELSE controllers[v][q]
  BY <1>7 DEF HandlerSettles, Typed
<1>9. timedOutIds' \in [Worker -> SUBSET RunId]
  BY <1>7 DEF HandlerSettles, Typed
<1>10. timedOutOps' \in [Worker -> [RunId -> Token \cup {NoToken}]]
  BY <1>7 DEF HandlerSettles, Typed
<1> QED BY <1>1, <1>3, <1>6, <1>7, <1>8, <1>9, <1>10

\* A step of an execution leaves the dispatch, the fences, the cancellations and the
\* acknowledgements of every worker alone.
LEMMA ExecutingLeaves ==
  ASSUME NEW r \in RunId, NEW n \in Token, Executing(r, n)
  PROVE  UNCHANGED <<dispatch, fence, overflow, cancelling, acked>>
<1>1. CASE Heartbeat(r, n)
  BY <1>1 DEF Heartbeat
<1>2. CASE LoseRenewal(r, n)
  BY <1>2 DEF LoseRenewal
<1>3. CASE Timeout(r, n)
  BY <1>3 DEF Timeout
<1>4. CASE HandlerSettles(r, n)
  BY <1>4 DEF HandlerSettles
<1>5. ASSUME NEW delay \in Delay, NEW d \in Lag, Commit(r, n, delay, d)
      PROVE  UNCHANGED <<dispatch, fence, overflow, cancelling, acked>>
  BY <1>5 DEF Commit
<1> QED BY <1>1, <1>2, <1>3, <1>4, <1>5 DEF Executing

\* An execution ends with its commit.
LEMMA CommitForm ==
  ASSUME Typed, NEW r \in RunId, NEW n \in Token, NEW delay \in Delay, NEW d \in Lag,
         Commit(r, n, delay, d)
  PROVE  /\ exec' \in [RunId -> [Token -> ExecRecord]]
         /\ At(r, n, "settled")
         /\ \A q \in RunId, m \in Token : exec'[q][m] = IF q = r /\ m = n THEN Over ELSE exec[q][m]
BY ExecutionForm DEF Typed, Commit

\* A crash ends the executions of its worker and nothing else's.
LEMMA CrashForm ==
  ASSUME Typed, NEW w \in Worker, Crash(w)
  PROVE  /\ exec' \in [RunId -> [Token -> ExecRecord]]
         /\ \A r \in RunId, n \in Token :
              exec'[r][n] = IF Ongoing(r, n) /\ exec[r][n].worker = w THEN Over ELSE exec[r][n]
<1>1. \A r \in RunId, n \in Token :
        Ref(r, n) \in Active(w) <=> Ongoing(r, n) /\ exec[r][n].worker = w
  BY DEF Active, ClaimRef, Ref
<1>2. exec' = [r \in RunId |-> [n \in Token |->
                 IF Ref(r, n) \in Active(w) THEN Over ELSE exec[r][n]]]
  BY DEF Crash, Ref
<1>3. exec \in [RunId -> [Token -> ExecRecord]] /\ Over \in ExecRecord
  BY ExecutionForm DEF Typed
<1> QED BY <1>1, <1>2, <1>3

\* Time passes: claims that are awaited grow older, and the next heartbeats become due.
LEMMA TimePassesForm ==
  ASSUME Typed, TimePasses
  PROVE  /\ exec' \in [RunId -> [Token -> ExecRecord]]
         /\ \A r \in RunId, n \in Token :
              /\ Continues(r, n) /\ SameLease(r, n)
              /\ Ongoing(r, n) => ~exec'[r][n].beaten
         /\ dispatch' \in [Worker -> Dispatch]
         /\ \A w \in Worker :
              /\ SameClaims(w) /\ DispatchFits(dispatch'[w])
              /\ dispatch'[w].moved = dispatch[w].moved
              /\ dispatch'[w].age = IF dispatch[w].at = "claimed" THEN dispatch[w].age + 1
                                    ELSE dispatch[w].age
<1>1. exec \in [RunId -> [Token -> ExecRecord]] /\ dispatch \in [Worker -> Dispatch]
  BY DEF Typed
<1>2. ASSUME NEW r \in RunId, NEW n \in Token
      PROVE  /\ exec'[r][n] \in ExecRecord /\ Continues(r, n) /\ SameLease(r, n)
             /\ Ongoing(r, n) => ~exec'[r][n].beaten
  <2>1. CASE ~Ongoing(r, n)
    BY <1>1, <2>1 DEF TimePasses, Continues, SameLease
  <2>2. CASE Ongoing(r, n)
    <3>1. exec'[r][n] = [exec[r][n] EXCEPT !.beaten = FALSE]
      BY <2>2 DEF TimePasses
    <3>2. exec[r][n] \in Execution
      BY <1>1, <2>2, ExecutionForm DEF Ongoing
    <3> QED BY <3>1, <3>2 DEF Continues, SameLease, Execution, ExecRecord
  <2> QED BY <2>1, <2>2
<1>3. exec' \in [RunId -> [Token -> ExecRecord]]
  BY <1>2 DEF TimePasses
<1>4. ASSUME NEW w \in Worker
      PROVE  /\ dispatch'[w] \in Dispatch
             /\ SameClaims(w) /\ DispatchFits(dispatch'[w])
             /\ dispatch'[w].moved = dispatch[w].moved
             /\ dispatch'[w].age = IF dispatch[w].at = "claimed" THEN dispatch[w].age + 1
                                   ELSE dispatch[w].age
  <2>1. dispatch[w] \in Dispatch /\ DispatchFits(dispatch[w])
    BY DEF Typed
  <2>2. CASE dispatch[w].at = "claimed"
    <3>1. PICK x : x = [dispatch[w] EXCEPT !.age = @ + 1]
      OBVIOUS
    <3>2. dispatch'[w] = x
      BY <2>2, <3>1 DEF TimePasses
    <3>3. /\ x \in Dispatch /\ x.at = dispatch[w].at /\ x.then = dispatch[w].then
          /\ x.batch = dispatch[w].batch /\ x.todo = dispatch[w].todo
          /\ x.keep = dispatch[w].keep /\ x.moved = dispatch[w].moved
          /\ x.tries = dispatch[w].tries /\ x.age = dispatch[w].age + 1
      BY <2>1, <3>1 DEF Dispatch
    <3>4. DispatchFits(x)
      BY <2>1, <3>3 DEF DispatchFits
    <3> QED BY <2>2, <3>2, <3>3, <3>4 DEF SameClaims
  <2>3. CASE dispatch[w].at # "claimed"
    BY <2>1, <2>3 DEF TimePasses, SameClaims
  <2> QED BY <2>2, <2>3
<1>5. dispatch' \in [Worker -> Dispatch]
  BY <1>4 DEF TimePasses
<1> QED BY <1>2, <1>3, <1>4, <1>5

--------------------------------------------------------------------------------
(* The store and the types.                                                *)

\* Claims are spent in order, each claim is in one worker's hands, and one that is pending
\* has not been started.
PendingSound(w) ==
    \A c \in Pending(w) :
        /\ c.token <= issued[c.run] /\ exec[c.run][c.token] = NoExecution
        /\ \A e \in Pending(w) : e.run = c.run => e = c
        /\ \A v \in Worker \ {w} : c \notin Pending(v)

Claims ==
    /\ \A r \in RunId : RunIs(r, "absent") => issued[r] = 0
    /\ \A r \in RunId, n \in Token : exec[r][n] # NoExecution => n <= issued[r]
    /\ \A w \in Worker : PendingSound(w)

\* What a worker runs are finitely many claims.
LEMMA ActiveIsFinite ==
  ASSUME NEW w
  PROVE  IsFiniteSet(Active(w)) /\ Cardinality(Active(w)) \in Nat
<1>1. IsFiniteSet(RunId) /\ IsFiniteSet(Token)
  BY FS_Interval, StoreConstants DEF Token
<1>2. IsFiniteSet(RunId \X Token)
  BY <1>1, FS_Product
<1> DEFINE f == [p \in RunId \X Token |-> Ref(p[1], p[2])]
<1>3. f \in [RunId \X Token -> ClaimRef]
  BY DEF ClaimRef, Ref
<1>4. ASSUME NEW c \in ClaimRef PROVE \E p \in RunId \X Token : f[p] = c
  <2>1. <<c.run, c.token>> \in RunId \X Token
    BY DEF ClaimRef
  <2>2. f[<<c.run, c.token>>] = c
    BY <2>1 DEF ClaimRef, Ref
  <2> QED BY <2>1, <2>2
<1>5. f \in Surjection(RunId \X Token, ClaimRef)
  BY <1>3, <1>4 DEF Surjection
<1>6. IsFiniteSet(ClaimRef)
  BY <1>2, <1>5, FS_Surjection
<1>7. Active(w) \in SUBSET ClaimRef
  BY DEF Active
<1> QED BY <1>6, <1>7, FS_Subset, FS_CardinalityType

\* The token of a run is one that the store issued, or none.
LEMMA TokenForm ==
  ASSUME RecordInv, Typed, NEW r \in RunId
  PROVE  /\ runs[r].token \in Token \cup {NoToken}
         /\ RunIs(r, "running") => runs[r].token \in Token /\ runs[r].token = issued[r]
         /\ issued[r] \in Nat
<1>1. runs[r] \in Run /\ Sound(runs[r], issued[r], MaxAttempts[r]) /\ issued[r] \in Nat
      /\ issued[r] <= MaxClaims
  BY DEF RecordInv, AllSound, TypeOK, Typed
<1> QED BY <1>1, StoreConstants DEF Sound, Token, NoToken, RunIs

\* The operations of the store that workers call.
StoreCalls ==
    \/ Enqueue \/ Claim \/ Release \/ Complete \/ Retry \/ Bury \/ Cancel \/ Recover \/ Tick
    \/ \E r \in RunId, n \in Token : RenewLease(r, n, 0)
    \/ UNCHANGED storeVars

\* Whatever the workers do to the store is one of these; only a claim issues tokens.
LEMMA WorkersUseTheStore ==
  ASSUME RecordInv, Typed, WorkersNext
  PROVE  /\ StoreCalls
         /\ \/ UNCHANGED issued
            \/ \E w \in Worker, S \in SUBSET RunId, d \in Lag :
                 S # {} /\ ClaimRuns(w, S, d) /\ ClaimDueRuns(S, Task, Slots(w), d)
<1> USE DEF storeVars
<1>0. UNCHANGED storeVars => StoreCalls
  BY DEF StoreCalls
<1> USE <1>0
<1>1. CASE Enqueue
  BY <1>1 DEF StoreCalls, Enqueue, AppendRun
<1>2. ASSUME NEW w \in Worker, Dispatching(w)
      PROVE  /\ StoreCalls
             /\ \/ UNCHANGED issued
                \/ \E S \in SUBSET RunId, d \in Lag :
                     S # {} /\ ClaimRuns(w, S, d) /\ ClaimDueRuns(S, Task, Slots(w), d)
  <2>1. ASSUME NEW S \in SUBSET RunId, NEW d \in Lag, ClaimRuns(w, S, d), S # {}
        PROVE  /\ StoreCalls
               /\ ClaimDueRuns(S, Task, Slots(w), d)
    <3>1. ClaimDueRuns(S, Task, Slots(w), d) /\ Slots(w) > 0
      BY <2>1 DEF ClaimRuns
    <3>2. Slots(w) \in 1 .. MaxConcurrentRuns
      BY <3>1, ActiveIsFinite, StoreConstants DEF Slots
    <3> QED BY <3>1, <3>2 DEF StoreCalls, Claim
  <2>2. ASSUME NEW S \in SUBSET RunId, NEW d \in Lag, ClaimRuns(w, S, d), S = {}
        PROVE  UNCHANGED storeVars
    BY <2>2 DEF ClaimRuns
  <2>3. ASSUME NEW c \in dispatch[w].todo, ReleaseOne(w, c)
        PROVE  StoreCalls /\ UNCHANGED issued
    <3>1. c.run \in RunId /\ c.token \in Token
      BY <2>3, ReleaseOneForm DEF ClaimRef
    <3> QED BY <2>3, <3>1 DEF ReleaseOne, StoreCalls, Release, ReleaseClaim
  <2>4. CASE CheckClaim(w) \/ ClaimAnswerLost(w) \/ Start(w) \/ OpenWindow(w)
    BY <2>4 DEF CheckClaim, ClaimAnswerLost, Start, OpenWindow
  <2>5. ASSUME NEW c, ReadClaim(w, c) PROVE UNCHANGED storeVars
    BY <2>5 DEF ReadClaim
  <2>6. CASE CloseWindow(w)
    BY <2>6 DEF CloseWindow
  <2>7. ASSUME NEW S \in SUBSET RunId, NEW d \in Lag, ClaimRuns(w, S, d), S # {}
        PROVE  \E T \in SUBSET RunId, e \in Lag :
                 T # {} /\ ClaimRuns(w, T, e) /\ ClaimDueRuns(T, Task, Slots(w), e)
    BY <2>1, <2>7
  <2>8. CASE \E S \in SUBSET RunId, d \in Lag : ClaimRuns(w, S, d)
    BY <2>1, <2>2, <2>7, <2>8
  <2> QED BY <1>2, <2>3, <2>4, <2>5, <2>6, <2>8 DEF Dispatching
<1>3. ASSUME NEW r \in RunId, NEW n \in Token, Executing(r, n)
      PROVE  StoreCalls /\ UNCHANGED issued
  <2>1. 0 \in Lag
    BY StoreConstants DEF Lag
  <2>2. CASE Heartbeat(r, n)
    BY <2>1, <2>2 DEF Heartbeat, StoreCalls, RenewLease
  <2>3. CASE LoseRenewal(r, n) \/ Timeout(r, n) \/ HandlerSettles(r, n)
    BY <2>3 DEF LoseRenewal, Timeout, HandlerSettles
  <2>4. ASSUME NEW delay \in Delay, NEW d \in Lag, Commit(r, n, delay, d)
        PROVE  StoreCalls /\ UNCHANGED issued
    <3>1. CASE Outcome(r, n, delay, d)
      BY <3>1 DEF Outcome, StoreCalls, Complete, Retry, Bury, CompleteRun, MarkRunRetryable,
                  DeadLetterRun
    <3>2. CASE UNCHANGED storeVars
      BY <3>2
    <3> QED BY <2>4, <3>1, <3>2 DEF Commit
  <2> QED BY <1>3, <2>2, <2>3, <2>4 DEF Executing
<1>4. ASSUME NEW w \in Worker, Cancels(w)
      PROVE  StoreCalls /\ UNCHANGED issued
  <2>1. ASSUME NEW d \in Lag, CancelSend(w, d)
        PROVE  StoreCalls /\ UNCHANGED issued
    <3>1. cancelling[w].run \in RunId /\ cancelling[w].token \in Token \cup {NoToken}
      BY <2>1 DEF CancelSend, Typed, CancellingFits, Cancelling
    <3> QED BY <2>1, <3>1 DEF CancelSend, StoreCalls, Cancel, CancelRun
  <2>2. CASE (\E r \in RunId : CancelRead(w, r)) \/ CancelAnswered(w) \/ CancelConfirm(w)
    BY <2>2 DEF CancelRead, CancelAnswered, CancelConfirm
  <2> QED BY <1>4, <2>1, <2>2 DEF Cancels
<1>5. ASSUME NEW S \in SUBSET RunId, NEW d \in Lag, RecoverLeases(S, d)
      PROVE  StoreCalls /\ UNCHANGED issued
  BY <1>5 DEF RecoverLeases, StoreCalls, Recover, RecoverStaleLeases
<1>6. CASE (\E w \in Worker : Crash(w)) \/ \E w \in Worker : StopAdmission(w)
  BY <1>6 DEF Crash, StopAdmission
<1>7. CASE TimePasses
  BY <1>7 DEF TimePasses, StoreCalls, Tick
<1> QED BY <1>1, <1>2, <1>3, <1>4, <1>5, <1>6, <1>7, WorkerConstants DEF WorkersNext

\* The call that w has in progress moves on, the others stay.
CancellingMoves(w) ==
    /\ cancelling' \in [Worker -> Cancelling] /\ CancellingFits(cancelling'[w])
    /\ \A v \in Worker \ {w} : cancelling'[v] = cancelling[v]

\* No cancellation is in progress.
LEMMA NotCancellingForm ==
    NotCancelling \in Cancelling /\ CancellingFits(NotCancelling) /\ NotCancelling.at = "idle"
<1>1. 0 \in 0 .. MaxTries /\ 0 < MaxTries
  BY WorkerConstants
<1> QED BY <1>1 DEF NotCancelling, Cancelling, CancellingFits

\* A call of cancelRun that is over.
LEMMA CancellingEnds ==
  ASSUME Typed, NEW w \in Worker, cancelling' = [cancelling EXCEPT ![w] = NotCancelling]
  PROVE  CancellingMoves(w) /\ cancelling'[w].at = "idle"
BY NotCancellingForm DEF Typed, CancellingMoves

\* A call of cancelRun that goes on with the same run.
LEMMA CancellingGoes ==
  ASSUME Typed, NEW w \in Worker, NEW at \in {"answered", "failed", "reading"},
         cancelling[w].at # "idle", at = "reading" => TriesLeft(w),
         cancelling' = [cancelling EXCEPT ![w].at = at]
  PROVE  /\ CancellingMoves(w) /\ cancelling'[w].at = at
         /\ cancelling'[w].run = cancelling[w].run
<1>1. cancelling \in [Worker -> Cancelling] /\ cancelling[w] \in Cancelling
      /\ CancellingFits(cancelling[w])
  BY DEF Typed
<1>2. PICK x : x = [cancelling[w] EXCEPT !.at = at]
  OBVIOUS
<1>3. /\ x \in Cancelling /\ x.at = at /\ x.run = cancelling[w].run
      /\ x.tries = cancelling[w].tries
  BY <1>1, <1>2 DEF Cancelling
<1>4. CancellingFits(x)
  BY <1>1, <1>3 DEF CancellingFits, TriesLeft
<1>5. cancelling' = [cancelling EXCEPT ![w] = x]
  BY <1>1, <1>2
<1> QED BY <1>1, <1>3, <1>4, <1>5 DEF CancellingMoves

\* A run that is cancelled is so afterwards.
LEMMA CancelRunForm ==
  ASSUME RecordInv, NEW r \in RunId, NEW n, NEW d \in Lag, CancelRun(r, n, d)
  PROVE  runs'[r].status = "cancelled" /\ \A q \in RunId \ {r} : runs'[q] = runs[q]
BY EndedFields, StatusFacts DEF CancelRun, RecordInv, TypeOK

\* What a step of cancelRun may do: apply a cancellation that the store has confirmed on its
\* worker, or go on, or cancel the run in the store.
LEMMA CancelsForm ==
  ASSUME RecordInv, Typed, NEW w \in Worker, Cancels(w)
  PROVE  /\ UNCHANGED <<open, controllers, timeoutVars>>
         /\ CancellingMoves(w)
         /\ faults' \in {faults, faults + 1} /\ faults' \in 0 .. MaxFaults
         /\ \/ /\ UNCHANGED storeVars
               /\ cancelling'[w].at = "idle"
               /\ \E r \in RunId :
                    /\ ApplyLocal(w, r)
                    /\ \/ RunIs(r, "cancelled")
                       \/ cancelling[w].at = "answered" /\ cancelling[w].run = r
            \/ /\ UNCHANGED <<overflow, fence, dispatch, exec, acked>>
               /\ \/ UNCHANGED storeVars /\ cancelling'[w].at # "answered"
                  \/ \E r \in RunId, n \in Token \cup {NoToken}, d \in Lag :
                       CancelRun(r, n, d) /\ cancelling'[w].run = r
<1> USE DEF storeVars
<1>1. faults \in 0 .. MaxFaults /\ MaxFaults \in Nat
  BY WorkerConstants DEF Typed
<1>2. faults' = faults => faults' \in {faults, faults + 1} /\ faults' \in 0 .. MaxFaults
  BY <1>1
<1>3. Faulty => faults' \in {faults, faults + 1} /\ faults' \in 0 .. MaxFaults
  BY <1>1 DEF Faulty
<1>4. /\ cancelling \in [Worker -> Cancelling] /\ cancelling[w] \in Cancelling
      /\ CancellingFits(cancelling[w])
  BY DEF Typed
<1>5. ASSUME NEW r \in RunId, CancelRead(w, r)
      PROVE  /\ UNCHANGED <<open, controllers, timeoutVars, storeVars, faults>>
             /\ CancellingMoves(w)
             /\ \/ ApplyLocal(w, r) /\ RunIs(r, "cancelled") /\ cancelling'[w].at = "idle"
                \/ /\ UNCHANGED <<overflow, fence, dispatch, exec, acked>>
                   /\ cancelling'[w].at # "answered"
  <2>1. UNCHANGED <<open, controllers, timeoutVars, storeVars, faults>>
    BY <1>5 DEF CancelRead
  <2>2. CASE runs[r].status \in Live
    <3>1. cancelling[w].at \in {"idle", "reading"}
      BY <1>5 DEF CancelRead
    <3>2. cancelling[w].tries \in Nat /\ cancelling[w].tries < MaxTries /\ MaxTries \in Nat
      BY <1>4, <3>1, WorkerConstants DEF CancellingFits, Cancelling
    <3>3. PICK tries \in 0 .. MaxTries : tries = cancelling[w].tries + 1
      BY <3>2
    <3>4. PICK x : x = [at |-> "sending", run |-> r, token |-> runs[r].token, tries |-> tries]
      OBVIOUS
    <3>5. x \in Cancelling /\ x.at = "sending" /\ x.run = r
      BY <3>3, <3>4, TokenForm DEF Cancelling
    <3>6. CancellingFits(x)
      BY <3>5 DEF CancellingFits
    <3>7. cancelling' = [cancelling EXCEPT ![w] = x]
      BY <1>5, <2>2, <3>3, <3>4 DEF CancelRead
    <3>8. UNCHANGED <<overflow, fence, dispatch, exec, acked>>
      BY <1>5, <2>2 DEF CancelRead
    <3>9. CancellingMoves(w) /\ cancelling'[w].at # "answered"
      BY <1>4, <3>5, <3>6, <3>7 DEF CancellingMoves
    <3> QED BY <2>1, <3>8, <3>9
  <2>3. CASE runs[r].status \notin Live /\ RunIs(r, "cancelled")
    <3>1. ApplyLocal(w, r)
      BY <1>5, <2>3 DEF CancelRead
    <3>2. cancelling' = [cancelling EXCEPT ![w] = NotCancelling]
      BY <3>1 DEF ApplyLocal
    <3> QED BY <2>1, <2>3, <3>1, <3>2, CancellingEnds
  <2>4. CASE runs[r].status \notin Live /\ ~RunIs(r, "cancelled")
    <3>1. GivesUp(w)
      BY <1>5, <2>4 DEF CancelRead
    <3> QED BY <2>1, <3>1, CancellingEnds DEF GivesUp
  <2> QED BY <2>2, <2>3, <2>4
<1>6. ASSUME NEW d \in Lag, CancelSend(w, d)
      PROVE  /\ UNCHANGED <<open, controllers, timeoutVars>>
             /\ CancellingMoves(w)
             /\ faults' = faults \/ Faulty
             /\ UNCHANGED <<overflow, fence, dispatch, exec, acked>>
             /\ \/ UNCHANGED storeVars /\ cancelling'[w].at # "answered"
                \/ \E r \in RunId, n \in Token \cup {NoToken} :
                     CancelRun(r, n, d) /\ cancelling'[w].run = r
  <2>1. /\ UNCHANGED <<open, controllers, timeoutVars>>
        /\ UNCHANGED <<overflow, fence, dispatch, exec, acked>>
        /\ cancelling[w].at = "sending"
    BY <1>6 DEF CancelSend
  <2>2. cancelling[w].run \in RunId /\ cancelling[w].token \in Token \cup {NoToken}
    BY <1>4, <2>1 DEF CancellingFits, Cancelling
  <2> DEFINE next(at) == cancelling' = [cancelling EXCEPT ![w].at = at]
  <2>3. ASSUME NEW at \in {"answered", "failed", "reading"}, next(at),
               at = "reading" => TriesLeft(w)
        PROVE  CancellingMoves(w) /\ cancelling'[w].at = at
               /\ cancelling'[w].run = cancelling[w].run
    BY <2>1, <2>3, CancellingGoes
  <2>4. CASE /\ CancelRun(cancelling[w].run, cancelling[w].token, d)
             /\ next("answered") /\ UNCHANGED faults
    BY <2>1, <2>2, <2>3, <2>4
  <2>5. CASE /\ CancelRun(cancelling[w].run, cancelling[w].token, d)
             /\ next("failed") /\ Faulty
    BY <2>1, <2>2, <2>3, <2>5
  <2>6. CASE UNCHANGED storeVars /\ next("failed") /\ Faulty
    BY <2>1, <2>3, <2>6
  <2>7. CASE UNCHANGED <<storeVars, faults>> /\ TriesLeft(w) /\ next("reading")
    BY <2>1, <2>3, <2>7
  <2>8. CASE /\ UNCHANGED <<storeVars, faults>>
             /\ cancelling' = [cancelling EXCEPT ![w] = NotCancelling]
    BY <2>1, <2>8, CancellingEnds
  <2> QED BY <1>6, <2>4, <2>5, <2>6, <2>7, <2>8 DEF CancelSend
<1>7. CASE CancelAnswered(w)
  <2>1. /\ cancelling[w].at = "answered" /\ ApplyLocal(w, cancelling[w].run)
        /\ UNCHANGED <<open, controllers, timeoutVars, storeVars, faults>>
    BY <1>7 DEF CancelAnswered
  <2>2. cancelling[w].run \in RunId
    BY <1>4, <2>1 DEF CancellingFits
  <2>3. cancelling' = [cancelling EXCEPT ![w] = NotCancelling]
    BY <2>1 DEF ApplyLocal
  <2> QED BY <1>2, <2>1, <2>2, <2>3, CancellingEnds
<1>8. CASE CancelConfirm(w)
  <2>1. /\ cancelling[w].at = "failed"
        /\ UNCHANGED <<open, controllers, timeoutVars, storeVars>>
        /\ faults' = faults \/ Faulty
        /\ \/ RunIs(cancelling[w].run, "cancelled") /\ ApplyLocal(w, cancelling[w].run)
           \/ GivesUp(w)
    BY <1>8 DEF CancelConfirm
  <2>2. cancelling[w].run \in RunId
    BY <1>4, <2>1 DEF CancellingFits
  <2>3. cancelling' = [cancelling EXCEPT ![w] = NotCancelling]
    BY <2>1 DEF ApplyLocal, GivesUp
  <2>4. CancellingMoves(w) /\ cancelling'[w].at = "idle"
    BY <2>3, CancellingEnds
  <2>5. faults' \in {faults, faults + 1} /\ faults' \in 0 .. MaxFaults
    BY <1>2, <1>3, <2>1
  <2>6. CASE RunIs(cancelling[w].run, "cancelled") /\ ApplyLocal(w, cancelling[w].run)
    BY <2>1, <2>2, <2>4, <2>5, <2>6
  <2>7. CASE GivesUp(w)
    BY <2>1, <2>4, <2>5, <2>7 DEF GivesUp
  <2> QED BY <2>1, <2>6, <2>7
<1> QED BY <1>2, <1>3, <1>5, <1>6, <1>7, <1>8 DEF Cancels

\* A window that was quiet starts what it kept.
LEMMA QuietWindowForm ==
  ASSUME Typed, NEW w \in Worker, CloseWindow(w), WindowIsQuiet(w)
  PROVE  /\ dispatch[w].at = "verifying" /\ dispatch[w].todo = {} /\ ~dispatch[w].moved
         /\ dispatch[w].keep \in SUBSET dispatch[w].batch
         /\ StartBatch(w, dispatch[w].keep)
         /\ overflow' = [overflow EXCEPT ![w] = FALSE]
<1>1. dispatch[w].at = "verifying" /\ dispatch[w].todo = {}
  BY DEF CloseWindow
<1>2. DispatchFits(dispatch[w])
  BY DEF Typed
<1>3. StartBatch(w, dispatch[w].keep) /\ overflow' = [overflow EXCEPT ![w] = FALSE]
  BY DEF CloseWindow
<1> QED BY <1>1, <1>2, <1>3 DEF DispatchFits, WindowIsQuiet

\* A start is that of a batch nothing has overtaken, or of what a quiet window kept.
Starts(w, B) ==
    /\ B \in SUBSET dispatch[w].batch /\ StartBatch(w, B)
    /\ \/ Start(w) /\ B = dispatch[w].batch
       \/ CloseWindow(w) /\ WindowIsQuiet(w) /\ B = dispatch[w].keep

\* The steps of a dispatch that start handlers, and the others.
LEMMA DispatchingSteps ==
  ASSUME Typed, NEW w \in Worker, Dispatching(w)
  PROVE  \/ \E S \in SUBSET RunId, d \in Lag : ClaimRuns(w, S, d)
         \/ CheckClaim(w)
         \/ ClaimAnswerLost(w)
         \/ \E c \in dispatch[w].todo : ReleaseOne(w, c)
         \/ \E B : Starts(w, B)
         \/ OpenWindow(w)
         \/ \E c \in dispatch[w].todo : ReadClaim(w, c)
         \/ CloseWindow(w) /\ ~WindowIsQuiet(w)
<1>1. CASE Start(w)
  <2>1. StartBatch(w, dispatch[w].batch)
    BY <1>1 DEF Start
  <2> QED BY <1>1, <2>1 DEF Starts
<1>2. CASE CloseWindow(w) /\ WindowIsQuiet(w)
  BY <1>2, QuietWindowForm DEF Starts
<1> QED BY <1>1, <1>2 DEF Dispatching

\* What the dispatches become.
LEMMA DispatchTypes ==
  ASSUME RecordInv, Typed, WorkersNext
  PROVE  dispatch' \in [Worker -> Dispatch] /\ \A w \in Worker : DispatchFits(dispatch'[w])
<1> USE DEF Typed
<1>1. CASE UNCHANGED dispatch
  BY <1>1
<1>2. ASSUME NEW w \in Worker, Dispatching(w)
      PROVE  dispatch' \in [Worker -> Dispatch] /\ \A v \in Worker : DispatchFits(dispatch'[v])
  <2>1. CASE \E S \in SUBSET RunId, d \in Lag : ClaimRuns(w, S, d)
    BY <2>1, ClaimRunsForm
  <2>2. CASE CheckClaim(w)
    BY <2>2, CheckClaimForm
  <2>3. CASE ClaimAnswerLost(w)
    BY <2>3, ForgottenForm DEF ClaimAnswerLost
  <2>4. CASE \E c \in dispatch[w].todo : ReleaseOne(w, c)
    BY <2>4, ReleaseOneForm
  <2>5. CASE \E B : Starts(w, B)
    BY <2>5, StartBatchForm DEF Starts
  <2>6. CASE OpenWindow(w)
    BY <2>6, OpenWindowForm
  <2>7. CASE \E c \in dispatch[w].todo : ReadClaim(w, c)
    BY <2>7, ReadClaimForm
  <2>8. CASE CloseWindow(w) /\ ~WindowIsQuiet(w)
    BY <2>8, NoisyWindowForm
  <2> QED BY <1>2, <2>1, <2>2, <2>3, <2>4, <2>5, <2>6, <2>7, <2>8, DispatchingSteps
<1>3. ASSUME NEW r \in RunId, NEW n \in Token, Executing(r, n)
      PROVE  UNCHANGED dispatch
  BY <1>3, ExecutingLeaves
<1>4. ASSUME NEW w \in Worker, Cancels(w)
      PROVE  dispatch' \in [Worker -> Dispatch] /\ \A v \in Worker : DispatchFits(dispatch'[v])
  <2>1. UNCHANGED dispatch \/ \E r \in RunId : ApplyLocal(w, r)
    BY <1>4, CancelsForm
  <2> QED BY <1>1, <2>1, ApplyLocalForm
<1>5. ASSUME NEW w \in Worker, Crash(w)
      PROVE  dispatch' \in [Worker -> Dispatch] /\ \A v \in Worker : DispatchFits(dispatch'[v])
  BY <1>5, ForgottenForm DEF Crash
<1>6. CASE TimePasses
  BY <1>6, TimePassesForm
<1>7. CASE \/ Enqueue /\ UNCHANGED <<localVars, acked, faults>>
           \/ \E w \in Worker : StopAdmission(w)
           \/ \E S \in SUBSET RunId, d \in Lag : RecoverLeases(S, d)
  BY <1>1, <1>7 DEF StopAdmission, RecoverLeases, localVars
<1> QED BY <1>1, <1>2, <1>3, <1>4, <1>5, <1>6, <1>7, WorkerConstants DEF WorkersNext

\* Handlers that stay at work keep their controllers.
LEMMA ControlsStay ==
  ASSUME Typed, UNCHANGED controllers, \A r \in RunId, n \in Token : Continues(r, n)
  PROVE  \A w \in Worker, r \in RunId : Controls(w, r)'
<1> SUFFICES ASSUME NEW w \in Worker, NEW r \in RunId PROVE Controls(w, r)'
  OBVIOUS
<1>1. controllers[w][r] \in Token \cup {NoToken} /\ Controls(w, r)
  BY DEF Typed
<1> QED BY <1>1 DEF Controls, Continues, At, Ongoing

\* What the executions and the controllers become.
LEMMA ExecTypes ==
  ASSUME RecordInv, Typed, Claims, WorkersNext
  PROVE  /\ exec' \in [RunId -> [Token -> ExecRecord]]
         /\ controllers' \in [Worker -> [RunId -> Token \cup {NoToken}]]
         /\ \A w \in Worker, r \in RunId : Controls(w, r)'
<1> DEFINE Good == /\ exec' \in [RunId -> [Token -> ExecRecord]]
                   /\ controllers' \in [Worker -> [RunId -> Token \cup {NoToken}]]
                   /\ \A w \in Worker, r \in RunId : Controls(w, r)'
<1>0. /\ exec \in [RunId -> [Token -> ExecRecord]]
      /\ controllers \in [Worker -> [RunId -> Token \cup {NoToken}]]
      /\ \A w \in Worker, r \in RunId : Controls(w, r)
      /\ \A w \in Worker : dispatch[w] \in Dispatch
      /\ NoToken \notin Token
  BY DEF Typed, Token, NoToken
<1>1. CASE UNCHANGED <<exec, controllers>>
  BY <1>0, <1>1 DEF Controls, At
<1>2. CASE /\ exec' \in [RunId -> [Token -> ExecRecord]] /\ UNCHANGED controllers
           /\ \A r \in RunId, n \in Token : Continues(r, n)
  BY <1>0, <1>2, ControlsStay
<1>3. ASSUME NEW w \in Worker, NEW B, Starts(w, B), open[w] PROVE Good
  <2>1. /\ exec' \in [RunId -> [Token -> ExecRecord]]
        /\ controllers' \in [Worker -> [RunId -> Token \cup {NoToken}]]
        /\ \A r \in RunId, n \in Token :
             exec'[r][n] = IF Ref(r, n) \in Unfenced(w, B) THEN Begun(w) ELSE exec[r][n]
        /\ \A v \in Worker, r \in RunId :
             IF v = w /\ \E n \in Token : Ref(r, n) \in Unfenced(w, B)
             THEN controllers'[v][r] \in Token /\ Ref(r, controllers'[v][r]) \in Unfenced(w, B)
             ELSE controllers'[v][r] = controllers[v][r]
    BY <1>3, StartedForm DEF Starts
  <2>2. ASSUME NEW r \in RunId, NEW n \in Token, Ref(r, n) \in Unfenced(w, B)
        PROVE  exec[r][n] = NoExecution
    <3>1. Ref(r, n) \in Pending(w) /\ Ref(r, n).run = r /\ Ref(r, n).token = n
      BY <1>3, <2>2 DEF Starts, Unfenced, Pending, Ref
    <3> QED BY <3>1 DEF Claims, PendingSound
  <2>3. ASSUME NEW v \in Worker, NEW r \in RunId PROVE Controls(v, r)'
    <3>1. CASE v = w /\ \E n \in Token : Ref(r, n) \in Unfenced(w, B)
      <4>1. controllers'[v][r] \in Token /\ exec'[r][controllers'[v][r]] = Begun(w)
        BY <2>1, <3>1
      <4> QED BY <3>1, <4>1, BegunForm DEF Controls, At
    <3>2. CASE ~(v = w /\ \E n \in Token : Ref(r, n) \in Unfenced(w, B))
      <4>1. controllers'[v][r] = controllers[v][r] /\ Controls(v, r)
        BY <1>0, <2>1, <3>2
      <4>2. CASE controllers[v][r] = NoToken
        BY <4>1, <4>2 DEF Controls
      <4>3. CASE controllers[v][r] # NoToken
        <5>1. /\ controllers[v][r] \in Token /\ At(r, controllers[v][r], "handling")
              /\ exec[r][controllers[v][r]].worker = v
          BY <1>0, <4>1, <4>3 DEF Controls
        <5>2. exec[r][controllers[v][r]] # NoExecution
          BY <5>1, ExecutionForm DEF At
        <5>3. exec'[r][controllers[v][r]] = exec[r][controllers[v][r]]
          BY <2>1, <2>2, <5>1, <5>2
        <5> QED BY <4>1, <5>1, <5>3 DEF Controls, At
      <4> QED BY <4>2, <4>3
    <3> QED BY <3>1, <3>2
  <2> QED BY <2>1, <2>3
<1>4. ASSUME NEW w \in Worker, Dispatching(w) PROVE Good
  <2>1. CASE \E B : Starts(w, B)
    <3>1. PICK B : Starts(w, B)
      BY <2>1
    <3>2. CASE ~open[w]
      BY <1>1, <3>1, <3>2, StartBatchForm DEF Starts
    <3> QED BY <1>3, <3>1, <3>2
  <2>2. CASE ~\E B : Starts(w, B)
    BY <1>1, <1>4, <2>2, DispatchingSteps, NoisyWindowForm
       DEF ClaimRuns, CheckClaim, ClaimAnswerLost, ReleaseOne, OpenWindow, ReadClaim
  <2> QED BY <2>1, <2>2
<1>5. ASSUME NEW r \in RunId, NEW n \in Token, Executing(r, n) PROVE Good
  <2>1. CASE Heartbeat(r, n)
    BY <1>2, <2>1, HeartbeatForm DEF Heartbeat
  <2>2. CASE LoseRenewal(r, n)
    BY <1>2, <2>2, LostLeaseForm DEF LoseRenewal, At, Ongoing
  <2>3. CASE Timeout(r, n)
    BY <1>2, <2>3, TimeoutForm DEF Timeout
  <2>4. CASE HandlerSettles(r, n)
    <3>1. /\ exec' \in [RunId -> [Token -> ExecRecord]]
          /\ At(r, n, "handling") /\ exec'[r][n].worker = exec[r][n].worker
          /\ \A q \in RunId, m \in Token : (q = r /\ m = n) \/ exec'[q][m] = exec[q][m]
          /\ controllers' \in [Worker -> [RunId -> Token \cup {NoToken}]]
          /\ \A v \in Worker, q \in RunId :
               controllers'[v][q] = IF v = exec[r][n].worker /\ q = r THEN NoToken
                                    ELSE controllers[v][q]
      BY <2>4, HandlerSettlesForm
    <3>2. ASSUME NEW v \in Worker, NEW q \in RunId PROVE Controls(v, q)'
      <4>1. CASE v = exec[r][n].worker /\ q = r
        BY <3>1, <4>1 DEF Controls
      <4>2. CASE ~(v = exec[r][n].worker /\ q = r)
        <5>1. controllers'[v][q] = controllers[v][q] /\ Controls(v, q)
              /\ controllers[v][q] \in Token \cup {NoToken}
          BY <1>0, <3>1, <4>2
        <5>2. CASE controllers[v][q] # NoToken
          <6>1. ~(q = r /\ controllers[v][q] = n)
            BY <4>2, <5>1, <5>2 DEF Controls
          <6> QED BY <3>1, <5>1, <5>2, <6>1 DEF Controls, At
        <5> QED BY <5>1, <5>2 DEF Controls
      <4> QED BY <4>1, <4>2
    <3> QED BY <3>1, <3>2
  <2>5. ASSUME NEW delay \in Delay, NEW d \in Lag, Commit(r, n, delay, d) PROVE Good
    <3>1. /\ exec' \in [RunId -> [Token -> ExecRecord]] /\ At(r, n, "settled")
          /\ \A q \in RunId, m \in Token :
               exec'[q][m] = IF q = r /\ m = n THEN Over ELSE exec[q][m]
          /\ UNCHANGED controllers
      BY <2>5, CommitForm, ZenonT(30) DEF Commit
    <3>2. ASSUME NEW v \in Worker, NEW q \in RunId PROVE Controls(v, q)'
      <4>1. Controls(v, q) /\ controllers[v][q] \in Token \cup {NoToken}
        BY <1>0
      <4>2. CASE controllers[v][q] # NoToken
        <5>1. ~(q = r /\ controllers[v][q] = n)
          BY <3>1, <4>1, <4>2 DEF Controls, At
        <5> QED BY <3>1, <4>1, <4>2, <5>1 DEF Controls, At
      <4> QED BY <3>1, <4>1, <4>2 DEF Controls
    <3> QED BY <1>0, <3>1, <3>2
  <2> QED BY <1>5, <2>1, <2>2, <2>3, <2>4, <2>5 DEF Executing
<1>6. ASSUME NEW w \in Worker, Cancels(w) PROVE Good
  <2>1. UNCHANGED controllers /\ (UNCHANGED exec \/ \E r \in RunId : ApplyLocal(w, r))
    BY <1>6, CancelsForm
  <2> QED BY <1>1, <1>2, <2>1, ApplyLocalForm
<1>7. ASSUME NEW w \in Worker, Crash(w) PROVE Good
  <2>1. /\ exec' \in [RunId -> [Token -> ExecRecord]]
        /\ \A r \in RunId, n \in Token :
             exec'[r][n] = IF Ongoing(r, n) /\ exec[r][n].worker = w THEN Over ELSE exec[r][n]
    BY <1>7, CrashForm
  <2>2. /\ controllers' \in [Worker -> [RunId -> Token \cup {NoToken}]]
        /\ \A v \in Worker, r \in RunId :
             controllers'[v][r] = IF v = w THEN NoToken ELSE controllers[v][r]
    BY <1>0, <1>7 DEF Crash
  <2>3. ASSUME NEW v \in Worker, NEW r \in RunId PROVE Controls(v, r)'
    <3>1. CASE v = w \/ controllers[v][r] = NoToken
      BY <2>2, <3>1 DEF Controls
    <3>2. CASE v # w /\ controllers[v][r] # NoToken
      <4>1. /\ controllers'[v][r] = controllers[v][r] /\ controllers[v][r] \in Token
            /\ At(r, controllers[v][r], "handling") /\ exec[r][controllers[v][r]].worker = v
        BY <1>0, <2>2, <3>2 DEF Controls
      <4> QED BY <2>1, <3>2, <4>1 DEF Controls, At
    <3> QED BY <3>1, <3>2
  <2> QED BY <2>1, <2>2, <2>3
<1>8. CASE TimePasses
  BY <1>2, <1>8, TimePassesForm DEF TimePasses
<1>9. CASE \/ Enqueue /\ UNCHANGED <<localVars, acked, faults>>
           \/ \E w \in Worker : StopAdmission(w)
           \/ \E S \in SUBSET RunId, d \in Lag : RecoverLeases(S, d)
  BY <1>1, <1>9 DEF StopAdmission, RecoverLeases, localVars
<1> QED BY <1>4, <1>5, <1>6, <1>7, <1>8, <1>9, WorkerConstants DEF WorkersNext

\* What everything else becomes.
LEMMA RestTypes ==
  ASSUME RecordInv, Typed, WorkersNext
  PROVE  /\ open' \in [Worker -> BOOLEAN]
         /\ fence' \in [Worker -> SUBSET RunId] /\ overflow' \in [Worker -> BOOLEAN]
         /\ timedOutIds' \in [Worker -> SUBSET RunId]
         /\ timedOutOps' \in [Worker -> [RunId -> Token \cup {NoToken}]]
         /\ cancelling' \in [Worker -> Cancelling] /\ acked' \in [Worker -> SUBSET RunId]
         /\ faults' \in 0 .. MaxFaults
         /\ \A w \in Worker : CancellingFits(cancelling'[w])
<1> DEFINE Good == /\ open' \in [Worker -> BOOLEAN]
                   /\ fence' \in [Worker -> SUBSET RunId] /\ overflow' \in [Worker -> BOOLEAN]
                   /\ timedOutIds' \in [Worker -> SUBSET RunId]
                   /\ timedOutOps' \in [Worker -> [RunId -> Token \cup {NoToken}]]
                   /\ cancelling' \in [Worker -> Cancelling]
                   /\ acked' \in [Worker -> SUBSET RunId]
                   /\ faults' \in 0 .. MaxFaults
                   /\ \A w \in Worker : CancellingFits(cancelling'[w])
<1>0. /\ open \in [Worker -> BOOLEAN]
      /\ fence \in [Worker -> SUBSET RunId] /\ overflow \in [Worker -> BOOLEAN]
      /\ timedOutIds \in [Worker -> SUBSET RunId]
      /\ timedOutOps \in [Worker -> [RunId -> Token \cup {NoToken}]]
      /\ cancelling \in [Worker -> Cancelling] /\ acked \in [Worker -> SUBSET RunId]
      /\ faults \in 0 .. MaxFaults /\ MaxFaults \in Nat
      /\ \A w \in Worker : CancellingFits(cancelling[w])
  BY WorkerConstants DEF Typed
<1>1. Faulty => faults' \in 0 .. MaxFaults
  BY <1>0 DEF Faulty
<1>2. CASE /\ UNCHANGED <<open, fence, overflow, timeoutVars, cancelling, acked>>
           /\ faults' = faults \/ Faulty
  BY <1>0, <1>1, <1>2 DEF timeoutVars
<1>3. ASSUME NEW w \in Worker, Dispatching(w) PROVE Good
  <2>1. ASSUME NEW B, Starts(w, B) PROVE Good
    <3>1. UNCHANGED <<open, timeoutVars, cancelling, acked, faults>>
      BY <2>1 DEF Starts, Start, CloseWindow
    <3>2. fence' \in [Worker -> SUBSET RunId]
      BY <1>0, <2>1, StartBatchForm, StartedForm DEF Starts
    <3>3. overflow' \in [Worker -> BOOLEAN]
      BY <1>0, <2>1, QuietWindowForm DEF Starts, Start
    <3> QED BY <1>0, <3>1, <3>2, <3>3 DEF timeoutVars
  <2>2. CASE ~\E B : Starts(w, B)
    <3>1. CASE CloseWindow(w) /\ ~WindowIsQuiet(w)
      <4>1. UNCHANGED <<open, timeoutVars, cancelling, acked, faults>>
        BY <3>1 DEF CloseWindow
      <4>2. UNCHANGED <<fence, overflow>>
        BY <3>1, NoisyWindowForm
      <4> QED BY <1>2, <4>1, <4>2
    <3>2. ASSUME NEW c, ReadClaim(w, c) PROVE Good
      <4>1. UNCHANGED <<open, fence, overflow, timeoutVars, cancelling, acked>>
        BY <3>2 DEF ReadClaim
      <4>2. faults' = faults \/ Faulty
        BY <3>2 DEF ReadClaim
      <4> QED BY <1>2, <4>1, <4>2
    <3>3. ASSUME NEW c, ReleaseOne(w, c) PROVE Good
      BY <1>2, <3>3 DEF ReleaseOne
    <3>4. CASE \/ \E S \in SUBSET RunId, d \in Lag : ClaimRuns(w, S, d)
               \/ CheckClaim(w) \/ ClaimAnswerLost(w) \/ OpenWindow(w)
      BY <1>2, <3>4 DEF ClaimRuns, CheckClaim, ClaimAnswerLost, OpenWindow
    <3> QED BY <1>3, <2>2, <3>1, <3>2, <3>3, <3>4, DispatchingSteps
  <2> QED BY <2>1, <2>2
<1>4. ASSUME NEW r \in RunId, NEW n \in Token, Executing(r, n) PROVE Good
  <2>1. CASE Heartbeat(r, n) \/ LoseRenewal(r, n)
    BY <1>2, <2>1 DEF Heartbeat, LoseRenewal
  <2>2. CASE Timeout(r, n)
    <3>1. UNCHANGED <<open, fence, overflow, cancelling, acked, faults>>
      BY <2>2 DEF Timeout
    <3> QED BY <1>0, <2>2, <3>1, TimeoutForm
  <2>3. CASE HandlerSettles(r, n)
    <3>1. UNCHANGED <<open, fence, overflow, cancelling, acked, faults>>
      BY <2>3 DEF HandlerSettles
    <3> QED BY <1>0, <2>3, <3>1, HandlerSettlesForm
  <2>4. ASSUME NEW delay \in Delay, NEW d \in Lag, Commit(r, n, delay, d) PROVE Good
    <3>1. UNCHANGED <<open, fence, overflow, timeoutVars, cancelling, acked>>
      BY <2>4 DEF Commit
    <3>2. faults' = faults \/ Faulty
      BY <2>4 DEF Commit, Outcome
    <3> QED BY <1>2, <3>1, <3>2
  <2> QED BY <1>4, <2>1, <2>2, <2>3, <2>4 DEF Executing
<1>5. ASSUME NEW w \in Worker, Cancels(w) PROVE Good
  <2>1. /\ UNCHANGED <<open, timeoutVars>> /\ CancellingMoves(w) /\ faults' \in 0 .. MaxFaults
        /\ UNCHANGED <<fence, overflow, acked>> \/ \E r \in RunId : ApplyLocal(w, r)
    BY <1>5, CancelsForm
  <2>2. /\ fence' \in [Worker -> SUBSET RunId] /\ overflow' \in [Worker -> BOOLEAN]
        /\ acked' \in [Worker -> SUBSET RunId]
    BY <1>0, <2>1, ApplyLocalForm
  <2> QED BY <1>0, <2>1, <2>2 DEF CancellingMoves, timeoutVars
<1>6. ASSUME NEW w \in Worker, Crash(w) PROVE Good
  <2>1. faults' \in 0 .. MaxFaults
    BY <1>1, <1>6 DEF Crash
  <2>2. \A v \in Worker : CancellingFits(cancelling'[v])
    BY <1>0, <1>6, NotCancellingForm DEF Crash
  <2>3. cancelling' \in [Worker -> Cancelling]
    BY <1>0, <1>6, NotCancellingForm DEF Crash
  <2>4. /\ open' \in [Worker -> BOOLEAN]
        /\ fence' \in [Worker -> SUBSET RunId] /\ overflow' \in [Worker -> BOOLEAN]
        /\ timedOutIds' \in [Worker -> SUBSET RunId] /\ acked' \in [Worker -> SUBSET RunId]
    BY <1>0, <1>6 DEF Crash
  <2>5. timedOutOps' \in [Worker -> [RunId -> Token \cup {NoToken}]]
    BY <1>0, <1>6 DEF Crash
  <2> QED BY <2>1, <2>2, <2>3, <2>4, <2>5
<1>7. ASSUME NEW w \in Worker, StopAdmission(w) PROVE Good
  BY <1>0, <1>7 DEF StopAdmission, timeoutVars
<1>8. CASE \/ Enqueue /\ UNCHANGED <<localVars, acked, faults>>
           \/ \E S \in SUBSET RunId, d \in Lag : RecoverLeases(S, d)
           \/ TimePasses
  BY <1>2, <1>8 DEF RecoverLeases, TimePasses, localVars
<1> QED BY <1>3, <1>4, <1>5, <1>6, <1>7, <1>8, WorkerConstants DEF WorkersNext

\* Types, controllers and the number of tokens are kept by each step.
LEMMA TypedStep ==
  ASSUME RecordInv, Typed, Claims, [WorkersNext]_vars
  PROVE  Typed'
<1>1. CASE WorkersNext
  <2>1. \A r \in RunId : issued'[r] <= MaxClaims
    <3>1. CASE UNCHANGED issued
      BY <3>1 DEF Typed
    <3>2. ASSUME NEW S \in SUBSET RunId, NEW w, NEW d, ClaimDueRuns(S, Task, Slots(w), d)
          PROVE  \A r \in RunId : issued'[r] <= MaxClaims
      <4>1. \A r \in RunId : issued[r] \in Nat /\ issued[r] <= MaxClaims
        BY TokenForm DEF Typed
      <4>2. \A r \in S : issued[r] < MaxClaims
        BY <3>2 DEF ClaimDueRuns
      <4>3. \A r \in RunId : issued'[r] = IF r \in S THEN issued[r] + 1 ELSE issued[r]
        BY <3>2 DEF ClaimDueRuns
      <4> QED BY <4>1, <4>2, <4>3, StoreConstants
    <3> QED BY <1>1, <3>1, <3>2, WorkersUseTheStore
  <2> QED BY <1>1, <2>1, DispatchTypes, ExecTypes, RestTypes DEF Typed
<1>2. CASE UNCHANGED vars
  BY <1>2 DEF Typed, Controls, At, vars, storeVars, localVars, timeoutVars
<1> QED BY <1>1, <1>2

\* Nothing has been claimed at first.
LEMMA WorkersInitTyped ==
  ASSUME WorkersInit
  PROVE  Typed /\ Claims
<1>1. /\ \A r \in RunId : issued[r] = 0
      /\ \A w \in Worker : dispatch[w] = Idle
      /\ \A r \in RunId, n \in Token : exec[r][n] = NoExecution
      /\ \A w \in Worker, r \in RunId : controllers[w][r] = NoToken
      /\ MaxClaims \in Nat /\ MaxFaults \in Nat
  BY StoreConstants, WorkerConstants DEF WorkersInit, Init
<1>2. Claims
  BY <1>1, IdleForm DEF Claims, PendingSound, Pending
<1>3. /\ \A r \in RunId : issued[r] <= MaxClaims
      /\ \A w \in Worker : DispatchFits(dispatch[w])
      /\ \A w \in Worker, r \in RunId : Controls(w, r)
      /\ faults \in 0 .. MaxFaults
  BY <1>1, IdleForm DEF Controls, WorkersInit
<1>4. cancelling \in [Worker -> Cancelling] /\ \A w \in Worker : CancellingFits(cancelling[w])
  BY NotCancellingForm DEF WorkersInit
<1>5. /\ open \in [Worker -> BOOLEAN] /\ dispatch \in [Worker -> Dispatch]
      /\ exec \in [RunId -> [Token -> ExecRecord]]
      /\ fence \in [Worker -> SUBSET RunId] /\ overflow \in [Worker -> BOOLEAN]
      /\ timedOutIds \in [Worker -> SUBSET RunId] /\ acked \in [Worker -> SUBSET RunId]
  BY IdleForm, ExecutionForm DEF WorkersInit
<1>6. /\ controllers \in [Worker -> [RunId -> Token \cup {NoToken}]]
      /\ timedOutOps \in [Worker -> [RunId -> Token \cup {NoToken}]]
  BY DEF WorkersInit
<1> QED BY <1>2, <1>3, <1>4, <1>5, <1>6 DEF Typed

--------------------------------------------------------------------------------
(* The claims.                                                             *)

\* No attempt is counted or uncounted, no run is created, no token is issued.
AttemptsKept ==
    /\ UNCHANGED issued
    /\ \A r \in RunId : /\ runs'[r].attempt = runs[r].attempt
                        /\ runs[r].status = "absent" <=> runs'[r].status = "absent"

\* All operations of the store but claims, releases and appends keep the attempts.
LEMMA AttemptsStay ==
  ASSUME RecordInv,
         Renew \/ Complete \/ Retry \/ Bury \/ Cancel \/ Recover \/ Tick \/ UNCHANGED storeVars
  PROVE  AttemptsKept
<1>0. TypeOK /\ runs \in [RunId -> Run]
  BY DEF RecordInv, TypeOK
<1>1. \A r \in RunId : runs[r] \in Run
  BY <1>0
<1> USE StatusFacts DEF AttemptsKept
<1>2. CASE Renew
  BY <1>0, <1>1, <1>2 DEF Renew, RenewLease, Fenced, Holds, RunIs, Run
<1>3. CASE Complete
  BY <1>0, <1>3, EndedFields DEF Complete, CompleteRun, Fenced, Holds, RunIs
<1>4. CASE Retry
  <2> PICK r \in RunId, n \in Token, delay \in Delay, d \in Lag :
           MarkRunRetryable(r, n, delay, d)
    BY <1>4 DEF Retry
  <2>1. runs[r].status = "running"
    BY DEF MarkRunRetryable, Fenced, Holds, RunIs
  <2>2. runs'[r].status = "retryable" /\ runs'[r].attempt = runs[r].attempt
        /\ \A q \in RunId \ {r} : runs'[q] = runs[q]
    BY <1>0, <1>1 DEF MarkRunRetryable, Run
  <2> QED BY <2>1, <2>2 DEF MarkRunRetryable
<1>5. CASE Bury
  BY <1>0, <1>5, EndedFields DEF Bury, DeadLetterRun, Fenced, Holds, RunIs
<1>6. CASE Cancel
  BY <1>0, <1>6, EndedFields DEF Cancel, CancelRun, Cancellable, Live
<1>7. CASE Recover
  <2> PICK S \in SUBSET RunId, d \in Lag : RecoverStaleLeases(S, d)
    BY <1>7 DEF Recover
  <2>1. UNCHANGED issued /\ \A r \in S : runs[r].status = "running"
    BY DEF RecoverStaleLeases, Stale, Running, RunIs
  <2>2. ASSUME NEW r \in RunId
        PROVE  /\ runs'[r].attempt = runs[r].attempt
               /\ runs[r].status = "absent" <=> runs'[r].status = "absent"
    <3>1. CASE r \notin S
      BY <3>1 DEF RecoverStaleLeases
    <3>2. CASE r \in S /\ Exhausted(r)
      <4>1. runs'[r] = Ended(r, "dead-lettered", d)
        BY <3>2 DEF RecoverStaleLeases
      <4> QED BY <1>0, <2>1, <3>2, <4>1, EndedFields
    <3>3. CASE r \in S /\ ~Exhausted(r)
      <4>1. PICK x : x = 0 - d
        OBVIOUS
      <4>2. runs'[r] = [runs[r] EXCEPT !.status = "retryable", !.token = NoToken, !.due = x]
        BY <3>3, <4>1 DEF RecoverStaleLeases
      <4> QED BY <1>1, <2>1, <3>3, <4>2 DEF Run
    <3> QED BY <3>1, <3>2, <3>3
  <2> QED BY <2>1, <2>2
<1>8. CASE Tick
  BY <1>0, <1>1, <1>8 DEF Tick, Run
<1>9. CASE UNCHANGED storeVars
  BY <1>9 DEF storeVars
<1> QED BY <1>2, <1>3, <1>4, <1>5, <1>6, <1>7, <1>8, <1>9

\* What becomes of the claims of w and of the other workers.
PendingOf(w, some) ==
    /\ dispatch'[w].batch \cup dispatch'[w].todo = some
    /\ \A v \in Worker \ {w} : dispatch'[v] = dispatch[v]

TakesClaims(w, S, d) ==
    /\ S # {} /\ ClaimDueRuns(S, Task, Slots(w), d)
    /\ Pending(w) = {} /\ PendingOf(w, {Ref(r, issued[r] + 1) : r \in S})
    /\ UNCHANGED exec

GivesBack(w, c) ==
    /\ c \in Pending(w) /\ PendingOf(w, Pending(w) \ {c})
    /\ ReleaseClaim(c.run, c.token)
    /\ UNCHANGED exec

StartsSome(w, B) ==
    /\ Starts(w, B) /\ open[w]
    /\ PendingOf(w, {})
    /\ UNCHANGED storeVars

\* Claims are forgotten at most, and handlers go on or end.
Drops ==
    /\ AttemptsKept
    /\ \A w \in Worker : dispatch'[w].batch \cup dispatch'[w].todo \subseteq Pending(w)
    /\ \A r \in RunId, n \in Token : exec[r][n] = NoExecution <=> exec'[r][n] = NoExecution

\* An execution that continues, ends or settles does not become one not started.
LEMMA ContinuesStarted ==
  ASSUME exec \in [RunId -> [Token -> ExecRecord]], exec' \in [RunId -> [Token -> ExecRecord]],
         NEW r \in RunId, NEW n \in Token, Continues(r, n)
  PROVE  exec[r][n] = NoExecution <=> exec'[r][n] = NoExecution
<1>1. exec[r][n] \in ExecRecord /\ exec'[r][n] \in ExecRecord
  OBVIOUS
<1> QED BY <1>1, ExecutionForm DEF Continues

\* Every step takes claims, gives one back, starts some, drops some or appends a run.
LEMMA ClaimSteps ==
  ASSUME RecordInv, Typed, Claims, WorkersNext
  PROVE  \/ \E w \in Worker, S \in SUBSET RunId, d \in Lag : TakesClaims(w, S, d)
         \/ \E w \in Worker : \E c \in dispatch[w].todo : GivesBack(w, c)
         \/ \E w \in Worker : \E B : StartsSome(w, B)
         \/ Enqueue /\ UNCHANGED <<dispatch, exec>>
         \/ Drops
<1> DEFINE Good == \/ \E w \in Worker, S \in SUBSET RunId, d \in Lag : TakesClaims(w, S, d)
                   \/ \E w \in Worker : \E c \in dispatch[w].todo : GivesBack(w, c)
                   \/ \E w \in Worker : \E B : StartsSome(w, B)
                   \/ Enqueue /\ UNCHANGED <<dispatch, exec>>
                   \/ Drops
<1>0. /\ exec \in [RunId -> [Token -> ExecRecord]] /\ exec' \in [RunId -> [Token -> ExecRecord]]
      /\ \A w \in Worker : dispatch[w] \in Dispatch /\ DispatchFits(dispatch[w])
      /\ UNCHANGED storeVars => AttemptsKept
  BY ExecTypes, AttemptsStay DEF Typed
<1>1. CASE AttemptsKept /\ UNCHANGED <<dispatch, exec>>
  BY <1>1 DEF Drops, Pending
<1>2. ASSUME NEW w \in Worker, Dispatching(w) PROVE Good
  <2>1. ASSUME NEW S \in SUBSET RunId, NEW d \in Lag, ClaimRuns(w, S, d) PROVE Good
    <3>1. UNCHANGED exec /\ Pending(w) = {}
      BY <1>0, <2>1 DEF ClaimRuns, Pending, DispatchFits
    <3>2. PendingOf(w, {Ref(r, issued[r] + 1) : r \in S})
      BY <2>1, ClaimRunsForm DEF PendingOf
    <3>3. CASE S # {}
      BY <2>1, <3>1, <3>2, <3>3 DEF TakesClaims, ClaimRuns
    <3>4. CASE S = {}
      <4>1. AttemptsKept
        BY <1>0, <2>1, <3>4 DEF ClaimRuns
      <4>2. \A v \in Worker : dispatch'[v].batch \cup dispatch'[v].todo \subseteq Pending(v)
        BY <3>1, <3>2, <3>4 DEF PendingOf, Pending
      <4> QED BY <3>1, <4>1, <4>2 DEF Drops
    <3> QED BY <3>3, <3>4
  <2>2. ASSUME UNCHANGED <<exec, storeVars>>,
               \A v \in Worker \ {w} : dispatch'[v] = dispatch[v],
               dispatch'[w].batch \cup dispatch'[w].todo \subseteq Pending(w)
        PROVE  Good
    BY <1>0, <2>2 DEF Drops, Pending
  <2>3. CASE CheckClaim(w)
    BY <2>2, <2>3, CheckClaimForm DEF CheckClaim
  <2>4. CASE ClaimAnswerLost(w)
    BY <2>2, <2>4, ForgottenForm DEF ClaimAnswerLost
  <2>5. ASSUME NEW c \in dispatch[w].todo, ReleaseOne(w, c) PROVE Good
    <3>1. /\ \A v \in Worker \ {w} : dispatch'[v] = dispatch[v]
          /\ dispatch'[w].batch = dispatch[w].batch /\ c \notin dispatch[w].batch
          /\ dispatch'[w].todo = dispatch[w].todo \ {c}
      BY <2>5, ReleaseOneForm
    <3>2. UNCHANGED exec /\ (ReleaseClaim(c.run, c.token) \/ UNCHANGED storeVars)
      BY <2>5 DEF ReleaseOne
    <3>3. PendingOf(w, Pending(w) \ {c}) /\ c \in Pending(w)
      BY <3>1 DEF PendingOf, Pending
    <3>4. CASE ReleaseClaim(c.run, c.token)
      BY <3>2, <3>3, <3>4 DEF GivesBack
    <3>5. CASE UNCHANGED storeVars
      BY <2>2, <3>1, <3>2, <3>3, <3>5 DEF PendingOf
    <3> QED BY <3>2, <3>4, <3>5
  <2>6. ASSUME NEW B, Starts(w, B) PROVE Good
    <3>1. UNCHANGED storeVars
      BY <2>6 DEF Starts, Start, CloseWindow
    <3>2. /\ \A v \in Worker \ {w} : dispatch'[v] = dispatch[v]
          /\ dispatch'[w].batch = {}
          /\ IF open[w] THEN dispatch'[w].todo = {} ELSE dispatch'[w].todo = B /\ UNCHANGED exec
      BY <2>6, StartBatchForm DEF Starts
    <3>3. CASE open[w]
      BY <2>6, <3>1, <3>2, <3>3 DEF StartsSome, PendingOf
    <3>4. CASE ~open[w]
      BY <2>2, <2>6, <3>1, <3>2, <3>4 DEF Starts, Pending
    <3> QED BY <3>3, <3>4
  <2>7. CASE OpenWindow(w)
    <3>1. UNCHANGED <<exec, storeVars>>
      BY <2>7 DEF OpenWindow
    <3> QED BY <2>2, <2>7, <3>1, OpenWindowForm DEF Pending
  <2>8. ASSUME NEW c \in dispatch[w].todo, ReadClaim(w, c) PROVE Good
    <3>1. UNCHANGED <<exec, storeVars>>
      BY <2>8 DEF ReadClaim
    <3> QED BY <2>2, <2>8, <3>1, ReadClaimForm
  <2>9. CASE CloseWindow(w) /\ ~WindowIsQuiet(w)
    <3>1. UNCHANGED storeVars
      BY <2>9 DEF CloseWindow
    <3> QED BY <2>2, <2>9, <3>1, NoisyWindowForm
  <2> QED BY <1>2, <2>1, <2>3, <2>4, <2>5, <2>6, <2>7, <2>8, <2>9, DispatchingSteps
<1>3. ASSUME NEW r \in RunId, NEW n \in Token, Executing(r, n) PROVE Drops
  <2>1. UNCHANGED dispatch
    BY <1>3, ExecutingLeaves
  <2>2. ASSUME \A q \in RunId, m \in Token : Continues(q, m), AttemptsKept PROVE Drops
    BY <1>0, <2>1, <2>2, ContinuesStarted DEF Drops, Pending
  <2>3. CASE Heartbeat(r, n)
    <3>1. RenewLease(r, n, 0) \/ UNCHANGED storeVars
      BY <2>3 DEF Heartbeat
    <3>2. 0 \in Lag
      BY StoreConstants DEF Lag
    <3>3. AttemptsKept
      BY <3>1, <3>2, AttemptsStay DEF Renew
    <3> QED BY <2>2, <2>3, <3>3, HeartbeatForm
  <2>4. CASE LoseRenewal(r, n)
    BY <1>0, <2>2, <2>4, LostLeaseForm DEF LoseRenewal, At, Ongoing
  <2>5. CASE Timeout(r, n)
    <3>1. AttemptsKept
      BY <1>0, <2>5 DEF Timeout
    <3> QED BY <2>2, <2>5, <3>1, TimeoutForm
  <2>6. CASE HandlerSettles(r, n)
    <3>1. AttemptsKept
      BY <1>0, <2>6 DEF HandlerSettles
    <3>2. /\ exec[r][n].at = "handling" /\ exec'[r][n].at = "settled"
          /\ \A q \in RunId, m \in Token : (q = r /\ m = n) \/ exec'[q][m] = exec[q][m]
      BY <2>6, HandlerSettlesForm DEF At
    <3>3. exec[r][n] # NoExecution /\ exec'[r][n] # NoExecution
      BY <3>2, ExecutionForm
    <3> QED BY <2>1, <3>1, <3>2, <3>3 DEF Drops, Pending
  <2>7. ASSUME NEW delay \in Delay, NEW d \in Lag, Commit(r, n, delay, d) PROVE Drops
    <3>1. /\ exec[r][n].at = "settled"
          /\ \A q \in RunId, m \in Token :
               exec'[q][m] = IF q = r /\ m = n THEN Over ELSE exec[q][m]
      BY <2>7, CommitForm DEF At
    <3>2. exec[r][n] # NoExecution /\ Over # NoExecution
      BY <3>1, ExecutionForm
    <3>3. Complete \/ Retry \/ Bury \/ UNCHANGED storeVars
      BY <2>7 DEF Commit, Outcome, Complete, Retry, Bury
    <3>4. AttemptsKept
      BY <3>3, AttemptsStay
    <3> QED BY <2>1, <3>1, <3>2, <3>4 DEF Drops, Pending
  <2> QED BY <1>3, <2>3, <2>4, <2>5, <2>6, <2>7 DEF Executing
<1>4. ASSUME NEW w \in Worker, Cancels(w) PROVE Drops
  <2>1. \/ UNCHANGED storeVars /\ \E r \in RunId : ApplyLocal(w, r)
        \/ UNCHANGED <<dispatch, exec>> /\ (UNCHANGED storeVars \/ Cancel)
    BY <1>4, CancelsForm DEF Cancel
  <2>2. AttemptsKept
    BY <2>1, AttemptsStay
  <2>3. CASE UNCHANGED <<dispatch, exec>>
    BY <2>2, <2>3 DEF Drops, Pending
  <2>4. ASSUME NEW r \in RunId, ApplyLocal(w, r) PROVE Drops
    <3>1. /\ \A v \in Worker \ {w} : dispatch'[v] = dispatch[v]
          /\ SameClaims(w) /\ \A q \in RunId, n \in Token : Continues(q, n)
      BY <2>4, ApplyLocalForm
    <3>2. \A v \in Worker : dispatch'[v].batch \cup dispatch'[v].todo \subseteq Pending(v)
      BY <3>1 DEF SameClaims, Pending
    <3> QED BY <1>0, <2>2, <3>1, <3>2, ContinuesStarted DEF Drops
  <2> QED BY <2>1, <2>3, <2>4
<1>5. ASSUME NEW w \in Worker, Crash(w) PROVE Drops
  <2>1. AttemptsKept
    BY <1>0, <1>5 DEF Crash
  <2>2. \A v \in Worker : dispatch'[v].batch \cup dispatch'[v].todo \subseteq Pending(v)
    BY <1>5, ForgottenForm DEF Crash, Pending
  <2>3. \A r \in RunId, n \in Token : exec[r][n] = NoExecution <=> exec'[r][n] = NoExecution
    <3>1. \A r \in RunId, n \in Token :
            exec'[r][n] = IF Ongoing(r, n) /\ exec[r][n].worker = w THEN Over ELSE exec[r][n]
      BY <1>5, CrashForm
    <3>2. \A r \in RunId, n \in Token : Ongoing(r, n) => exec[r][n] # NoExecution
      BY ExecutionForm DEF Ongoing
    <3> QED BY <3>1, <3>2, ExecutionForm
  <2> QED BY <2>1, <2>2, <2>3 DEF Drops
<1>6. CASE TimePasses
  <2>1. AttemptsKept
    BY <1>6, AttemptsStay DEF TimePasses
  <2>2. /\ \A w \in Worker : SameClaims(w)
        /\ \A r \in RunId, n \in Token : Continues(r, n)
    BY <1>6, TimePassesForm
  <2>3. \A w \in Worker : dispatch'[w].batch \cup dispatch'[w].todo \subseteq Pending(w)
    BY <2>2 DEF SameClaims, Pending
  <2> QED BY <1>0, <2>1, <2>2, <2>3, ContinuesStarted DEF Drops
<1>7. CASE \E S \in SUBSET RunId, d \in Lag : RecoverLeases(S, d)
  <2>1. Recover /\ UNCHANGED <<dispatch, exec>>
    BY <1>7 DEF RecoverLeases, Recover, localVars
  <2> QED BY <1>1, <2>1, AttemptsStay
<1>8. CASE \E w \in Worker : StopAdmission(w)
  BY <1>0, <1>1, <1>8 DEF StopAdmission
<1>9. CASE Enqueue /\ UNCHANGED <<localVars, acked, faults>>
  BY <1>9 DEF localVars
<1> QED BY <1>2, <1>3, <1>4, <1>5, <1>6, <1>7, <1>8, <1>9, WorkerConstants DEF WorkersNext

\* The claims that were spent: started, or still to be started or given back.
Spent(r) ==
    {n \in Token : exec[r][n] # NoExecution \/ \E w \in Worker : Ref(r, n) \in Pending(w)}

\* Every claim that was spent and not given back has counted an attempt.
Paid == \A r \in RunId : Cardinality(Spent(r)) <= runs[r].attempt

\* The handlers that a step starts are those of claims that were pending.
LEMMA StartsPending ==
  ASSUME Typed, NEW w \in Worker, NEW B, StartsSome(w, B), NEW r \in RunId, NEW n \in Token
  PROVE  exec'[r][n] = exec[r][n] \/ (Ref(r, n) \in Pending(w) /\ exec'[r][n] = Begun(w))
<1>1. exec'[r][n] = IF Ref(r, n) \in Unfenced(w, B) THEN Begun(w) ELSE exec[r][n]
  BY StartedForm DEF StartsSome, Starts
<1>2. Unfenced(w, B) \subseteq Pending(w)
  BY DEF StartsSome, Starts, Unfenced, Pending
<1> QED BY <1>1, <1>2

\* A claim that was just taken is one of its run, with the newest token.
LEMMA TakenForm ==
  ASSUME NEW S \in SUBSET RunId, NEW c \in {Ref(r, issued[r] + 1) : r \in S}
  PROVE  c.run \in S /\ c.token = issued[c.run] + 1 /\ c = Ref(c.run, issued[c.run] + 1)
BY DEF Ref

\* What a claim makes of the runs.
LEMMA ClaimedForm ==
  ASSUME NEW S \in SUBSET RunId, NEW tasks, NEW limit, NEW d \in Lag,
         ClaimDueRuns(S, tasks, limit, d)
  PROVE  \A r \in RunId :
           /\ issued'[r] = IF r \in S THEN issued[r] + 1 ELSE issued[r]
           /\ IF r \in S
              THEN /\ runs'[r].status = "running" /\ runs'[r].attempt = runs[r].attempt + 1
                   /\ runs'[r].token = issued[r] + 1 /\ runs'[r].due = LeaseMs - d
                   /\ runs[r].status \in {"queued", "retryable"} /\ issued[r] < MaxClaims
              ELSE runs'[r] = runs[r]
<1> SUFFICES ASSUME NEW r \in RunId
             PROVE  /\ issued'[r] = IF r \in S THEN issued[r] + 1 ELSE issued[r]
                    /\ IF r \in S
                       THEN /\ runs'[r].status = "running"
                            /\ runs'[r].attempt = runs[r].attempt + 1
                            /\ runs'[r].token = issued[r] + 1 /\ runs'[r].due = LeaseMs - d
                            /\ runs[r].status \in {"queued", "retryable"}
                            /\ issued[r] < MaxClaims
                       ELSE runs'[r] = runs[r]
  OBVIOUS
<1>1. issued'[r] = IF r \in S THEN issued[r] + 1 ELSE issued[r]
  BY DEF ClaimDueRuns
<1>2. r \notin S => runs'[r] = runs[r]
  BY DEF ClaimDueRuns
<1>3. CASE r \in S
  <2>1. PICK a, n, x : a = runs[r].attempt + 1 /\ n = issued[r] + 1 /\ x = LeaseMs - d
    OBVIOUS
  <2>2. runs'[r] = [status |-> "running", attempt |-> a, token |-> n, due |-> x]
    BY <1>3, <2>1 DEF ClaimDueRuns
  <2>3. runs[r].status \in {"queued", "retryable"} /\ issued[r] < MaxClaims
    BY <1>3 DEF ClaimDueRuns, Admitted, Candidates
  <2> QED BY <1>1, <1>3, <2>1, <2>2, <2>3
<1> QED BY <1>1, <1>2, <1>3

\* No claim is in two hands, none is started twice, whatever the workers do.
LEMMA ClaimsStep ==
  ASSUME RecordInv, Typed, Claims, [WorkersNext]_vars
  PROVE  Claims'
<1>0. /\ \A r \in RunId : issued[r] \in Nat /\ (RunIs(r, "absent") => issued[r] = 0)
      /\ \A r \in RunId, n \in Token : exec[r][n] # NoExecution => n <= issued[r]
      /\ \A w \in Worker : PendingSound(w)
      /\ \A w \in Worker : Pending(w) \subseteq ClaimRef
      /\ exec \in [RunId -> [Token -> ExecRecord]]
  BY DEF Claims, RecordInv, TypeOK, Typed, Pending, Dispatch
<1>1. ASSUME UNCHANGED issued,
             \A r \in RunId : runs'[r].status = "absent" => runs[r].status = "absent",
             \A w \in Worker : Pending(w)' \subseteq Pending(w),
             \A r \in RunId, n \in Token : exec[r][n] = NoExecution <=> exec'[r][n] = NoExecution
      PROVE  Claims'
  <2>1. ASSUME NEW w \in Worker PROVE PendingSound(w)'
    <3>1. \A c \in Pending(w) : c.run \in RunId /\ c.token \in Token
      BY <1>0 DEF ClaimRef
    <3> QED BY <1>0, <1>1, <3>1 DEF PendingSound
  <2> QED BY <1>0, <1>1, <2>1 DEF Claims, RunIs
<1>2. ASSUME NEW w \in Worker, NEW S \in SUBSET RunId, NEW d \in Lag, TakesClaims(w, S, d)
      PROVE  Claims'
  <2> DEFINE T == {Ref(r, issued[r] + 1) : r \in S}
  <2>1. /\ Pending(w)' = T
        /\ \A v \in Worker \ {w} : Pending(v)' = Pending(v)
        /\ UNCHANGED exec
    BY <1>2 DEF TakesClaims, PendingOf, Pending
  <2>2. \A c \in T : c.run \in S /\ c.token = issued[c.run] + 1
                     /\ c = Ref(c.run, issued[c.run] + 1)
    BY TakenForm
  <2> HIDE DEF T
  <2>3. \A r \in RunId :
          /\ issued'[r] = IF r \in S THEN issued[r] + 1 ELSE issued[r]
          /\ IF r \in S THEN runs'[r].status = "running" /\ issued[r] < MaxClaims
             ELSE runs'[r] = runs[r]
    BY <1>2, ClaimedForm DEF TakesClaims
  <2>4. \A r \in S : issued[r] + 1 \in Token
    BY <1>0, <2>3, StoreConstants DEF Token
  <2>5. \A v \in Worker : \A c \in Pending(v) :
          c.run \in RunId /\ c.token <= issued[c.run] /\ c.token \in Nat
    BY <1>0 DEF PendingSound, ClaimRef, Token
  <2>6. ASSUME NEW v \in Worker, NEW c \in Pending(v)' PROVE
              /\ c.token <= issued'[c.run] /\ exec[c.run][c.token] = NoExecution
              /\ \A e \in Pending(v)' : e.run = c.run => e = c
              /\ \A u \in Worker \ {v} : c \notin Pending(u)'
    <3>1. CASE v = w
      <4>1. c \in T
        BY <2>1, <3>1
      <4>2. c.run \in S /\ c.token = issued[c.run] + 1 /\ issued[c.run] \in Nat
        BY <1>0, <2>2, <4>1
      <4>3. c.token <= issued'[c.run]
        BY <2>3, <4>2
      <4>4. exec[c.run][c.token] = NoExecution
        BY <1>0, <2>4, <4>2
      <4>5. \A e \in Pending(v)' : e.run = c.run => e = c
        BY <2>1, <2>2, <3>1, <4>1
      <4>6. \A u \in Worker \ {v} : c \notin Pending(u)'
        BY <2>1, <2>5, <3>1, <4>2
      <4> QED BY <4>3, <4>4, <4>5, <4>6
    <3>2. CASE v # w
      <4>1. c \in Pending(v) /\ c.run \in RunId /\ Pending(v)' = Pending(v)
        BY <2>1, <2>5, <3>2
      <4>2. /\ c.token <= issued[c.run] /\ exec[c.run][c.token] = NoExecution
            /\ \A e \in Pending(v) : e.run = c.run => e = c
            /\ \A u \in Worker \ {v} : c \notin Pending(u)
        BY <1>0, <4>1 DEF PendingSound
      <4>3. c.token <= issued'[c.run]
        BY <1>0, <2>3, <2>5, <4>1, <4>2
      <4>4. c \notin T
        BY <1>0, <2>2, <2>5, <4>1, <4>2
      <4> QED BY <2>1, <4>1, <4>2, <4>3, <4>4
    <3> QED BY <3>1, <3>2
  <2>7. \A v \in Worker : PendingSound(v)'
    BY <2>1, <2>6 DEF PendingSound
  <2>8. ASSUME NEW r \in RunId PROVE runs'[r].status = "absent" => issued'[r] = 0
    <3>1. CASE r \in S
      <4>1. runs'[r].status = "running"
        BY <2>3, <3>1
      <4> QED BY <4>1
    <3>2. CASE r \notin S
      BY <1>0, <2>3, <3>2 DEF RunIs
    <3> QED BY <3>1, <3>2
  <2>9. ASSUME NEW r \in RunId, NEW n \in Token, exec'[r][n] # NoExecution
        PROVE  n <= issued'[r]
    <3>1. n <= issued[r] /\ n \in Nat /\ issued[r] \in Nat
      BY <1>0, <2>1, <2>9 DEF Token
    <3> QED BY <2>3, <3>1
  <2> QED BY <2>7, <2>8, <2>9 DEF Claims, RunIs
<1>3. ASSUME NEW w \in Worker, NEW c, GivesBack(w, c) PROVE Claims'
  <2>1. /\ \A v \in Worker : Pending(v)' \subseteq Pending(v)
        /\ UNCHANGED <<exec, issued>>
    BY <1>3 DEF GivesBack, PendingOf, Pending, ReleaseClaim
  <2>2. \A r \in RunId : runs'[r].status = "absent" => runs[r].status = "absent"
    <3>1. runs \in [RunId -> Run]
      BY DEF RecordInv, TypeOK
    <3> QED BY <1>3, <3>1 DEF GivesBack, ReleaseClaim
  <2> QED BY <1>1, <2>1, <2>2
<1>4. ASSUME NEW w \in Worker, NEW B, StartsSome(w, B) PROVE Claims'
  <2>1. /\ Pending(w)' = {} /\ \A v \in Worker \ {w} : Pending(v)' = Pending(v)
        /\ UNCHANGED <<runs, issued>>
    BY <1>4 DEF StartsSome, PendingOf, Pending, storeVars
  <2>2. \A r \in RunId, n \in Token :
          exec'[r][n] = exec[r][n] \/ (Ref(r, n) \in Pending(w) /\ exec'[r][n] = Begun(w))
    BY <1>4, StartsPending
  <2>3. ASSUME NEW r \in RunId, NEW n \in Token, exec'[r][n] # NoExecution
        PROVE  n <= issued[r]
    <3>1. CASE Ref(r, n) \in Pending(w)
      BY <1>0, <3>1 DEF PendingSound, Ref
    <3> QED BY <1>0, <2>2, <2>3, <3>1
  <2>4. ASSUME NEW v \in Worker PROVE PendingSound(v)'
    <3>1. CASE v = w
      BY <2>1, <3>1 DEF PendingSound
    <3>2. CASE v # w
      <4>1. ASSUME NEW c \in Pending(v) PROVE exec'[c.run][c.token] = NoExecution
        <5>1. c \in ClaimRef /\ c \notin Pending(w) /\ exec[c.run][c.token] = NoExecution
          BY <1>0, <3>2 DEF PendingSound
        <5>2. c = Ref(c.run, c.token) /\ c.run \in RunId /\ c.token \in Token
          BY <5>1 DEF ClaimRef, Ref
        <5> QED BY <2>2, <5>1, <5>2
      <4> QED BY <1>0, <2>1, <3>2, <4>1 DEF PendingSound
    <3> QED BY <3>1, <3>2
  <2> QED BY <1>0, <2>1, <2>3, <2>4 DEF Claims, RunIs
<1>5. CASE Enqueue /\ UNCHANGED <<dispatch, exec>>
  <2>1. \A r \in RunId : runs'[r].status = "absent" => runs[r].status = "absent"
    <3>1. runs \in [RunId -> Run]
      BY DEF RecordInv, TypeOK
    <3> QED BY <1>5, <3>1 DEF Enqueue, AppendRun, NewRun
  <2>2. UNCHANGED issued
    BY <1>5 DEF Enqueue, AppendRun
  <2> QED BY <1>1, <1>5, <2>1, <2>2 DEF Pending
<1>6. CASE Drops
  BY <1>1, <1>6 DEF Drops, AttemptsKept, Pending
<1>7. CASE UNCHANGED vars
  BY <1>1, <1>7 DEF vars, storeVars, localVars, Pending
<1> QED BY <1>2, <1>3, <1>4, <1>5, <1>6, <1>7, ClaimSteps

\* Claims count attempts and releases uncount them, one each.
LEMMA PaidStep ==
  ASSUME RecordInv, Typed, Claims, Paid, [WorkersNext]_vars
  PROVE  Paid'
<1>0. /\ \A r \in RunId : runs[r].attempt \in Nat /\ issued[r] \in Nat
      /\ runs \in [RunId -> Run]
      /\ \A w \in Worker : Pending(w) \subseteq ClaimRef /\ PendingSound(w)
  BY DEF RecordInv, TypeOK, Run, Typed, Pending, Dispatch, Claims
<1>1. \A r \in RunId : IsFiniteSet(Spent(r)) /\ Cardinality(Spent(r)) \in Nat
  <2>1. IsFiniteSet(Token) /\ \A r : Spent(r) \subseteq Token
    BY FS_Interval, StoreConstants DEF Token, Spent
  <2> QED BY <2>1, FS_Subset, FS_CardinalityType
<1>2. ASSUME NEW r \in RunId, Spent(r)' \subseteq Spent(r), runs'[r].attempt = runs[r].attempt
      PROVE  Cardinality(Spent(r)') <= runs'[r].attempt
  <2>1. /\ Cardinality(Spent(r)') <= Cardinality(Spent(r)) /\ Cardinality(Spent(r)') \in Nat
    BY <1>1, <1>2, FS_Subset, FS_CardinalityType
  <2> QED BY <1>0, <1>1, <1>2, <2>1 DEF Paid
<1>3. ASSUME NEW w \in Worker, NEW S \in SUBSET RunId, NEW d \in Lag, TakesClaims(w, S, d)
      PROVE  Paid'
  <2> DEFINE T == {Ref(r, issued[r] + 1) : r \in S}
  <2>1. /\ Pending(w)' = T
        /\ \A v \in Worker \ {w} : Pending(v)' = Pending(v)
        /\ UNCHANGED exec
    BY <1>3 DEF TakesClaims, PendingOf, Pending
  <2>2. \A c \in T : c.run \in S /\ c.token = issued[c.run] + 1
    BY TakenForm
  <2> HIDE DEF T
  <2>3. \A r \in RunId : IF r \in S THEN runs'[r].attempt = runs[r].attempt + 1
                          ELSE runs'[r] = runs[r]
    BY <1>3, ClaimedForm DEF TakesClaims
  <2>4. ASSUME NEW r \in RunId, NEW n \in Spent(r)'
        PROVE  n \in Spent(r) \/ (r \in S /\ n = issued[r] + 1)
    <3>1. n \in Token /\ (exec'[r][n] # NoExecution \/ \E v \in Worker : Ref(r, n) \in Pending(v)')
      BY <2>4 DEF Spent
    <3>2. CASE Ref(r, n) \in T
      BY <2>2, <3>2 DEF Ref
    <3> QED BY <2>1, <3>1, <3>2 DEF Spent
  <2>5. ASSUME NEW r \in RunId PROVE Cardinality(Spent(r)') <= runs'[r].attempt
    <3>1. CASE r \in S
      <4>1. Spent(r)' \subseteq Spent(r) \cup {issued[r] + 1}
        BY <2>4
      <4>2. /\ IsFiniteSet(Spent(r) \cup {issued[r] + 1})
            /\ Cardinality(Spent(r) \cup {issued[r] + 1}) <= Cardinality(Spent(r)) + 1
            /\ Cardinality(Spent(r) \cup {issued[r] + 1}) \in Nat
        BY <1>1, OneMore
      <4>3. /\ Cardinality(Spent(r)') <= Cardinality(Spent(r) \cup {issued[r] + 1})
            /\ Cardinality(Spent(r)') \in Nat
        BY <4>1, <4>2, FS_Subset, FS_CardinalityType
      <4>4. runs'[r].attempt = runs[r].attempt + 1
        BY <2>3, <3>1
      <4>5. Cardinality(Spent(r)) <= runs[r].attempt
        BY DEF Paid
      <4> QED BY <1>0, <1>1, <4>2, <4>3, <4>4, <4>5
    <3>2. CASE r \notin S
      <4>1. Spent(r)' \subseteq Spent(r)
        BY <2>4, <3>2
      <4> QED BY <1>2, <2>3, <3>2, <4>1
    <3> QED BY <3>1, <3>2
  <2> QED BY <2>5 DEF Paid
<1>4. ASSUME NEW w \in Worker, NEW c, GivesBack(w, c) PROVE Paid'
  <2>1. /\ Pending(w)' = Pending(w) \ {c}
        /\ \A v \in Worker \ {w} : Pending(v)' = Pending(v)
        /\ UNCHANGED exec /\ c \in Pending(w) /\ c \in ClaimRef
    BY <1>0, <1>4 DEF GivesBack, PendingOf, Pending
  <2>2. /\ c.run \in RunId /\ c.token \in Token /\ c = Ref(c.run, c.token)
        /\ exec[c.run][c.token] = NoExecution
        /\ \A v \in Worker \ {w} : c \notin Pending(v)
    BY <1>0, <2>1 DEF ClaimRef, Ref, PendingSound
  <2>3. /\ runs'[c.run].attempt = runs[c.run].attempt - 1
        /\ \A r \in RunId \ {c.run} : runs'[r] = runs[r]
    BY <1>0, <1>4, <2>2 DEF GivesBack, ReleaseClaim
  <2>4. \A r \in RunId : Spent(r)' \subseteq Spent(r)
    BY <2>1 DEF Spent
  <2>5. ASSUME NEW r \in RunId PROVE Cardinality(Spent(r)') <= runs'[r].attempt
    <3>1. CASE r = c.run
      <4>1. c.token \in Spent(r)
        BY <2>1, <2>2, <3>1 DEF Spent
      <4>2. \A v \in Worker : c \notin Pending(v)'
        BY <2>1, <2>2
      <4>3. c.token \notin Spent(r)'
        BY <2>1, <2>2, <3>1, <4>2 DEF Spent
      <4>4. Spent(r)' \subseteq Spent(r) \ {c.token}
        BY <2>4, <4>3
      <4>5. /\ IsFiniteSet(Spent(r) \ {c.token})
            /\ Cardinality(Spent(r) \ {c.token}) = Cardinality(Spent(r)) - 1
        BY <1>1, <4>1, FS_RemoveElement
      <4>6. Cardinality(Spent(r)') <= Cardinality(Spent(r) \ {c.token})
            /\ Cardinality(Spent(r)') \in Nat
        BY <4>4, <4>5, FS_Subset, FS_CardinalityType
      <4>7. Cardinality(Spent(r)) <= runs[r].attempt
        BY DEF Paid
      <4> QED BY <1>0, <1>1, <2>3, <3>1, <4>5, <4>6, <4>7
    <3>2. CASE r # c.run
      BY <1>2, <2>3, <2>4, <3>2
    <3> QED BY <3>1, <3>2
  <2> QED BY <2>5 DEF Paid
<1>5. ASSUME NEW w \in Worker, NEW B, StartsSome(w, B) PROVE Paid'
  <2>1. /\ Pending(w)' = {} /\ \A v \in Worker \ {w} : Pending(v)' = Pending(v)
        /\ UNCHANGED runs
    BY <1>5 DEF StartsSome, PendingOf, Pending, storeVars
  <2>2. \A r \in RunId, n \in Token :
          exec'[r][n] = exec[r][n] \/ Ref(r, n) \in Pending(w)
    BY <1>5, StartsPending
  <2>3. \A r \in RunId : Spent(r)' \subseteq Spent(r)
    BY <2>1, <2>2 DEF Spent
  <2> QED BY <1>2, <2>1, <2>3 DEF Paid
<1>6. CASE Enqueue /\ UNCHANGED <<dispatch, exec>>
  <2>1. PICK r \in RunId, delay \in Delay :
             runs[r].status = "absent" /\ runs' = [runs EXCEPT ![r] = NewRun(delay)]
    BY <1>6 DEF Enqueue, AppendRun, RunIs
  <2>2. UNCHANGED Spent(r) /\ \A q \in RunId : Spent(q)' \subseteq Spent(q)
    BY <1>6 DEF Spent, Pending
  <2>3. issued[r] = 0
    BY <2>1 DEF Claims, RunIs
  <2>4. Spent(r) = {}
    <3>1. ASSUME NEW n \in Spent(r) PROVE FALSE
      <4>1. n \in Token
        BY DEF Spent
      <4>2. n <= 0
        BY <1>0, <2>3, <4>1 DEF Spent, Claims, PendingSound, Ref
      <4> QED BY <4>1, <4>2 DEF Token
    <3> QED BY <3>1
  <2>5. runs'[r].attempt = 0
    BY <1>0, <2>1 DEF NewRun
  <2>6. Cardinality(Spent(r)') <= runs'[r].attempt
    BY <2>2, <2>4, <2>5, FS_EmptySet
  <2>7. ASSUME NEW q \in RunId \ {r} PROVE Cardinality(Spent(q)') <= runs'[q].attempt
    <3>1. runs'[q] = runs[q]
      BY <1>0, <2>1
    <3> QED BY <1>2, <2>2, <3>1
  <2> QED BY <2>6, <2>7 DEF Paid
<1>7. CASE Drops
  <2>1. \A r \in RunId : Spent(r)' \subseteq Spent(r) /\ runs'[r].attempt = runs[r].attempt
    BY <1>7 DEF Drops, AttemptsKept, Spent, Pending
  <2> QED BY <1>2, <2>1 DEF Paid
<1>8. CASE UNCHANGED vars
  BY <1>8 DEF Paid, Spent, Pending, vars, storeVars, localVars
<1> QED BY <1>3, <1>4, <1>5, <1>6, <1>7, <1>8, ClaimSteps

--------------------------------------------------------------------------------
(* The store's invariants under the workers.                               *)

WorkersInv == CapsInv /\ Typed /\ Claims /\ Paid

\* At first no run was claimed.
LEMMA WorkersInitInv == WorkersInit => WorkersInv
<1> SUFFICES ASSUME WorkersInit PROVE WorkersInv
  OBVIOUS
<1>1. Init
  BY DEF WorkersInit
<1>2. ASSUME NEW r \in RunId PROVE Cardinality(Spent(r)) <= runs[r].attempt
  <2>1. \A n \in Token : exec[r][n] = NoExecution
    BY DEF WorkersInit
  <2>2. \A w \in Worker : Pending(w) = {}
    BY IdleForm DEF WorkersInit, Pending
  <2>3. Spent(r) = {}
    BY <2>1, <2>2 DEF Spent
  <2>4. runs[r].attempt = 0
    BY <1>1 DEF Init
  <2> QED BY <2>3, <2>4, FS_EmptySet
<1> QED BY <1>1, <1>2, CapsInit, WorkersInitTyped DEF WorkersInv, Paid

\* Every step of the workers is a step of the store, and keeps the invariant.
LEMMA WorkersStep ==
  ASSUME WorkersInv, [WorkersNext]_vars
  PROVE  WorkersInv' /\ [Next]_storeVars
<1>1. RecordInv /\ Typed /\ Claims /\ Paid /\ CapsInv
  BY DEF WorkersInv, CapsInv, StoreInv
<1>2. [Next]_storeVars
  <2>1. CASE WorkersNext
    <3>1. StoreCalls
      BY <1>1, <2>1, WorkersUseTheStore
    <3>2. 0 \in Lag
      BY StoreConstants DEF Lag
    <3> QED BY <3>1, <3>2 DEF StoreCalls, Next, Renew
  <2>2. CASE UNCHANGED vars
    BY <2>2 DEF vars
  <2> QED BY <2>1, <2>2
<1>3. CapsInv'
  BY <1>1, <1>2, CapsStep
<1> QED BY <1>1, <1>2, <1>3, TypedStep, ClaimsStep, PaidStep DEF WorkersInv

\* The workers do nothing to the store that its specification does not allow: what is
\* proved of the store's records, claims and concurrency holds of it under its workers,
\* through their crashes, lost answers and lags.
THEOREM WorkersUseStore == WorkersSpec => Spec
<1>1. WorkersInit => Init
  BY DEF WorkersInit
<1>2. WorkersInv /\ [WorkersNext]_vars => WorkersInv' /\ [Next]_storeVars
  BY WorkersStep
<1> QED BY <1>1, <1>2, WorkersInitInv, PTL DEF WorkersSpec, Spec

\* Types: WorkersTypeOK of JobsWorkers.
THEOREM WorkersTypesHold == WorkersSpec => []WorkersTypeOK
<1>1. WorkersInv => WorkersTypeOK
  <2> SUFFICES ASSUME WorkersInv PROVE WorkersTypeOK
    OBVIOUS
  <2>1. TypeOK /\ Typed
    BY DEF WorkersInv, CapsInv, StoreInv, RecordInv
  <2> QED BY <2>1 DEF WorkersTypeOK, Typed, ExecRecord
<1>2. WorkersInv /\ [WorkersNext]_vars => WorkersInv'
  BY WorkersStep
<1> QED BY <1>1, <1>2, WorkersInitInv, PTL DEF WorkersSpec

\* A handler start is always paid for by an attempt: StartsWithinAttempts of JobsWorkers.
THEOREM StartsArePaid == WorkersSpec => []StartsWithinAttempts
<1>1. WorkersInv => StartsWithinAttempts
  <2> SUFFICES ASSUME WorkersInv, NEW r \in RunId
               PROVE  Cardinality({n \in Token : exec[r][n] # NoExecution}) <= runs[r].attempt
    BY DEF StartsWithinAttempts
  <2> DEFINE started == {n \in Token : exec[r][n] # NoExecution}
  <2>1. runs[r].attempt \in Nat /\ Cardinality(Spent(r)) <= runs[r].attempt
    BY DEF WorkersInv, CapsInv, StoreInv, RecordInv, TypeOK, Run, Paid
  <2>2. IsFiniteSet(Token)
    BY FS_Interval, StoreConstants DEF Token
  <2>3. started \subseteq Spent(r) /\ Spent(r) \subseteq Token
    BY DEF Spent
  <2> HIDE DEF started
  <2>4. /\ Cardinality(started) <= Cardinality(Spent(r))
        /\ Cardinality(started) \in Nat /\ Cardinality(Spent(r)) \in Nat
    BY <2>2, <2>3, FS_Subset, FS_CardinalityType
  <2>5. Cardinality(started) <= runs[r].attempt
    BY <2>1, <2>4
  <2> QED BY <2>5 DEF started
<1>2. WorkersInv /\ [WorkersNext]_vars => WorkersInv'
  BY WorkersStep
<1> QED BY <1>1, <1>2, WorkersInitInv, PTL DEF WorkersSpec

--------------------------------------------------------------------------------
(* Acknowledged cancellations.                                             *)

\* A worker's acknowledgements and its fence are of cancelled runs; what it has claimed and
\* acknowledged is fenced, or the fence has overflowed and the claims will be read; what it
\* has read since is not acknowledged, unless it has noticed that.
AcksOf(w) ==
    /\ \A r \in acked[w] \cup fence[w] : RunIs(r, "cancelled")
    /\ cancelling[w].at = "answered" => RunIs(cancelling[w].run, "cancelled")
    /\ \A c \in dispatch[w].batch : c.run \in acked[w] => c.run \in fence[w] \/ overflow[w]
    /\ dispatch[w].at = "verifying" /\ ~dispatch[w].moved =>
         \A c \in dispatch[w].keep : c.run \notin acked[w]

Acks == \A w \in Worker : AcksOf(w)

\* Nothing the workers do revives a cancelled run.
LEMMA CancelledStays ==
  ASSUME RecordInv, StoreCalls, NEW r \in RunId, RunIs(r, "cancelled")
  PROVE  runs'[r].status = "cancelled"
<1>0. runs \in [RunId -> Run] /\ runs[r] \in Run /\ runs[r].status = "cancelled"
  BY DEF RecordInv, TypeOK, RunIs
<1>1. CASE Claim \/ Release \/ Complete \/ Retry \/ Cancel
  <2>1. LeavesOrMoves(r)
    BY <1>1, PlainOperations DEF Plain
  <2> QED BY <1>0, <2>1 DEF LeavesOrMoves, Live
<1>2. CASE Enqueue
  BY <1>0, <1>2 DEF Enqueue, AppendRun, RunIs
<1>3. CASE Bury
  BY <1>0, <1>3 DEF Bury, DeadLetterRun, Fenced, Holds, RunIs
<1>4. CASE Recover
  BY <1>0, <1>4 DEF Recover, RecoverStaleLeases, Stale, Running, RunIs
<1>5. CASE Tick
  BY <1>0, <1>5 DEF Tick, Run
<1>6. CASE \E q \in RunId, n \in Token : RenewLease(q, n, 0)
  BY <1>0, <1>6 DEF RenewLease, Fenced, Holds, RunIs
<1>7. CASE UNCHANGED storeVars
  BY <1>0, <1>7 DEF storeVars
<1> QED BY <1>1, <1>2, <1>3, <1>4, <1>5, <1>6, <1>7 DEF StoreCalls

\* Each step keeps what acknowledgements, fences and batches say of each other.
LEMMA AcksStep ==
  ASSUME RecordInv, Typed, Acks, [WorkersNext]_vars
  PROVE  Acks'
<1>0. /\ \A w \in Worker : /\ AcksOf(w) /\ acked[w] \subseteq RunId /\ fence[w] \subseteq RunId
                           /\ dispatch[w] \in Dispatch /\ cancelling[w] \in Cancelling
                           /\ CancellingFits(cancelling[w]) /\ DispatchFits(dispatch[w])
  BY DEF Acks, Typed
<1>1. \A r \in RunId : RunIs(r, "cancelled") => runs'[r].status = "cancelled"
  <2>1. CASE WorkersNext
    BY <2>1, WorkersUseTheStore, CancelledStays
  <2>2. CASE UNCHANGED vars
    BY <2>2 DEF vars, storeVars, RunIs
  <2> QED BY <2>1, <2>2
<1>2. ASSUME NEW w \in Worker,
             acked'[w] = acked[w], fence'[w] = fence[w], overflow'[w] = overflow[w],
             cancelling'[w] = cancelling[w], dispatch'[w].batch \subseteq dispatch[w].batch,
             dispatch'[w].at = "verifying" /\ ~dispatch'[w].moved =>
               /\ dispatch[w].at = "verifying" /\ ~dispatch[w].moved
               /\ \A c \in dispatch'[w].keep : c \in dispatch[w].keep \/ RunIs(c.run, "running")
      PROVE  AcksOf(w)'
  <2>1. AcksOf(w) /\ acked[w] \subseteq RunId /\ fence[w] \subseteq RunId
    BY <1>0
  <2>2. \A r \in acked'[w] \cup fence'[w] : runs'[r].status = "cancelled"
    BY <1>1, <1>2, <2>1 DEF AcksOf
  <2>3. cancelling'[w].at = "answered" => runs'[cancelling'[w].run].status = "cancelled"
    BY <1>0, <1>1, <1>2, <2>1 DEF AcksOf, CancellingFits
  <2>4. \A c \in dispatch'[w].batch : c.run \in acked'[w] => c.run \in fence'[w] \/ overflow'[w]
    BY <1>2, <2>1 DEF AcksOf
  <2>5. ASSUME dispatch'[w].at = "verifying", ~dispatch'[w].moved, NEW c \in dispatch'[w].keep
        PROVE  c.run \notin acked'[w]
    <3>1. c \in dispatch[w].keep \/ RunIs(c.run, "running")
      BY <1>2, <2>5
    <3> QED BY <1>2, <2>1, <2>5, <3>1 DEF AcksOf, RunIs
  <2> QED BY <2>2, <2>3, <2>4, <2>5 DEF AcksOf, RunIs
<1>3. ASSUME NEW w \in Worker, acked'[w] = acked[w], fence'[w] \subseteq fence[w],
             cancelling'[w] = cancelling[w], dispatch'[w].batch = {},
             dispatch'[w].at # "verifying"
      PROVE  AcksOf(w)'
  <2>1. AcksOf(w) /\ acked[w] \subseteq RunId /\ fence[w] \subseteq RunId
    BY <1>0
  <2>2. \A r \in acked'[w] \cup fence'[w] : runs'[r].status = "cancelled"
    BY <1>1, <1>3, <2>1 DEF AcksOf
  <2>3. cancelling'[w].at = "answered" => runs'[cancelling'[w].run].status = "cancelled"
    BY <1>0, <1>1, <1>3, <2>1 DEF AcksOf, CancellingFits
  <2> QED BY <1>3, <2>2, <2>3 DEF AcksOf, RunIs
<1>4. ASSUME UNCHANGED <<dispatch, fence, overflow, cancelling, acked>> PROVE Acks'
  BY <1>2, <1>4 DEF Acks
<1>5. ASSUME NEW w \in Worker, Dispatching(w) PROVE Acks'
  <2>1. UNCHANGED <<acked, cancelling>>
    BY <1>5 DEF Dispatching, ClaimRuns, CheckClaim, ClaimAnswerLost, ReleaseOne, Start,
                OpenWindow, ReadClaim, CloseWindow
  <2>2. ASSUME \A v \in Worker \ {w} : dispatch'[v] = dispatch[v],
               \A v \in Worker \ {w} : fence'[v] = fence[v] /\ overflow'[v] = overflow[v],
               AcksOf(w)'
        PROVE  Acks'
    BY <1>2, <2>1, <2>2 DEF Acks
  <2>3. ASSUME \A v \in Worker \ {w} : dispatch'[v] = dispatch[v],
               UNCHANGED <<fence, overflow>>,
               dispatch'[w].batch \subseteq dispatch[w].batch, dispatch'[w].at # "verifying"
        PROVE  Acks'
    BY <1>2, <2>1, <2>2, <2>3
  <2>4. ASSUME NEW S \in SUBSET RunId, NEW d \in Lag, ClaimRuns(w, S, d) PROVE Acks'
    <3>1. /\ \A v \in Worker \ {w} : dispatch'[v] = dispatch[v]
          /\ dispatch'[w].at = "claimed"
          /\ dispatch'[w].batch = {Ref(r, issued[r] + 1) : r \in S}
      BY <2>4, ClaimRunsForm
    <3>2. UNCHANGED <<fence, overflow>>
      BY <2>4 DEF ClaimRuns
    <3>3. S \subseteq Candidates(Task, d)
      BY <2>4 DEF ClaimRuns, ClaimDueRuns, Admitted
    <3>4. \A c \in dispatch'[w].batch : c.run \in S
      BY <3>1, TakenForm
    <3>5. \A c \in dispatch'[w].batch : c.run \notin acked'[w]
      BY <1>0, <2>1, <3>3, <3>4 DEF Candidates, AcksOf, RunIs
    <3>6. AcksOf(w) /\ acked[w] \subseteq RunId /\ fence[w] \subseteq RunId
      BY <1>0
    <3>7. \A r \in acked'[w] \cup fence'[w] : runs'[r].status = "cancelled"
      BY <1>1, <2>1, <3>2, <3>6 DEF AcksOf
    <3>8. cancelling'[w].at = "answered" => runs'[cancelling'[w].run].status = "cancelled"
      BY <1>0, <1>1, <2>1, <3>6 DEF AcksOf, CancellingFits
    <3>9. AcksOf(w)'
      BY <3>1, <3>5, <3>7, <3>8 DEF AcksOf, RunIs
    <3> QED BY <2>2, <3>1, <3>2, <3>9
  <2>5. CASE CheckClaim(w)
    <3>1. UNCHANGED <<fence, overflow>>
      BY <2>5 DEF CheckClaim
    <3> QED BY <2>3, <2>5, <3>1, CheckClaimForm
  <2>6. CASE ClaimAnswerLost(w)
    <3>1. UNCHANGED <<fence, overflow>> /\ dispatch' = [dispatch EXCEPT ![w] = Idle]
      BY <2>6 DEF ClaimAnswerLost
    <3> QED BY <2>3, <3>1, ForgottenForm
  <2>7. ASSUME NEW c \in dispatch[w].todo, ReleaseOne(w, c) PROVE Acks'
    <3>1. UNCHANGED <<fence, overflow>>
      BY <2>7 DEF ReleaseOne
    <3> QED BY <2>3, <2>7, <3>1, ReleaseOneForm
  <2>8. ASSUME NEW B, Starts(w, B) PROVE Acks'
    <3>1. /\ \A v \in Worker \ {w} : dispatch'[v] = dispatch[v]
          /\ dispatch'[w].at \in {"idle", "releasing"} /\ dispatch'[w].batch = {}
          /\ ~open[w] => UNCHANGED fence
      BY <2>8, StartBatchForm DEF Starts
    <3>2. \A v \in Worker : fence'[v] = fence[v] \/ (v = w /\ fence'[v] = {})
      <4>1. CASE open[w]
        BY <2>8, <4>1, StartedForm DEF Starts
      <4> QED BY <3>1, <4>1
    <3>3. \A v \in Worker \ {w} : overflow'[v] = overflow[v]
      <4>1. CASE Start(w)
        BY <4>1 DEF Start
      <4>2. CASE CloseWindow(w) /\ WindowIsQuiet(w)
        <5>1. overflow' = [overflow EXCEPT ![w] = FALSE]
          BY <4>2, QuietWindowForm
        <5> QED BY <5>1 DEF Typed
      <4> QED BY <2>8, <4>1, <4>2 DEF Starts
    <3>4. AcksOf(w)'
      BY <1>3, <2>1, <3>1, <3>2
    <3> QED BY <2>2, <3>1, <3>2, <3>3, <3>4
  <2>9. CASE OpenWindow(w)
    <3>1. UNCHANGED <<fence, overflow>>
      BY <2>9 DEF OpenWindow
    <3>2. /\ \A v \in Worker \ {w} : dispatch'[v] = dispatch[v]
          /\ dispatch'[w].batch = dispatch[w].batch /\ dispatch'[w].keep = {}
      BY <2>9, OpenWindowForm
    <3>3. AcksOf(w)'
      <4>1. AcksOf(w) /\ acked[w] \subseteq RunId /\ fence[w] \subseteq RunId
        BY <1>0
      <4>2. \A r \in acked'[w] \cup fence'[w] : runs'[r].status = "cancelled"
        BY <1>1, <2>1, <3>1, <4>1 DEF AcksOf
      <4>3. cancelling'[w].at = "answered" => runs'[cancelling'[w].run].status = "cancelled"
        BY <1>0, <1>1, <2>1, <4>1 DEF AcksOf, CancellingFits
      <4> QED BY <2>1, <3>1, <3>2, <4>1, <4>2, <4>3 DEF AcksOf, RunIs
    <3> QED BY <2>2, <3>1, <3>2, <3>3
  <2>10. ASSUME NEW c \in dispatch[w].todo, ReadClaim(w, c) PROVE Acks'
    <3>1. UNCHANGED <<fence, overflow>>
      BY <2>10 DEF ReadClaim
    <3>2. \A v \in Worker \ {w} : dispatch'[v] = dispatch[v]
      BY <2>10, ReadClaimForm
    <3>3. \/ dispatch'[w].at = "releasing" /\ dispatch'[w].batch = {}
          \/ /\ dispatch[w].at = "verifying" /\ dispatch'[w].batch = dispatch[w].batch
             /\ dispatch'[w].moved = dispatch[w].moved
             /\ dispatch'[w].keep = IF Holds(c.run, c.token) THEN dispatch[w].keep \cup {c}
                                    ELSE dispatch[w].keep
      BY <2>10, ReadClaimForm
    <3>4. CASE dispatch'[w].at = "releasing" /\ dispatch'[w].batch = {}
      BY <2>3, <3>1, <3>2, <3>4
    <3>5. CASE /\ dispatch[w].at = "verifying" /\ dispatch'[w].batch = dispatch[w].batch
               /\ dispatch'[w].moved = dispatch[w].moved
               /\ dispatch'[w].keep = IF Holds(c.run, c.token) THEN dispatch[w].keep \cup {c}
                                      ELSE dispatch[w].keep
      <4>1. \A e \in dispatch'[w].keep : e \in dispatch[w].keep \/ RunIs(e.run, "running")
        BY <3>5 DEF Holds
      <4>2. AcksOf(w)'
        BY <1>2, <2>1, <3>1, <3>5, <4>1
      <4> QED BY <2>2, <3>1, <3>2, <4>2
    <3> QED BY <3>3, <3>4, <3>5
  <2>11. CASE CloseWindow(w) /\ ~WindowIsQuiet(w)
    BY <2>3, <2>11, NoisyWindowForm
  <2> QED BY <1>5, <2>4, <2>5, <2>6, <2>7, <2>8, <2>9, <2>10, <2>11, DispatchingSteps
<1>6. ASSUME NEW r \in RunId, NEW n \in Token, Executing(r, n) PROVE Acks'
  <2>1. UNCHANGED <<dispatch, fence, overflow, cancelling, acked>>
    BY <1>6, ExecutingLeaves
  <2> QED BY <1>4, <2>1
<1>7. ASSUME NEW w \in Worker, Cancels(w) PROVE Acks'
  <2>1. \A v \in Worker \ {w} : cancelling'[v] = cancelling[v]
    BY <1>7, CancelsForm DEF CancellingMoves
  <2>2. ASSUME NEW r \in RunId, ApplyLocal(w, r), cancelling'[w].at = "idle",
               RunIs(r, "cancelled") \/ (cancelling[w].at = "answered" /\ cancelling[w].run = r)
        PROVE  Acks'
    <3>1. /\ \A v \in Worker \ {w} : dispatch'[v] = dispatch[v]
          /\ SameClaims(w)
          /\ dispatch'[w].moved = (dispatch[w].moved \/ dispatch[w].at = "verifying")
          /\ \A v \in Worker \ {w} : fence'[v] = fence[v] /\ overflow'[v] = overflow[v]
          /\ fence'[w] \subseteq fence[w] \cup {r} /\ fence[w] \subseteq fence'[w]
          /\ overflow[w] => overflow'[w]
          /\ r \in fence'[w] \/ overflow'[w]
          /\ \A v \in Worker : acked'[v] = IF v = w THEN acked[v] \cup {r} ELSE acked[v]
      <4>1. ApplyLocal(w, r)
        BY <2>2
      <4>2. /\ \A v \in Worker \ {w} : dispatch'[v] = dispatch[v]
            /\ SameClaims(w)
            /\ dispatch'[w].moved = (dispatch[w].moved \/ dispatch[w].at = "verifying")
        BY <4>1, ApplyLocalForm, ZenonT(30)
      <4>3. /\ \A v \in Worker \ {w} : fence'[v] = fence[v] /\ overflow'[v] = overflow[v]
            /\ fence'[w] \subseteq fence[w] \cup {r} /\ fence[w] \subseteq fence'[w]
            /\ overflow[w] => overflow'[w]
            /\ r \in fence'[w] \/ overflow'[w]
        BY <4>1, ApplyLocalForm, ZenonT(30)
      <4>4. \A v \in Worker : acked'[v] = IF v = w THEN acked[v] \cup {r} ELSE acked[v]
        BY <4>1, ApplyLocalForm, ZenonT(30)
      <4> QED BY <4>2, <4>3, <4>4, Zenon
    <3>2. AcksOf(w) /\ acked[w] \subseteq RunId /\ fence[w] \subseteq RunId
      BY <1>0
    <3>3. RunIs(r, "cancelled")
      BY <2>2, <3>2 DEF AcksOf
    <3>4. \A q \in acked'[w] \cup fence'[w] : runs'[q].status = "cancelled"
      BY <1>1, <3>1, <3>2, <3>3, ZenonT(30) DEF AcksOf
    <3>5. \A c \in dispatch'[w].batch :
            c.run \in acked'[w] => c.run \in fence'[w] \/ overflow'[w]
      <4>1. acked'[w] = acked[w] \cup {r} /\ dispatch'[w].batch = dispatch[w].batch
        BY <3>1 DEF SameClaims
      <4>2. \A c \in dispatch[w].batch :
              c.run \in acked[w] => c.run \in fence[w] \/ overflow[w]
        BY <3>2 DEF AcksOf
      <4>3. ASSUME NEW c \in dispatch'[w].batch, c.run \in acked'[w]
            PROVE  c.run \in fence'[w] \/ overflow'[w]
        <5>1. c.run = r \/ c.run \in acked[w]
          BY <4>1, <4>3
        <5> QED BY <3>1, <4>1, <4>2, <4>3, <5>1
      <4> QED BY <4>3
    <3>6. ~(dispatch'[w].at = "verifying" /\ ~dispatch'[w].moved)
      BY <3>1 DEF SameClaims
    <3>7. AcksOf(w)'
      BY <2>2, <3>4, <3>5, <3>6 DEF AcksOf, RunIs
    <3>8. \A v \in Worker \ {w} : AcksOf(v)'
      BY <1>2, <2>1, <3>1
    <3> QED BY <3>7, <3>8 DEF Acks
  <2>3. ASSUME UNCHANGED <<overflow, fence, dispatch, acked>>,
               cancelling'[w].at = "answered" => runs'[cancelling'[w].run].status = "cancelled"
        PROVE  Acks'
    <3>1. AcksOf(w) /\ acked[w] \subseteq RunId /\ fence[w] \subseteq RunId
      BY <1>0
    <3>2. \A q \in acked'[w] \cup fence'[w] : runs'[q].status = "cancelled"
      BY <1>1, <2>3, <3>1 DEF AcksOf
    <3>3. AcksOf(w)'
      BY <2>3, <3>1, <3>2 DEF AcksOf, RunIs
    <3>4. \A v \in Worker \ {w} : AcksOf(v)'
      BY <1>2, <2>1, <2>3
    <3> QED BY <3>3, <3>4 DEF Acks
  <2>4. CASE UNCHANGED <<overflow, fence, dispatch, exec, acked>>
    <3>1. ASSUME NEW r \in RunId, NEW n, NEW d \in Lag, CancelRun(r, n, d),
                 cancelling'[w].run = r
          PROVE  runs'[cancelling'[w].run].status = "cancelled"
      BY <3>1, CancelRunForm
    <3>2. ASSUME cancelling'[w].at = "answered"
          PROVE  \/ \E r \in RunId : ApplyLocal(w, r) /\ cancelling'[w].at = "idle"
                 \/ runs'[cancelling'[w].run].status = "cancelled"
      BY <1>7, <3>1, <3>2, CancelsForm
    <3> QED BY <2>3, <2>4, <3>2
  <2>5. CASE \E r \in RunId :
               /\ ApplyLocal(w, r) /\ cancelling'[w].at = "idle"
               /\ \/ RunIs(r, "cancelled")
                  \/ cancelling[w].at = "answered" /\ cancelling[w].run = r
    BY <2>2, <2>5
  <2> QED BY <1>7, <2>4, <2>5, CancelsForm
<1>8. ASSUME NEW w \in Worker, Crash(w) PROVE Acks'
  <2>1. /\ \A v \in Worker \ {w} : dispatch'[v] = dispatch[v]
        /\ dispatch'[w].at = "idle" /\ dispatch'[w].batch = {}
    BY <1>8, ForgottenForm DEF Crash
  <2>2. /\ acked'[w] = {} /\ fence'[w] = {} /\ cancelling'[w].at = "idle"
        /\ \A v \in Worker \ {w} : /\ acked'[v] = acked[v] /\ fence'[v] = fence[v]
                                   /\ overflow'[v] = overflow[v]
                                   /\ cancelling'[v] = cancelling[v]
    BY <1>8, NotCancellingForm DEF Crash, Typed
  <2>3. AcksOf(w)'
    BY <2>1, <2>2 DEF AcksOf
  <2> QED BY <1>2, <2>1, <2>2, <2>3 DEF Acks
<1>9. CASE TimePasses
  <2>1. /\ \A w \in Worker : SameClaims(w) /\ dispatch'[w].moved = dispatch[w].moved
        /\ UNCHANGED <<fence, overflow, cancelling, acked>>
    BY <1>9, TimePassesForm DEF TimePasses
  <2> QED BY <1>2, <2>1 DEF Acks, SameClaims
<1>10. CASE \/ Enqueue /\ UNCHANGED <<localVars, acked, faults>>
            \/ \E w \in Worker : StopAdmission(w)
            \/ \E S \in SUBSET RunId, d \in Lag : RecoverLeases(S, d)
            \/ UNCHANGED vars
  BY <1>4, <1>10 DEF StopAdmission, RecoverLeases, localVars, vars
<1> QED BY <1>5, <1>6, <1>7, <1>8, <1>9, <1>10, WorkerConstants DEF WorkersNext

\* A handler that a step starts is of a run whose cancellation its worker has not
\* acknowledged.
LEMMA StartsUnacknowledged ==
  ASSUME RecordInv, Typed, Claims, Acks, [WorkersNext]_vars, NEW r \in RunId, NEW n \in Token,
         exec[r][n] = NoExecution, exec'[r][n] # NoExecution
  PROVE  r \notin acked[exec'[r][n].worker]
<1>0. PICK w \in Worker : \E B : StartsSome(w, B)
  <2>1. CASE WorkersNext
    BY <2>1, ClaimSteps DEF TakesClaims, GivesBack, Drops
  <2>2. CASE UNCHANGED vars
    BY <2>2 DEF vars, localVars
  <2> QED BY <2>1, <2>2
<1>1. PICK B : StartsSome(w, B)
  BY <1>0
<1>2. /\ exec'[r][n] = IF Ref(r, n) \in Unfenced(w, B) THEN Begun(w) ELSE exec[r][n]
      /\ B \in SUBSET dispatch[w].batch
      /\ \/ Start(w) /\ B = dispatch[w].batch
         \/ CloseWindow(w) /\ WindowIsQuiet(w) /\ B = dispatch[w].keep
  BY <1>1, StartedForm DEF StartsSome, Starts
<1>3. Ref(r, n) \in B /\ r \notin fence[w] /\ exec'[r][n].worker = w
  BY <1>2, BegunForm DEF Unfenced, Ref
<1>4. Ref(r, n).run = r
  BY DEF Ref
<1>5. CASE Start(w)
  <2>1. ~overflow[w]
    BY <1>5 DEF Start
  <2> QED BY <1>2, <1>3, <1>4, <2>1 DEF Acks, AcksOf
<1>6. CASE CloseWindow(w) /\ WindowIsQuiet(w) /\ B = dispatch[w].keep
  <2>1. dispatch[w].at = "verifying" /\ ~dispatch[w].moved
    BY <1>6, QuietWindowForm
  <2> QED BY <1>3, <1>4, <1>6, <2>1 DEF Acks, AcksOf
<1> QED BY <1>2, <1>5, <1>6

\* The controller of a handler at work is the one its worker has for the run, and it was
\* told of an acknowledged cancellation; unless the run was started a second time.
ControlledOne(r, n) ==
    At(r, n, "handling") =>
        \/ \E m \in Token \ {n} : exec[r][m] # NoExecution
        \/ /\ controllers[exec[r][n].worker][r] = n
           /\ r \in acked[exec[r][n].worker] => exec[r][n].aborted

Controlled == \A r \in RunId, n \in Token : ControlledOne(r, n)

\* Each step keeps the controllers of the handlers at work.
LEMMA ControlledStep ==
  ASSUME RecordInv, Typed, Claims, Acks, Controlled, [WorkersNext]_vars
  PROVE  Controlled'
<1>0. /\ exec \in [RunId -> [Token -> ExecRecord]]
      /\ \A r \in RunId, n \in Token : At(r, n, "handling") => exec[r][n].worker \in Worker
      /\ \A r \in RunId, n \in Token : At(r, n, "handling") => Ongoing(r, n)
      /\ \A r \in RunId, n \in Token : ControlledOne(r, n)
  <2>1. \A r \in RunId, n \in Token : exec[r][n].at = "handling" => exec[r][n] \in Execution
    BY ExecutionForm DEF Typed
  <2> QED BY <2>1 DEF Typed, At, Ongoing, Controlled, Execution
<1>1. ASSUME \A r \in RunId, n \in Token : Continues(r, n), UNCHANGED <<controllers, acked>>
      PROVE  Controlled'
  <2> SUFFICES ASSUME NEW r \in RunId, NEW n \in Token, At(r, n, "handling")'
               PROVE  \/ \E m \in Token \ {n} : exec'[r][m] # NoExecution
                      \/ /\ controllers'[exec'[r][n].worker][r] = n
                         /\ r \in acked'[exec'[r][n].worker] => exec'[r][n].aborted
    BY DEF Controlled, ControlledOne
  <2>1. At(r, n, "handling") /\ Ongoing(r, n)
    BY <1>0, <1>1 DEF Continues, At
  <2>2. CASE \E m \in Token \ {n} : exec[r][m] # NoExecution
    <3>1. PICK m \in Token \ {n} : exec[r][m] # NoExecution
      BY <2>2
    <3>2. exec[r][m].at # "none" /\ exec'[r][m].at = exec[r][m].at
      BY <1>0, <1>1, <3>1, ExecutionForm DEF Continues
    <3>3. exec'[r][m] # NoExecution
      BY <3>2, ExecutionForm
    <3> QED BY <3>3
  <2>3. CASE ~\E m \in Token \ {n} : exec[r][m] # NoExecution
    BY <1>0, <1>1, <2>1, <2>3 DEF ControlledOne, Continues
  <2> QED BY <2>2, <2>3
<1>2. ASSUME NEW w \in Worker, NEW B, StartsSome(w, B), UNCHANGED acked PROVE Controlled'
  <2>1. /\ \A r \in RunId, n \in Token :
             exec'[r][n] = IF Ref(r, n) \in Unfenced(w, B) THEN Begun(w) ELSE exec[r][n]
        /\ \A v \in Worker, r \in RunId :
             IF v = w /\ \E n \in Token : Ref(r, n) \in Unfenced(w, B)
             THEN controllers'[v][r] \in Token /\ Ref(r, controllers'[v][r]) \in Unfenced(w, B)
             ELSE controllers'[v][r] = controllers[v][r]
    BY <1>2, StartedForm DEF StartsSome, Starts
  <2>2. Begun(w) # NoExecution /\ Begun(w).worker = w
    BY BegunForm, ExecutionForm
  <2>3. \A r \in RunId, n \in Token : Ref(r, n) \in Unfenced(w, B) => exec[r][n] = NoExecution
    <3>1. Unfenced(w, B) \subseteq Pending(w)
      BY <1>2 DEF StartsSome, Starts, Unfenced, Pending
    <3> QED BY <3>1 DEF Claims, PendingSound, Ref
  <2>4. ASSUME NEW r \in RunId, NEW n \in Token, At(r, n, "handling")'
        PROVE  \/ \E m \in Token \ {n} : exec'[r][m] # NoExecution
               \/ /\ controllers'[exec'[r][n].worker][r] = n
                  /\ r \in acked'[exec'[r][n].worker] => exec'[r][n].aborted
    <3>1. CASE \E m \in Token \ {n} : Ref(r, m) \in Unfenced(w, B)
      BY <2>1, <2>2, <3>1
    <3>2. CASE Ref(r, n) \in Unfenced(w, B) /\ ~\E m \in Token \ {n} : Ref(r, m) \in Unfenced(w, B)
      <4>1. exec'[r][n] = Begun(w) /\ exec[r][n] = NoExecution
        BY <2>1, <2>3, <3>2
      <4>2. controllers'[w][r] = n
        BY <2>1, <3>2
      <4>3. r \notin acked[exec'[r][n].worker]
        BY <2>2, <4>1, StartsUnacknowledged
      <4> QED BY <1>2, <2>2, <4>1, <4>2, <4>3
    <3>3. CASE ~\E m \in Token : Ref(r, m) \in Unfenced(w, B)
      <4>1. \A m \in Token : exec'[r][m] = exec[r][m]
        BY <2>1, <3>3
      <4>2. At(r, n, "handling") /\ exec[r][n].worker \in Worker
        BY <1>0, <2>4, <4>1 DEF At
      <4>3. controllers'[exec[r][n].worker][r] = controllers[exec[r][n].worker][r]
        BY <2>1, <3>3, <4>2
      <4> QED BY <1>0, <1>2, <4>1, <4>2, <4>3 DEF ControlledOne
    <3> QED BY <3>1, <3>2, <3>3
  <2> QED BY <2>4 DEF Controlled, ControlledOne
<1>3. ASSUME NEW w \in Worker, Dispatching(w) PROVE Controlled'
  <2>1. UNCHANGED acked
    BY <1>3 DEF Dispatching, ClaimRuns, CheckClaim, ClaimAnswerLost, ReleaseOne, Start,
                OpenWindow, ReadClaim, CloseWindow
  <2>2. CASE UNCHANGED <<exec, controllers>>
    BY <1>1, <2>1, <2>2 DEF Continues
  <2>3. ASSUME NEW B, Starts(w, B) PROVE Controlled'
    <3>1. CASE open[w]
      <4>1. UNCHANGED storeVars
        BY <2>3 DEF Starts, Start, CloseWindow
      <4>2. StartsSome(w, B)
        BY <2>3, <3>1, <4>1, StartBatchForm DEF StartsSome, Starts, PendingOf
      <4> QED BY <1>2, <2>1, <4>2
    <3>2. CASE ~open[w]
      BY <2>2, <2>3, <3>2, StartBatchForm DEF Starts
    <3> QED BY <3>1, <3>2
  <2>4. CASE ~\E B : Starts(w, B)
    BY <1>3, <2>2, <2>4, DispatchingSteps, NoisyWindowForm
       DEF ClaimRuns, CheckClaim, ClaimAnswerLost, ReleaseOne, OpenWindow, ReadClaim
  <2> QED BY <2>3, <2>4
<1>4. ASSUME NEW r \in RunId, NEW n \in Token, Executing(r, n) PROVE Controlled'
  <2>1. CASE Heartbeat(r, n)
    <3>1. UNCHANGED <<controllers, acked>>
      BY <2>1 DEF Heartbeat
    <3> QED BY <1>1, <2>1, <3>1, HeartbeatForm
  <2>2. CASE LoseRenewal(r, n)
    <3>1. UNCHANGED <<controllers, acked>> /\ Ongoing(r, n) /\ exec' = LostLease(r, n)
      BY <2>2 DEF LoseRenewal, At, Ongoing
    <3> QED BY <1>1, <3>1, LostLeaseForm
  <2>3. CASE Timeout(r, n)
    <3>1. UNCHANGED <<controllers, acked>>
      BY <2>3 DEF Timeout
    <3> QED BY <1>1, <2>3, <3>1, TimeoutForm
  <2>4. ASSUME exec'[r][n] # NoExecution, exec'[r][n].at # "handling",
               \A q \in RunId, m \in Token : (q = r /\ m = n) \/ exec'[q][m] = exec[q][m],
               UNCHANGED acked,
               \A v \in Worker, q \in RunId : q = r \/ controllers'[v][q] = controllers[v][q]
        PROVE  Controlled'
    <3>1. ASSUME NEW q \in RunId, NEW m \in Token, At(q, m, "handling")'
          PROVE  \/ \E k \in Token \ {m} : exec'[q][k] # NoExecution
                 \/ /\ controllers'[exec'[q][m].worker][q] = m
                    /\ q \in acked'[exec'[q][m].worker] => exec'[q][m].aborted
      <4>1. CASE q = r
        BY <2>4, <3>1, <4>1 DEF At
      <4>2. CASE q # r
        <5>1. \A k \in Token : exec'[q][k] = exec[q][k]
          BY <2>4, <4>2
        <5>2. At(q, m, "handling") /\ exec[q][m].worker \in Worker
          BY <1>0, <3>1, <5>1 DEF At
        <5> QED BY <1>0, <2>4, <4>2, <5>1, <5>2 DEF ControlledOne
      <4> QED BY <4>1, <4>2
    <3> QED BY <3>1 DEF Controlled, ControlledOne
  <2>5. CASE HandlerSettles(r, n)
    <3>1. /\ exec'[r][n].at = "settled"
          /\ \A q \in RunId, m \in Token : (q = r /\ m = n) \/ exec'[q][m] = exec[q][m]
          /\ \A v \in Worker, q \in RunId : q = r \/ controllers'[v][q] = controllers[v][q]
      BY <2>5, HandlerSettlesForm
    <3>2. UNCHANGED acked
      BY <2>5 DEF HandlerSettles
    <3>3. exec'[r][n] # NoExecution
      BY <3>1, ExecutionForm
    <3> QED BY <2>4, <3>1, <3>2, <3>3
  <2>6. ASSUME NEW delay \in Delay, NEW d \in Lag, Commit(r, n, delay, d) PROVE Controlled'
    <3>1. \A q \in RunId, m \in Token : exec'[q][m] = IF q = r /\ m = n THEN Over ELSE exec[q][m]
      BY <2>6, CommitForm
    <3>2. UNCHANGED <<controllers, acked>>
      BY <2>6 DEF Commit
    <3> QED BY <2>4, <3>1, <3>2, ExecutionForm
  <2> QED BY <1>4, <2>1, <2>2, <2>3, <2>5, <2>6 DEF Executing
<1>5. ASSUME NEW w \in Worker, Cancels(w) PROVE Controlled'
  <2>1. UNCHANGED controllers /\ (UNCHANGED <<exec, acked>> \/ \E r \in RunId : ApplyLocal(w, r))
    BY <1>5, CancelsForm
  <2>2. CASE UNCHANGED <<exec, acked>>
    BY <1>1, <2>1, <2>2 DEF Continues
  <2>3. ASSUME NEW r \in RunId, ApplyLocal(w, r) PROVE Controlled'
    <3>1. /\ \A q \in RunId, n \in Token : Continues(q, n)
          /\ controllers[w][r] # NoToken => exec'[r][controllers[w][r]].aborted
          /\ \A v \in Worker : acked'[v] = IF v = w THEN acked[v] \cup {r} ELSE acked[v]
      BY <2>3, ApplyLocalForm, ZenonT(30)
    <3>2. ASSUME NEW q \in RunId, NEW m \in Token, At(q, m, "handling")'
          PROVE  \/ \E k \in Token \ {m} : exec'[q][k] # NoExecution
                 \/ /\ controllers'[exec'[q][m].worker][q] = m
                    /\ q \in acked'[exec'[q][m].worker] => exec'[q][m].aborted
      <4>1. /\ At(q, m, "handling") /\ Ongoing(q, m) /\ exec[q][m].worker \in Worker
            /\ exec'[q][m].worker = exec[q][m].worker
            /\ exec[q][m].aborted => exec'[q][m].aborted
        BY <1>0, <3>1, <3>2 DEF Continues, At
      <4>2. CASE \E k \in Token \ {m} : exec[q][k] # NoExecution
        <5>1. PICK k \in Token \ {m} : exec[q][k] # NoExecution
          BY <4>2
        <5>2. exec[q][k].at # "none" /\ exec'[q][k].at = exec[q][k].at
          BY <1>0, <3>1, <5>1, ExecutionForm DEF Continues
        <5>3. exec'[q][k] # NoExecution
          BY <5>2, ExecutionForm
        <5> QED BY <5>3
      <4>3. CASE ~\E k \in Token \ {m} : exec[q][k] # NoExecution
        <5>1. /\ controllers[exec[q][m].worker][q] = m
              /\ q \in acked[exec[q][m].worker] => exec[q][m].aborted
          BY <1>0, <4>1, <4>3 DEF ControlledOne
        <5>2. m # NoToken
          BY DEF Token, NoToken
        <5>3. q \in acked'[exec[q][m].worker] =>
                q \in acked[exec[q][m].worker] \/ (q = r /\ exec[q][m].worker = w)
          BY <3>1, <4>1
        <5> QED BY <2>1, <3>1, <4>1, <5>1, <5>2, <5>3
      <4> QED BY <4>2, <4>3
    <3> QED BY <3>2 DEF Controlled, ControlledOne
  <2> QED BY <2>1, <2>2, <2>3
<1>6. ASSUME NEW w \in Worker, Crash(w) PROVE Controlled'
  <2>1. \A r \in RunId, n \in Token :
          exec'[r][n] = IF Ongoing(r, n) /\ exec[r][n].worker = w THEN Over ELSE exec[r][n]
    BY <1>6, CrashForm
  <2>2. \A v \in Worker : v = w \/ (controllers'[v] = controllers[v] /\ acked'[v] = acked[v])
    BY <1>6 DEF Crash, Typed
  <2>3. ASSUME NEW q \in RunId, NEW m \in Token, At(q, m, "handling")'
        PROVE  \/ \E k \in Token \ {m} : exec'[q][k] # NoExecution
               \/ /\ controllers'[exec'[q][m].worker][q] = m
                  /\ q \in acked'[exec'[q][m].worker] => exec'[q][m].aborted
    <3>1. exec'[q][m] = exec[q][m] /\ ~(Ongoing(q, m) /\ exec[q][m].worker = w)
      BY <2>1, <2>3, ExecutionForm DEF At
    <3>2. At(q, m, "handling") /\ exec[q][m].worker \in Worker /\ exec[q][m].worker # w
      BY <1>0, <2>3, <3>1 DEF At
    <3>3. \A k \in Token : exec[q][k] # NoExecution => exec'[q][k] # NoExecution
      BY <2>1, ExecutionForm
    <3> QED BY <1>0, <2>2, <3>1, <3>2, <3>3 DEF ControlledOne
  <2> QED BY <2>3 DEF Controlled, ControlledOne
<1>7. CASE TimePasses
  <2>1. UNCHANGED <<controllers, acked>>
    BY <1>7 DEF TimePasses
  <2> QED BY <1>1, <1>7, <2>1, TimePassesForm
<1>8. CASE \/ Enqueue /\ UNCHANGED <<localVars, acked, faults>>
           \/ \E w \in Worker : StopAdmission(w)
           \/ \E S \in SUBSET RunId, d \in Lag : RecoverLeases(S, d)
           \/ UNCHANGED vars
  <2>1. UNCHANGED <<exec, controllers, acked>>
    BY <1>8 DEF StopAdmission, RecoverLeases, localVars, vars
  <2> QED BY <1>1, <2>1 DEF Continues
<1> QED BY <1>3, <1>4, <1>5, <1>6, <1>7, <1>8, WorkerConstants DEF WorkersNext

CancellationInv == WorkersInv /\ Acks /\ Controlled

\* Nothing was acknowledged and nothing started at first.
LEMMA CancellationInit == WorkersInit => CancellationInv
<1> SUFFICES ASSUME WorkersInit PROVE Acks /\ Controlled
  BY WorkersInitInv DEF CancellationInv
<1>1. Acks
  BY IdleForm, NotCancellingForm DEF WorkersInit, Acks, AcksOf
<1>2. Controlled
  BY ExecutionForm DEF WorkersInit, Controlled, ControlledOne, At
<1> QED BY <1>1, <1>2

\* Every step keeps the invariant, and starts no handler that was called off.
LEMMA CancellationStep ==
  ASSUME CancellationInv, [WorkersNext]_vars
  PROVE  /\ CancellationInv'
         /\ \A r \in RunId, n \in Token :
              (exec[r][n] = NoExecution /\ exec'[r][n] # NoExecution) =>
                  r \notin acked[exec'[r][n].worker]
<1>1. RecordInv /\ Typed /\ Claims /\ Acks /\ Controlled /\ WorkersInv
  BY DEF CancellationInv, WorkersInv, CapsInv, StoreInv
<1> QED BY <1>1, WorkersStep, AcksStep, ControlledStep, StartsUnacknowledged
        DEF CancellationInv

\* After cancelRun has returned on a worker that worker starts no handler of the run, also
\* when the claim was on its way or the fence overflowed: NoStartAfterAck of JobsWorkers.
THEOREM AcknowledgedNeverStarts == WorkersSpec => NoStartAfterAck
<1>1. CancellationInv /\ [WorkersNext]_vars =>
        /\ CancellationInv'
        /\ [\A r \in RunId, n \in Token :
              (exec[r][n] = NoExecution /\ exec'[r][n] # NoExecution) =>
                  r \notin acked[exec'[r][n].worker]]_vars
  BY CancellationStep
<1> QED BY <1>1, CancellationInit, PTL DEF WorkersSpec, NoStartAfterAck

\* After cancelRun has returned, every handler of the run at work on that worker has been
\* told to abort, if the run was started once: CancelAborts of JobsWorkers.
THEOREM AcknowledgedAborts == WorkersSpec => []CancelAborts
<1>1. CancellationInv => CancelAborts
  BY DEF CancellationInv, Controlled, ControlledOne, CancelAborts
<1>2. CancellationInv /\ [WorkersNext]_vars => CancellationInv'
  BY CancellationStep
<1> QED BY <1>1, <1>2, CancellationInit, PTL DEF WorkersSpec

--------------------------------------------------------------------------------
(* Leases in force.                                                        *)

\* A run that is running after a step that claims nothing was running before, with the same
\* lease, and its lease was in force if it is; only time brings the lease's end nearer.
LEMMA RunningBefore ==
  ASSUME RecordInv, StoreCalls, UNCHANGED issued, NEW r \in RunId, runs'[r].status = "running"
  PROVE  /\ RunIs(r, "running") /\ runs'[r].token = runs[r].token
         /\ runs'[r].due > 0 => runs[r].due > 0
         /\ \/ runs'[r].due >= runs[r].due
            \/ Tick /\ runs'[r].due = Sooner(runs[r].due)
<1>0. TypeOK /\ runs \in [RunId -> Run] /\ runs[r] \in Run /\ runs[r].due \in Int
      /\ \A q \in RunId : issued[q] \in Nat
  BY DEF RecordInv, TypeOK, Run
<1>1. runs'[r] = runs[r] /\ runs[r].status = "running" =>
        /\ RunIs(r, "running") /\ runs'[r].token = runs[r].token
        /\ runs'[r].due > 0 => runs[r].due > 0
        /\ runs'[r].due >= runs[r].due
  BY <1>0 DEF RunIs
<1> USE StatusFacts
<1>2. CASE Claim
  <2> PICK S \in SUBSET RunId, tasks \in SUBSET Task, limit \in 1 .. MaxConcurrentRuns,
           d \in Lag : ClaimDueRuns(S, tasks, limit, d)
    BY <1>2 DEF Claim
  <2>1. PICK q \in S : issued'[q] = issued[q] + 1
    BY ClaimedForm DEF ClaimDueRuns
  <2> QED BY <1>0, <2>1
<1>3. CASE Enqueue
  BY <1>0, <1>1, <1>3 DEF Enqueue, AppendRun, NewRun
<1>4. CASE Release
  BY <1>0, <1>1, <1>4 DEF Release, ReleaseClaim
<1>5. CASE Complete
  BY <1>0, <1>1, <1>5, EndedFields DEF Complete, CompleteRun
<1>6. CASE Retry
  <2> PICK q \in RunId, n \in Token, delay \in Delay, d \in Lag :
           MarkRunRetryable(q, n, delay, d)
    BY <1>6 DEF Retry
  <2>1. runs'[q].status = "retryable" /\ \A k \in RunId \ {q} : runs'[k] = runs[k]
    BY <1>0 DEF MarkRunRetryable, Run
  <2> QED BY <1>1, <2>1
<1>7. CASE Bury
  BY <1>0, <1>1, <1>7, EndedFields DEF Bury, DeadLetterRun
<1>8. CASE Cancel
  BY <1>0, <1>1, <1>8, EndedFields DEF Cancel, CancelRun
<1>9. CASE Recover
  <2> PICK S \in SUBSET RunId, d \in Lag : RecoverStaleLeases(S, d)
    BY <1>9 DEF Recover
  <2>1. CASE r \notin S
    BY <1>1, <2>1 DEF RecoverStaleLeases
  <2>2. CASE r \in S /\ Exhausted(r)
    <3>1. runs'[r] = Ended(r, "dead-lettered", d)
      BY <2>2 DEF RecoverStaleLeases
    <3> QED BY <1>0, <3>1, EndedFields
  <2>3. CASE r \in S /\ ~Exhausted(r)
    <3>1. PICK x : x = 0 - d
      OBVIOUS
    <3>2. runs'[r] = [runs[r] EXCEPT !.status = "retryable", !.token = NoToken, !.due = x]
      BY <2>3, <3>1 DEF RecoverStaleLeases
    <3> QED BY <1>0, <3>2 DEF Run
  <2> QED BY <2>1, <2>2, <2>3
<1>10. CASE Tick
  <2>1. CASE runs[r].status \in Present
    <3>1. runs'[r] = [runs[r] EXCEPT !.due = Sooner(runs[r].due)]
      BY <1>10, <2>1 DEF Tick
    <3>2. /\ runs'[r].status = runs[r].status /\ runs'[r].token = runs[r].token
          /\ runs'[r].due = Sooner(runs[r].due)
      BY <1>0, <3>1 DEF Run
    <3>3. Sooner(runs[r].due) <= runs[r].due
      BY <1>0 DEF Sooner
    <3>4. Sooner(runs[r].due) \in Int
      BY <1>0 DEF Sooner
    <3> QED BY <1>0, <1>10, <3>2, <3>3, <3>4 DEF RunIs
  <2>2. CASE runs[r].status \notin Present
    BY <1>10, <2>2 DEF Tick
  <2> QED BY <2>1, <2>2
<1>11. ASSUME NEW q \in RunId, NEW n \in Token, RenewLease(q, n, 0)
       PROVE  /\ RunIs(r, "running") /\ runs'[r].token = runs[r].token
              /\ runs'[r].due > 0 => runs[r].due > 0
              /\ runs'[r].due >= runs[r].due
  <2>1. runs[q].status = "running" /\ runs[q].due > 0 /\ runs[q] \in Run /\ runs[q].due \in Int
    BY <1>0, <1>11 DEF RenewLease, Fenced, Holds, RunIs, Elapsed, Run
  <2>2. PICK x \in Int : x = (IF runs[q].due >= LeaseMs - 0 THEN runs[q].due ELSE LeaseMs - 0)
                         /\ x >= runs[q].due
    BY <2>1, StoreConstants
  <2>3. runs' = [runs EXCEPT ![q] = [runs[q] EXCEPT !.due = x]]
    BY <1>0, <1>11, <2>2 DEF RenewLease
  <2>4. CASE q = r
    <3>1. runs'[r] = [runs[r] EXCEPT !.due = x]
      BY <1>0, <2>3, <2>4
    <3>2. runs'[r].token = runs[r].token /\ runs'[r].due = x
      BY <1>0, <3>1 DEF Run
    <3> QED BY <2>1, <2>2, <2>4, <3>2 DEF RunIs
  <2>5. CASE q # r
    BY <1>0, <1>1, <2>3, <2>5
  <2> QED BY <2>4, <2>5
<1>12. CASE UNCHANGED storeVars
  BY <1>1, <1>12 DEF storeVars
<1> QED BY <1>2, <1>3, <1>4, <1>5, <1>6, <1>7, <1>8, <1>9, <1>10, <1>11, <1>12 DEF StoreCalls

\* A claim that is held after a step of the workers was held before, unless it is new.
LEMMA HeldBefore ==
  ASSUME RecordInv, Typed, [WorkersNext]_vars, NEW c \in ClaimRef, c.token <= issued[c.run],
         Holds(c.run, c.token)'
  PROVE  Holds(c.run, c.token)
<1>0. c.run \in RunId /\ c.token \in Nat /\ issued[c.run] \in Nat
  BY DEF ClaimRef, Token, RecordInv, TypeOK
<1>1. CASE UNCHANGED vars
  BY <1>1 DEF vars, storeVars, Holds, RunIs
<1>2. CASE WorkersNext /\ UNCHANGED issued
  BY <1>0, <1>2, WorkersUseTheStore, RunningBefore DEF Holds, RunIs
<1>3. ASSUME NEW w, NEW S \in SUBSET RunId, NEW d \in Lag, ClaimDueRuns(S, Task, Slots(w), d)
      PROVE  Holds(c.run, c.token)
  <2>1. /\ c.run \in S => runs'[c.run].token = issued[c.run] + 1
        /\ c.run \notin S => runs'[c.run] = runs[c.run]
    BY <1>0, <1>3, ClaimedForm
  <2> QED BY <1>0, <2>1 DEF Holds, RunIs
<1> QED BY <1>1, <1>2, <1>3, WorkersUseTheStore

\* What a window has read and not kept is not ours.
ReadSound(w) ==
    dispatch[w].at = "verifying" =>
        \A c \in dispatch[w].batch \ (dispatch[w].todo \cup dispatch[w].keep) :
            ~Holds(c.run, c.token)

Leased(r) == RunIs(r, "running") /\ runs[r].due > 0

\* Somebody keeps the lease, or has the claim still to start or to give back.
InHand(r, n) ==
    \/ Ongoing(r, n) /\ exec[r][n].leaseActive
    \/ \E w \in Worker : Ref(r, n) \in Pending(w)

Kept ==
    /\ \A w \in Worker : ReadSound(w)
    /\ faults = 0 => \A r \in RunId : Leased(r) => InHand(r, runs[r].token)

\* Reading keeps what is ours, and what was not ours does not become it.
LEMMA ReadSoundStep ==
  ASSUME RecordInv, Typed, Claims, \A w \in Worker : ReadSound(w), [WorkersNext]_vars
  PROVE  \A w \in Worker : ReadSound(w)'
<1>0. \A w \in Worker : \A c \in dispatch[w].batch : c \in ClaimRef /\ c.token <= issued[c.run]
  BY DEF Typed, Dispatch, Claims, PendingSound, Pending
<1>1. ASSUME NEW w \in Worker, dispatch'[w].at = "verifying" => SameClaims(w)
      PROVE  ReadSound(w)'
  BY <1>0, <1>1, HeldBefore DEF ReadSound, SameClaims
<1>2. ASSUME NEW w \in Worker, Dispatching(w) PROVE \A v \in Worker : ReadSound(v)'
  <2>1. ASSUME \A v \in Worker \ {w} : dispatch'[v] = dispatch[v], ReadSound(w)'
        PROVE  \A v \in Worker : ReadSound(v)'
    BY <1>1, <2>1 DEF SameClaims
  <2>2. ASSUME \A v \in Worker \ {w} : dispatch'[v] = dispatch[v],
               dispatch'[w].at # "verifying"
        PROVE  \A v \in Worker : ReadSound(v)'
    BY <1>1, <2>1, <2>2
  <2>3. CASE \E S \in SUBSET RunId, d \in Lag : ClaimRuns(w, S, d)
    BY <2>2, <2>3, ClaimRunsForm
  <2>4. CASE CheckClaim(w)
    BY <2>2, <2>4, CheckClaimForm
  <2>5. CASE ClaimAnswerLost(w)
    BY <2>2, <2>5, ForgottenForm DEF ClaimAnswerLost
  <2>6. CASE \E c \in dispatch[w].todo : ReleaseOne(w, c)
    BY <2>2, <2>6, ReleaseOneForm
  <2>7. CASE \E B : Starts(w, B)
    BY <2>2, <2>7, StartBatchForm DEF Starts
  <2>8. CASE OpenWindow(w)
    BY <2>1, <2>8, OpenWindowForm DEF ReadSound
  <2>9. ASSUME NEW c \in dispatch[w].todo, ReadClaim(w, c)
        PROVE  \A v \in Worker : ReadSound(v)'
    <3>1. \A v \in Worker \ {w} : dispatch'[v] = dispatch[v]
      BY <2>9, ReadClaimForm
    <3>2. \/ dispatch'[w].at = "releasing"
          \/ /\ dispatch[w].at = "verifying" /\ dispatch'[w].batch = dispatch[w].batch
             /\ dispatch'[w].todo = dispatch[w].todo \ {c}
             /\ dispatch'[w].keep = IF Holds(c.run, c.token) THEN dispatch[w].keep \cup {c}
                                    ELSE dispatch[w].keep
      BY <2>9, ReadClaimForm
    <3>3. UNCHANGED runs
      BY <2>9 DEF ReadClaim, storeVars
    <3>4. CASE dispatch'[w].at = "releasing"
      BY <2>2, <3>1, <3>4
    <3>5. CASE /\ dispatch[w].at = "verifying" /\ dispatch'[w].batch = dispatch[w].batch
               /\ dispatch'[w].todo = dispatch[w].todo \ {c}
               /\ dispatch'[w].keep = IF Holds(c.run, c.token) THEN dispatch[w].keep \cup {c}
                                      ELSE dispatch[w].keep
      <4>1. ReadSound(w)'
        BY <3>3, <3>5 DEF ReadSound, Holds, RunIs
      <4> QED BY <2>1, <3>1, <4>1
    <3> QED BY <3>2, <3>4, <3>5
  <2>10. CASE CloseWindow(w) /\ ~WindowIsQuiet(w)
    BY <2>2, <2>10, NoisyWindowForm
  <2> QED BY <1>2, <2>3, <2>4, <2>5, <2>6, <2>7, <2>8, <2>9, <2>10, DispatchingSteps
<1>3. ASSUME NEW w \in Worker, Cancels(w) PROVE \A v \in Worker : ReadSound(v)'
  <2>1. UNCHANGED dispatch \/ \E r \in RunId : ApplyLocal(w, r)
    BY <1>3, CancelsForm
  <2>2. UNCHANGED dispatch \/ (SameClaims(w) /\ \A v \in Worker \ {w} : dispatch'[v] = dispatch[v])
    BY <2>1, ApplyLocalForm
  <2> QED BY <1>1, <2>2 DEF SameClaims
<1>4. ASSUME NEW w \in Worker, Crash(w) PROVE \A v \in Worker : ReadSound(v)'
  <2>1. /\ \A v \in Worker \ {w} : dispatch'[v] = dispatch[v]
        /\ dispatch'[w].at = "idle"
    BY <1>4, ForgottenForm DEF Crash
  <2> QED BY <1>1, <2>1 DEF SameClaims
<1>5. CASE TimePasses
  BY <1>1, <1>5, TimePassesForm
<1>6. CASE \/ Enqueue /\ UNCHANGED <<localVars, acked, faults>>
           \/ \E w \in Worker : StopAdmission(w)
           \/ \E S \in SUBSET RunId, d \in Lag : RecoverLeases(S, d)
           \/ UNCHANGED vars
  <2>1. UNCHANGED dispatch
    BY <1>6 DEF StopAdmission, RecoverLeases, localVars, vars
  <2> QED BY <1>1, <2>1 DEF SameClaims
<1>7. CASE \E r \in RunId, n \in Token : Executing(r, n)
  <2>1. UNCHANGED dispatch
    BY <1>7, ExecutingLeaves
  <2> QED BY <1>1, <2>1 DEF SameClaims
<1> QED BY <1>2, <1>3, <1>4, <1>5, <1>6, <1>7, WorkerConstants DEF WorkersNext

\* Only a fault counts as one.
LEMMA FaultsCount ==
  ASSUME RecordInv, Typed, WorkersNext
  PROVE  faults' = faults \/ Faulty
<1>1. ASSUME NEW w \in Worker, Dispatching(w) PROVE faults' = faults \/ Faulty
  <2>1. ASSUME NEW c, ReleaseOne(w, c) PROVE faults' = faults \/ Faulty
    BY <2>1 DEF ReleaseOne
  <2>2. ASSUME NEW c, ReadClaim(w, c) PROVE faults' = faults \/ Faulty
    BY <2>2 DEF ReadClaim
  <2>3. CASE \/ CheckClaim(w) \/ ClaimAnswerLost(w) \/ Start(w) \/ OpenWindow(w)
             \/ \E S \in SUBSET RunId, d \in Lag : ClaimRuns(w, S, d)
    BY <2>3 DEF ClaimRuns, CheckClaim, ClaimAnswerLost, Start, OpenWindow
  <2>4. CASE CloseWindow(w)
    BY <2>4 DEF CloseWindow
  <2> QED BY <1>1, <2>1, <2>2, <2>3, <2>4 DEF Dispatching
<1>2. ASSUME NEW r \in RunId, NEW n \in Token, Executing(r, n) PROVE faults' = faults \/ Faulty
  <2>1. ASSUME NEW delay, NEW d, Commit(r, n, delay, d) PROVE faults' = faults \/ Faulty
    BY <2>1 DEF Commit, Outcome
  <2> QED BY <1>2, <2>1 DEF Executing, Heartbeat, LoseRenewal, Timeout, HandlerSettles
<1>3. ASSUME NEW w \in Worker, Cancels(w) PROVE faults' = faults \/ Faulty
  <2>1. ASSUME NEW r, CancelRead(w, r) PROVE faults' = faults
    BY <2>1 DEF CancelRead
  <2>2. ASSUME NEW d, CancelSend(w, d) PROVE faults' = faults \/ Faulty
    BY <2>2 DEF CancelSend
  <2>3. CancelAnswered(w) \/ CancelConfirm(w) => faults' = faults \/ Faulty
    BY DEF CancelAnswered, CancelConfirm
  <2> QED BY <1>3, <2>1, <2>2, <2>3 DEF Cancels
<1>4. ASSUME NEW w \in Worker, Crash(w) \/ StopAdmission(w) PROVE faults' = faults \/ Faulty
  BY <1>4 DEF Crash, StopAdmission
<1>5. CASE \/ Enqueue /\ UNCHANGED <<localVars, acked, faults>>
           \/ \E S \in SUBSET RunId, d \in Lag : RecoverLeases(S, d)
           \/ TimePasses
  BY <1>5 DEF RecoverLeases, TimePasses
<1> QED BY <1>1, <1>2, <1>3, <1>4, <1>5, WorkerConstants DEF WorkersNext

\* While runs are running there is room for a dead letter.
RoomForDeadLetters == Running # {} => Cardinality(deadLetters) < MaxDeadLetters

\* Without a fault, whoever has a lease in force hands it on, gives it back or keeps it.
LEMMA HandsStep ==
  ASSUME CapsInv, Typed, Claims, Acks, Kept, RoomForDeadLetters, WorkersNext, faults' = 0,
         NEW r \in RunId, NEW n, n = runs'[r].token, Leased(r)'
  PROVE  InHand(r, n)'
<1> DEFINE Goal == InHand(r, n)'
<1>0. /\ RecordInv /\ TypeOK /\ runs \in [RunId -> Run]
      /\ exec \in [RunId -> [Token -> ExecRecord]]
      /\ runs'[r].status = "running" /\ runs'[r].due > 0
      /\ \A w \in Worker : dispatch[w] \in Dispatch /\ DispatchFits(dispatch[w])
  BY DEF CapsInv, StoreInv, RecordInv, TypeOK, Typed, Leased, RunIs
<1>1. ~Faulty /\ faults = 0
  <2>1. faults \in Nat
    BY DEF Typed
  <2>2. ~Faulty
    BY <2>1 DEF Faulty
  <2> QED BY <1>0, <2>2, FaultsCount
<1>2. ASSUME UNCHANGED issued
      PROVE  /\ runs[r].status = "running" /\ runs[r].token = n /\ runs[r].due > 0
             /\ n \in Token /\ InHand(r, n)
  <2>1. StoreCalls
    BY <1>0, WorkersUseTheStore
  <2>2. runs[r].status = "running" /\ runs[r].token = n /\ runs[r].due > 0
    BY <1>0, <1>2, <2>1, RunningBefore DEF RunIs
  <2>3. n \in Token
    BY <1>0, <2>2, TokenForm DEF RunIs
  <2>4. InHand(r, runs[r].token)
    BY <1>1, <2>2 DEF Kept, Leased, RunIs
  <2> QED BY <2>2, <2>3, <2>4
<1>3. ASSUME UNCHANGED issued,
             \A v \in Worker : Pending(v) \subseteq Pending(v)',
             Ongoing(r, n) /\ exec[r][n].leaseActive =>
               exec'[r][n].at \in {"handling", "settled"} /\ exec'[r][n].leaseActive
      PROVE  Goal
  <2>1. InHand(r, n)
    BY <1>2, <1>3
  <2>2. CASE Ongoing(r, n) /\ exec[r][n].leaseActive
    BY <1>3, <2>2 DEF InHand, Ongoing
  <2>3. CASE \E w \in Worker : Ref(r, n) \in Pending(w)
    <3>1. \E w \in Worker : Ref(r, n) \in Pending(w)'
      BY <1>3, <2>3
    <3> QED BY <3>1 DEF InHand
  <2> QED BY <2>1, <2>2, <2>3 DEF InHand
<1>4. ASSUME UNCHANGED <<issued, exec>>, \A v \in Worker : Pending(v) \subseteq Pending(v)'
      PROVE  Goal
  BY <1>3, <1>4 DEF Ongoing
<1>5. ASSUME NEW w \in Worker, Dispatching(w) PROVE Goal
  <2>1. ASSUME UNCHANGED <<issued, exec>>, \A v \in Worker \ {w} : dispatch'[v] = dispatch[v],
               Pending(w) \subseteq dispatch'[w].batch \cup dispatch'[w].todo
        PROVE  Goal
    BY <1>4, <2>1 DEF Pending
  <2>2. ASSUME NEW S \in SUBSET RunId, NEW d \in Lag, ClaimRuns(w, S, d) PROVE Goal
    <3>1. /\ \A v \in Worker \ {w} : dispatch'[v] = dispatch[v]
          /\ Pending(w) = {} /\ UNCHANGED exec
          /\ dispatch'[w].batch = {Ref(q, issued[q] + 1) : q \in S}
      BY <1>0, <2>2, ClaimRunsForm DEF ClaimRuns, Pending, DispatchFits
    <3>2. CASE S = {}
      <4>1. UNCHANGED issued
        BY <2>2, <3>2 DEF ClaimRuns, storeVars
      <4> QED BY <2>1, <3>1, <4>1
    <3>3. CASE S # {}
      <4>1. ClaimDueRuns(S, Task, Slots(w), d)
        BY <2>2, <3>3 DEF ClaimRuns
      <4>2. CASE r \in S
        <5>1. n = issued[r] + 1
          BY <4>1, <4>2, ClaimedForm
        <5>2. Ref(r, n) \in dispatch'[w].batch
          BY <3>1, <4>2, <5>1
        <5>3. \E v \in Worker : Ref(r, n) \in Pending(v)'
          BY <5>2 DEF Pending
        <5> QED BY <5>3 DEF InHand
      <4>3. CASE r \notin S
        <5>1. runs'[r] = runs[r]
          BY <4>1, <4>3, ClaimedForm
        <5>2. InHand(r, n)
          BY <1>0, <1>1, <5>1 DEF Kept, Leased, RunIs
        <5>3. CASE Ongoing(r, n) /\ exec[r][n].leaseActive
          BY <3>1, <5>3 DEF InHand, Ongoing
        <5>4. ASSUME NEW v \in Worker, Ref(r, n) \in Pending(v) PROVE Goal
          <6>1. Ref(r, n) \in Pending(v)'
            BY <3>1, <5>4 DEF Pending
          <6> QED BY <6>1 DEF InHand
        <5> QED BY <5>2, <5>3, <5>4 DEF InHand
      <4> QED BY <4>2, <4>3
    <3> QED BY <3>2, <3>3
  <2>3. CASE CheckClaim(w)
    <3>1. UNCHANGED <<issued, exec>>
      BY <2>3 DEF CheckClaim, storeVars
    <3> QED BY <2>1, <2>3, <3>1, CheckClaimForm
  <2>4. CASE ClaimAnswerLost(w)
    BY <1>1, <2>4 DEF ClaimAnswerLost
  <2>5. ASSUME NEW c \in dispatch[w].todo, ReleaseOne(w, c) PROVE Goal
    <3>1. /\ UNCHANGED <<issued, exec>>
          /\ ReleaseClaim(c.run, c.token) \/ (~Holds(c.run, c.token) /\ UNCHANGED storeVars)
      BY <1>1, <2>5 DEF ReleaseOne, ReleaseClaim, storeVars
    <3>2. /\ \A v \in Worker \ {w} : dispatch'[v] = dispatch[v]
          /\ dispatch'[w].batch = dispatch[w].batch /\ dispatch'[w].todo = dispatch[w].todo \ {c}
      BY <2>5, ReleaseOneForm
    <3>3. runs[r].status = "running" /\ runs[r].token = n /\ InHand(r, n)
      BY <1>2, <3>1
    <3>4. Ref(r, n) # c
      <4>1. Ref(r, n).run = r /\ Ref(r, n).token = n
        BY DEF Ref
      <4>2. CASE ReleaseClaim(c.run, c.token)
        <5>1. ASSUME c.run = r PROVE FALSE
          <6>1. runs'[r].status \in {"queued", "retryable"}
            BY <1>0, <4>2, <5>1 DEF ReleaseClaim
          <6> QED BY <1>0, <6>1
        <5> QED BY <4>1, <5>1
      <4>3. CASE ~Holds(c.run, c.token)
        BY <3>3, <4>1, <4>3 DEF Holds, RunIs
      <4> QED BY <3>1, <4>2, <4>3
    <3>5. CASE Ongoing(r, n) /\ exec[r][n].leaseActive
      BY <3>1, <3>5 DEF InHand, Ongoing
    <3>6. ASSUME NEW v \in Worker, Ref(r, n) \in Pending(v) PROVE Goal
      <4>1. Ref(r, n) \in Pending(v)'
        BY <3>2, <3>4, <3>6 DEF Pending
      <4> QED BY <4>1 DEF InHand
    <3> QED BY <3>3, <3>5, <3>6 DEF InHand
  <2>6. ASSUME NEW B, Starts(w, B) PROVE Goal
    <3>1. UNCHANGED storeVars
      BY <2>6 DEF Starts, Start, CloseWindow
    <3>2. /\ runs[r].status = "running" /\ runs[r].token = n /\ InHand(r, n) /\ n \in Token
      BY <1>2, <3>1 DEF storeVars
    <3>3. /\ \A v \in Worker \ {w} : dispatch'[v] = dispatch[v]
          /\ ~open[w] => dispatch'[w].todo = B /\ UNCHANGED exec
      BY <2>6, StartBatchForm DEF Starts
    <3>4. open[w] => \A m \in Token : exec'[r][m] = IF Ref(r, m) \in Unfenced(w, B) THEN Begun(w)
                                                    ELSE exec[r][m]
      BY <2>6, StartedForm DEF Starts
    <3>5. CASE Ongoing(r, n) /\ exec[r][n].leaseActive
      <4>1. exec'[r][n] = exec[r][n] \/ exec'[r][n] = Begun(w)
        BY <3>2, <3>3, <3>4
      <4> QED BY <3>5, <4>1, BegunForm DEF InHand, Ongoing
    <3>6. ASSUME NEW v \in Worker \ {w}, Ref(r, n) \in Pending(v) PROVE Goal
      <4>1. Ref(r, n) \in Pending(v)'
        BY <3>3, <3>6 DEF Pending
      <4> QED BY <4>1 DEF InHand
    <3>7. CASE Ref(r, n) \in Pending(w)
      <4>1. Ref(r, n).run = r /\ Ref(r, n).token = n
        BY DEF Ref
      <4>2. Ref(r, n) \in B
        <5>1. CASE Start(w) /\ B = dispatch[w].batch
          <6>1. dispatch[w].todo = {}
            BY <1>0, <5>1 DEF Start, DispatchFits
          <6> QED BY <3>7, <5>1, <6>1 DEF Pending
        <5>2. CASE CloseWindow(w) /\ WindowIsQuiet(w) /\ B = dispatch[w].keep
          <6>1. dispatch[w].at = "verifying" /\ dispatch[w].todo = {}
            BY <5>2, QuietWindowForm
          <6>2. Holds(r, n)
            BY <3>2 DEF Holds, RunIs
          <6> QED BY <3>7, <4>1, <5>2, <6>1, <6>2 DEF Pending, Kept, ReadSound
        <5> QED BY <2>6, <5>1, <5>2 DEF Starts
      <4>3. CASE ~open[w]
        <5>1. Ref(r, n) \in Pending(w)'
          BY <3>3, <4>2, <4>3 DEF Pending
        <5> QED BY <5>1 DEF InHand
      <4>4. CASE open[w]
        <5>1. r \notin fence[w]
          BY <3>2 DEF Acks, AcksOf, RunIs
        <5>2. Ref(r, n) \in Unfenced(w, B)
          BY <4>1, <4>2, <5>1 DEF Unfenced
        <5>3. exec'[r][n] = Begun(w)
          BY <3>2, <3>4, <4>4, <5>2
        <5> QED BY <5>3, BegunForm DEF InHand, Ongoing
      <4> QED BY <4>3, <4>4
    <3> QED BY <3>2, <3>5, <3>6, <3>7 DEF InHand
  <2>7. CASE OpenWindow(w)
    <3>1. UNCHANGED <<issued, exec>> /\ dispatch[w].todo = {}
      BY <1>0, <2>7 DEF OpenWindow, storeVars, DispatchFits
    <3> QED BY <2>1, <2>7, <3>1, OpenWindowForm DEF Pending
  <2>8. ASSUME NEW c \in dispatch[w].todo, ReadClaim(w, c) PROVE Goal
    <3>1. UNCHANGED <<issued, exec>>
      BY <2>8 DEF ReadClaim, storeVars
    <3> QED BY <2>1, <2>8, <3>1, ReadClaimForm
  <2>9. CASE CloseWindow(w) /\ ~WindowIsQuiet(w)
    <3>1. UNCHANGED issued
      BY <2>9 DEF CloseWindow, storeVars
    <3> QED BY <2>1, <2>9, <3>1, NoisyWindowForm
  <2> QED BY <1>5, <2>2, <2>3, <2>4, <2>5, <2>6, <2>7, <2>8, <2>9, DispatchingSteps
<1>6. ASSUME NEW q \in RunId, NEW m \in Token, Executing(q, m) PROVE Goal
  <2>1. UNCHANGED dispatch
    BY <1>6, ExecutingLeaves
  <2>2. ASSUME UNCHANGED issued, Continues(r, n), SameLease(r, n) PROVE Goal
    BY <1>3, <2>1, <2>2 DEF Pending, Continues, SameLease, Ongoing
  <2>3. CASE Heartbeat(q, m)
    <3>1. UNCHANGED issued
      BY <2>3 DEF Heartbeat, RenewLease, storeVars
    <3>2. runs[r].status = "running" /\ runs[r].token = n /\ runs[r].due > 0 /\ n \in Token
      BY <1>2, <3>1
    <3>3. q = r /\ m = n => Fenced(q, m, 0)
      <4>1. runs[r] \in Run
        BY <1>0
      <4>2. runs[r].due \in Int
        BY <4>1 DEF Run
      <4> QED BY <3>2, <4>2 DEF Fenced, Holds, RunIs, Elapsed
    <3>4. Continues(r, n) /\ SameLease(r, n)
      BY <2>3, <3>2, <3>3, HeartbeatForm
    <3> QED BY <2>2, <3>1, <3>4
  <2>4. CASE LoseRenewal(q, m)
    BY <1>1, <2>4 DEF LoseRenewal
  <2>5. CASE Timeout(q, m)
    <3>1. UNCHANGED issued
      BY <2>5 DEF Timeout, storeVars
    <3> QED BY <1>2, <2>2, <2>5, <3>1, TimeoutForm
  <2>6. CASE HandlerSettles(q, m)
    <3>1. UNCHANGED issued
      BY <2>6 DEF HandlerSettles, storeVars
    <3>2. n \in Token
      BY <1>2, <3>1
    <3>3. /\ exec'[q][m].at = "settled" /\ exec'[q][m].leaseActive = exec[q][m].leaseActive
          /\ (q = r /\ m = n) \/ exec'[r][n] = exec[r][n]
      BY <2>6, <3>2, HandlerSettlesForm
    <3> QED BY <1>3, <2>1, <3>1, <3>3 DEF Pending, Ongoing
  <2>7. ASSUME NEW delay \in Delay, NEW d \in Lag, Commit(q, m, delay, d) PROVE Goal
    <3>1. UNCHANGED issued
      BY <2>7 DEF Commit, Outcome, CompleteRun, MarkRunRetryable, DeadLetterRun, storeVars
    <3>2. /\ runs[r].status = "running" /\ runs[r].token = n /\ runs[r].due > 0
          /\ n \in Token /\ InHand(r, n)
      BY <1>2, <3>1
    <3>3. /\ At(q, m, "settled")
          /\ (q = r /\ m = n) \/ exec'[r][n] = exec[r][n]
      BY <2>7, <3>2, CommitForm
    <3>4. CASE ~(q = r /\ m = n)
      BY <1>3, <2>1, <3>1, <3>3, <3>4 DEF Pending, Ongoing
    <3>5. CASE q = r /\ m = n
      <4>1. exec[r][n].leaseActive
        <5>1. \A w \in Worker : Ref(r, n) \notin Pending(w)
          <6>1. Ref(r, n).run = r /\ Ref(r, n).token = n
            BY DEF Ref
          <6>2. exec[r][n] # NoExecution
            BY <3>3, <3>5, ExecutionForm DEF At
          <6> QED BY <6>1, <6>2 DEF Claims, PendingSound
        <5> QED BY <3>2, <5>1 DEF InHand
      <4>2. Outcome(r, n, delay, d)
        BY <2>7, <3>5, <4>1 DEF Commit
      <4>3. CASE CompleteRun(r, n, d)
        <5>1. runs'[r] = Ended(r, "completed", d) /\ "completed" \in Status
          BY <1>0, <4>3, StatusFacts DEF CompleteRun
        <5> QED BY <1>0, <5>1, EndedFields
      <4>4. CASE MarkRunRetryable(r, n, delay, d)
        <5>1. runs[r] \in Run
          BY <1>0
        <5>2. runs'[r].status = "retryable"
          BY <1>0, <4>4, <5>1 DEF MarkRunRetryable, Run
        <5> QED BY <1>0, <5>2
      <4>5. CASE DeadLetterRun(r, n, d)
        <5>1. runs'[r] = Ended(r, "dead-lettered", d) /\ "dead-lettered" \in Status
          BY <1>0, <4>5, StatusFacts DEF DeadLetterRun
        <5> QED BY <1>0, <5>1, EndedFields
      <4>6. CASE ~Fenced(r, n, d)
        <5>1. runs[r].due \in Int /\ d \in Nat
          BY <1>0, LagIsNat DEF Run
        <5> QED BY <3>2, <4>6, <5>1 DEF Fenced, Holds, RunIs, Elapsed
      <4>7. CASE Cardinality(deadLetters) >= MaxDeadLetters
        <5>1. r \in Running
          BY <3>2 DEF Running, RunIs
        <5>2. Cardinality(deadLetters) \in Nat /\ MaxDeadLetters \in Nat
          BY FS_CardinalityType, StoreConstants DEF CapsInv
        <5> QED BY <4>7, <5>1, <5>2 DEF RoomForDeadLetters
      <4> QED BY <1>1, <4>2, <4>3, <4>4, <4>5, <4>6, <4>7 DEF Outcome
    <3> QED BY <3>4, <3>5
  <2> QED BY <1>6, <2>3, <2>4, <2>5, <2>6, <2>7 DEF Executing
<1>7. ASSUME NEW w \in Worker, Cancels(w) PROVE Goal
  <2>1. /\ UNCHANGED issued
        /\ UNCHANGED <<dispatch, exec>> \/ \E q \in RunId : ApplyLocal(w, q)
    BY <1>0, <1>7, CancelsForm DEF CancelRun, storeVars
  <2>2. CASE UNCHANGED <<dispatch, exec>>
    BY <1>4, <2>1, <2>2 DEF Pending
  <2>3. ASSUME NEW q \in RunId, ApplyLocal(w, q) PROVE Goal
    <3>1. n \in Token
      BY <1>2, <2>1
    <3>2. /\ \A v \in Worker \ {w} : dispatch'[v] = dispatch[v]
          /\ SameClaims(w) /\ Continues(r, n) /\ SameLease(r, n)
      BY <2>3, <3>1, ApplyLocalForm
    <3>3. \A v \in Worker : Pending(v)' = Pending(v)
      BY <3>2 DEF Pending, SameClaims
    <3> QED BY <1>3, <2>1, <3>2, <3>3 DEF Continues, SameLease, Ongoing
  <2> QED BY <2>1, <2>2, <2>3
<1>8. ASSUME NEW w \in Worker, Crash(w) PROVE Goal
  BY <1>1, <1>8 DEF Crash
<1>9. CASE TimePasses
  <2>1. UNCHANGED issued
    BY <1>9 DEF TimePasses, Tick
  <2>2. n \in Token
    BY <1>2, <2>1
  <2>3. Continues(r, n) /\ SameLease(r, n) /\ \A w \in Worker : SameClaims(w)
    BY <1>9, <2>2, TimePassesForm
  <2>4. \A v \in Worker : Pending(v)' = Pending(v)
    BY <2>3 DEF Pending, SameClaims
  <2> QED BY <1>3, <2>1, <2>3, <2>4 DEF Continues, SameLease, Ongoing
<1>10. CASE \/ Enqueue /\ UNCHANGED <<localVars, acked, faults>>
            \/ \E w \in Worker : StopAdmission(w)
            \/ \E S \in SUBSET RunId, d \in Lag : RecoverLeases(S, d)
  <2>1. UNCHANGED <<issued, dispatch, exec>>
    BY <1>10 DEF StopAdmission, RecoverLeases, localVars, Enqueue, AppendRun,
                 RecoverStaleLeases, storeVars
  <2> QED BY <1>4, <2>1 DEF Pending
<1> QED BY <1>5, <1>6, <1>7, <1>8, <1>9, <1>10, WorkerConstants DEF WorkersNext

LeaseInv == CancellationInv /\ Kept

\* Nothing was leased at first.
LEMMA LeaseInit == WorkersInit => LeaseInv
<1> SUFFICES ASSUME WorkersInit PROVE Kept
  BY CancellationInit DEF LeaseInv
<1>1. \A r \in RunId : ~RunIs(r, "running")
  BY DEF WorkersInit, Init, RunIs
<1>2. \A w \in Worker : dispatch[w].at = "idle"
  BY IdleForm DEF WorkersInit
<1> QED BY <1>1, <1>2 DEF Kept, ReadSound, Leased

\* With room for dead letters every step keeps the invariant.
LEMMA LeaseStep ==
  ASSUME LeaseInv, RoomForDeadLetters, [WorkersNext]_vars
  PROVE  LeaseInv'
<1>1. CancellationInv /\ WorkersInv /\ CapsInv /\ RecordInv /\ Typed /\ Claims /\ Acks /\ Kept
  BY DEF LeaseInv, CancellationInv, WorkersInv, CapsInv, StoreInv
<1>2. \A w \in Worker : ReadSound(w)'
  BY <1>1, ReadSoundStep DEF Kept
<1>3. CASE WorkersNext
  <2>1. ASSUME faults' = 0, NEW r \in RunId, NEW n, n = runs'[r].token, Leased(r)'
        PROVE  InHand(r, n)'
    BY <1>1, <1>3, <2>1, HandsStep
  <2>2. Kept'
    BY <1>2, <2>1 DEF Kept, InHand, Leased, Ongoing, Pending, RunIs
  <2> QED BY <1>1, <2>2, CancellationStep DEF LeaseInv
<1>4. CASE UNCHANGED vars
  <2>1. Kept'
    BY <1>1, <1>2, <1>4 DEF Kept, Leased, InHand, Pending, Ongoing, RunIs, vars, storeVars,
                            localVars
  <2> QED BY <1>1, <2>1, CancellationStep DEF LeaseInv
<1> QED BY <1>3, <1>4

\* Without a fault no claim is forgotten while there is room for dead letters (an execution
\* that cannot bury its run leaves the lease to recovery): NoOrphanedClaim of JobsWorkers.
THEOREM ClaimsAreKept == WorkersSpec /\ []RoomForDeadLetters => []NoOrphanedClaim
<1>1. LeaseInv => NoOrphanedClaim
  <2> SUFFICES ASSUME LeaseInv, faults = 0, NEW r \in RunId,
                      RunIs(r, "running"), runs[r].due > 0
               PROVE  \/ Ongoing(r, runs[r].token)
                      \/ \E w \in Worker : Ref(r, runs[r].token)
                                             \in dispatch[w].batch \cup dispatch[w].todo
    BY DEF NoOrphanedClaim, Ref
  <2> QED BY DEF LeaseInv, Kept, Leased, InHand, Pending
<1>2. LeaseInv /\ RoomForDeadLetters /\ [WorkersNext]_vars => LeaseInv'
  BY LeaseStep
<1> QED BY <1>1, <1>2, LeaseInit, PTL DEF WorkersSpec

\* Dead letters are of different runs, none of which is running.
LEMMA FewDeadLetters ==
  ASSUME CapsInv, Cardinality(RunId) <= MaxDeadLetters
  PROVE  RoomForDeadLetters
<1> SUFFICES ASSUME Running # {} PROVE Cardinality(deadLetters) < MaxDeadLetters
  BY DEF RoomForDeadLetters
<1>1. /\ deadLetters \subseteq DeadLetter
      /\ \A x \in deadLetters : x.runId \in RunId /\ RunIs(x.runId, "dead-lettered")
      /\ \A x, y \in deadLetters : x.runId = y.runId => x = y
  <2>1. deadLetters \subseteq DeadLetter /\ DeadLettersMatch
    BY DEF CapsInv, StoreInv, RecordInv, TypeOK
  <2>2. \A x \in deadLetters : x.runId \in RunId /\ RunIs(x.runId, "dead-lettered")
    BY <2>1 DEF DeadLetter, DeadLettersMatch
  <2> QED BY <2>1, <2>2 DEF DeadLettersMatch
<1>2. PICK q \in RunId : RunIs(q, "running")
  BY DEF Running
<1> DEFINE R == RunId \ {q}
           f == [x \in deadLetters |-> x.runId]
<1>3. f \in [deadLetters -> R] /\ \A x \in deadLetters : f[x] = x.runId
  BY <1>1, <1>2 DEF RunIs
<1>4. \A x, y \in deadLetters : f[x] = f[y] => x = y
  BY <1>1, <1>3
<1> HIDE DEF f
<1>5. f \in Injection(deadLetters, R)
  BY <1>3, <1>4 DEF Injection, IsInjective
<1>6. IsFiniteSet(R) /\ Cardinality(R) = Cardinality(RunId) - 1
      /\ Cardinality(RunId) \in Nat
  BY <1>2, StoreConstants, FS_RemoveElement, FS_CardinalityType
<1> HIDE DEF R
<1>7. IsFiniteSet(deadLetters) /\ Cardinality(deadLetters) <= Cardinality(R)
      /\ Cardinality(deadLetters) \in Nat
  BY <1>5, <1>6, FS_Injection, FS_CardinalityType
<1> QED BY <1>6, <1>7, StoreConstants

\* NoOrphanedClaim of JobsWorkers, where every run's dead letter fits.
THEOREM ClaimsAreKeptWithRoom ==
    Cardinality(RunId) <= MaxDeadLetters => (WorkersSpec => []NoOrphanedClaim)
<1> SUFFICES ASSUME Cardinality(RunId) <= MaxDeadLetters PROVE WorkersSpec => []NoOrphanedClaim
  OBVIOUS
<1>1. LeaseInv => RoomForDeadLetters
  BY FewDeadLetters DEF LeaseInv, CancellationInv, WorkersInv
<1>2. LeaseInv /\ [WorkersNext]_vars => LeaseInv'
  BY <1>1, LeaseStep
<1> QED BY <1>1, <1>2, LeaseInit, ClaimsAreKept, PTL DEF WorkersSpec

--------------------------------------------------------------------------------
(* Punctual workers.                                                       *)

\* What a renewal makes of the runs.
LEMMA RenewedForm ==
  ASSUME TypeOK, NEW q \in RunId, NEW m, RenewLease(q, m, 0)
  PROVE  /\ runs'[q].status = "running" /\ runs'[q].token = m
         /\ runs'[q].due >= runs[q].due /\ runs'[q].due >= LeaseMs
         /\ \A r \in RunId \ {q} : runs'[r] = runs[r]
<1>1. runs \in [RunId -> Run] /\ runs[q] \in Run /\ runs[q].due \in Int /\ LeaseMs \in Nat
  BY StoreConstants DEF TypeOK, Run
<1>2. runs[q].status = "running" /\ runs[q].token = m
  BY DEF RenewLease, Fenced, Holds, RunIs
<1>3. PICK x \in Int : x = (IF runs[q].due >= LeaseMs - 0 THEN runs[q].due ELSE LeaseMs - 0)
                       /\ x >= runs[q].due /\ x >= LeaseMs
  BY <1>1
<1>4. runs' = [runs EXCEPT ![q] = [runs[q] EXCEPT !.due = x]]
  BY <1>1, <1>3 DEF RenewLease
<1>5. runs'[q] = [runs[q] EXCEPT !.due = x] /\ \A r \in RunId \ {q} : runs'[r] = runs[r]
  BY <1>1, <1>4
<1>6. runs'[q].status = runs[q].status /\ runs'[q].token = runs[q].token /\ runs'[q].due = x
  BY <1>1, <1>5 DEF Run
<1> QED BY <1>2, <1>3, <1>5, <1>6

\* A lease in force stays with its claim, unless the claim is being given back or its
\* execution commits: the run is cancelled, or the lease lasts as long as it did, or a unit
\* of time passes.
LEMMA LeaseStays ==
  ASSUME RecordInv, Typed, WorkersNext, NEW r \in RunId, NEW n \in Token,
         Holds(r, n), runs[r].due > 0, exec[r][n].at # "settled",
         \A w \in Worker : dispatch[w].at = "releasing" => Ref(r, n) \notin dispatch[w].todo
  PROVE  \/ runs'[r].status = "cancelled"
         \/ /\ runs'[r].status = "running" /\ runs'[r].token = n
            /\ runs'[r].due >= runs[r].due \/ (TimePasses /\ runs'[r].due = runs[r].due - 1)
<1> DEFINE Goal == \/ runs'[r].status = "cancelled"
                   \/ /\ runs'[r].status = "running" /\ runs'[r].token = n
                      /\ \/ runs'[r].due >= runs[r].due
                         \/ TimePasses /\ runs'[r].due = runs[r].due - 1
<1>0. /\ TypeOK /\ runs \in [RunId -> Run] /\ runs[r] \in Run /\ runs[r].due \in Int
      /\ runs[r].status = "running" /\ runs[r].token = n
  BY DEF RecordInv, TypeOK, Run, Holds, RunIs
<1>1. ASSUME runs'[r] = runs[r] PROVE Goal
  BY <1>0, <1>1
<1>2. ASSUME UNCHANGED storeVars PROVE Goal
  BY <1>1, <1>2 DEF storeVars
<1>3. CASE Enqueue
  BY <1>0, <1>1, <1>3 DEF Enqueue, AppendRun, RunIs
<1>4. ASSUME NEW w \in Worker, Dispatching(w) PROVE Goal
  <2>1. ASSUME NEW S \in SUBSET RunId, NEW d \in Lag, ClaimRuns(w, S, d) PROVE Goal
    <3>1. CASE S = {}
      BY <1>2, <2>1, <3>1 DEF ClaimRuns
    <3>2. CASE S # {}
      <4>1. ClaimDueRuns(S, Task, Slots(w), d)
        BY <2>1, <3>2 DEF ClaimRuns
      <4>2. runs'[r] = runs[r]
        BY <1>0, <4>1, ClaimedForm
      <4> QED BY <1>1, <4>2
    <3> QED BY <3>1, <3>2
  <2>2. ASSUME NEW c \in dispatch[w].todo, ReleaseOne(w, c) PROVE Goal
    <3>1. c \in ClaimRef /\ dispatch[w].at = "releasing"
      BY <2>2, ReleaseOneForm
    <3>2. CASE ReleaseClaim(c.run, c.token)
      <4>1. c.run # r
        <5>1. c = Ref(c.run, c.token)
          BY <3>1 DEF ClaimRef, Ref
        <5> QED BY <1>0, <2>2, <3>1, <3>2, <5>1 DEF ReleaseClaim, Holds
      <4>2. runs'[r] = runs[r]
        BY <1>0, <3>2, <4>1 DEF ReleaseClaim
      <4> QED BY <1>1, <4>2
    <3> QED BY <1>2, <2>2, <3>2 DEF ReleaseOne
  <2>3. CASE \/ CheckClaim(w) \/ ClaimAnswerLost(w) \/ Start(w) \/ OpenWindow(w)
             \/ CloseWindow(w) \/ \E c \in dispatch[w].todo : ReadClaim(w, c)
    BY <1>2, <2>3 DEF CheckClaim, ClaimAnswerLost, Start, OpenWindow, CloseWindow, ReadClaim
  <2> QED BY <1>4, <2>1, <2>2, <2>3 DEF Dispatching
<1>5. ASSUME NEW q \in RunId, NEW m \in Token, Executing(q, m) PROVE Goal
  <2>1. CASE Heartbeat(q, m)
    <3>1. CASE Fenced(q, m, 0)
      <4>1. RenewLease(q, m, 0)
        BY <2>1, <3>1 DEF Heartbeat
      <4>2. CASE q = r
        <5>1. m = n
          BY <1>0, <3>1, <4>2 DEF Fenced, Holds
        <5> QED BY <1>0, <4>1, <4>2, <5>1, RenewedForm
      <4>3. CASE q # r
        BY <1>0, <1>1, <4>1, <4>3, RenewedForm
      <4> QED BY <4>2, <4>3
    <3>2. CASE ~Fenced(q, m, 0)
      BY <1>2, <2>1, <3>2 DEF Heartbeat
    <3> QED BY <3>1, <3>2
  <2>2. CASE LoseRenewal(q, m) \/ Timeout(q, m) \/ HandlerSettles(q, m)
    BY <1>2, <2>2 DEF LoseRenewal, Timeout, HandlerSettles
  <2>3. ASSUME NEW delay \in Delay, NEW d \in Lag, Commit(q, m, delay, d) PROVE Goal
    <3>1. ASSUME Fenced(q, m, d) PROVE q # r
      BY <1>0, <2>3, <3>1 DEF Commit, At, Fenced, Holds
    <3>2. CASE CompleteRun(q, m, d)
      <4>1. runs'[r] = runs[r]
        BY <1>0, <3>1, <3>2 DEF CompleteRun
      <4> QED BY <1>1, <4>1
    <3>3. CASE MarkRunRetryable(q, m, delay, d)
      <4>1. runs'[r] = runs[r]
        BY <1>0, <3>1, <3>3 DEF MarkRunRetryable
      <4> QED BY <1>1, <4>1
    <3>4. CASE DeadLetterRun(q, m, d)
      <4>1. runs'[r] = runs[r]
        BY <1>0, <3>1, <3>4 DEF DeadLetterRun
      <4> QED BY <1>1, <4>1
    <3> QED BY <1>2, <2>3, <3>2, <3>3, <3>4 DEF Commit, Outcome
  <2> QED BY <1>5, <2>1, <2>2, <2>3 DEF Executing
<1>6. ASSUME NEW w \in Worker, Cancels(w) PROVE Goal
  <2>1. ASSUME NEW q \in RunId, NEW k, NEW d \in Lag, CancelRun(q, k, d) PROVE Goal
    <3>1. CASE q = r
      <4>1. runs'[r] = Ended(r, "cancelled", d) /\ "cancelled" \in Status
        BY <1>0, <2>1, <3>1, StatusFacts DEF CancelRun
      <4> QED BY <1>0, <4>1, EndedFields
    <3>2. CASE q # r
      <4>1. runs'[r] = runs[r]
        BY <1>0, <2>1, <3>2 DEF CancelRun
      <4> QED BY <1>1, <4>1
    <3> QED BY <3>1, <3>2
  <2>2. \/ UNCHANGED storeVars
        \/ \E q \in RunId, k \in Token \cup {NoToken}, d \in Lag : CancelRun(q, k, d)
    BY <1>6, CancelsForm
  <2> QED BY <1>2, <2>1, <2>2
<1>7. ASSUME NEW S \in SUBSET RunId, NEW d \in Lag, RecoverLeases(S, d) PROVE Goal
  <2>1. RecoverStaleLeases(S, d) /\ d \in Nat /\ RecoveryAfterMs \in Nat
    BY <1>7, LagIsNat, StoreConstants DEF RecoverLeases
  <2>2. r \notin Stale(d)
    BY <1>0, <2>1 DEF Stale, Elapsed
  <2>3. runs'[r] = runs[r]
    BY <2>1, <2>2 DEF RecoverStaleLeases
  <2> QED BY <1>1, <2>3
<1>8. CASE TimePasses
  <2>1. runs'[r] = [runs[r] EXCEPT !.due = Sooner(runs[r].due)]
    BY <1>0, <1>8, StatusFacts DEF TimePasses, Tick
  <2>2. Sooner(runs[r].due) = runs[r].due - 1
    BY <1>0, StoreConstants DEF Sooner
  <2>3. PICK x \in Int : x = runs[r].due - 1
    BY <1>0
  <2>4. runs'[r].status = "running" /\ runs'[r].token = n /\ runs'[r].due = x
    BY <1>0, <2>1, <2>2, <2>3 DEF Run
  <2> QED BY <1>8, <2>3, <2>4
<1>9. CASE \E w \in Worker : Crash(w) \/ StopAdmission(w)
  BY <1>2, <1>9 DEF Crash, StopAdmission
<1> QED BY <1>3, <1>4, <1>5, <1>6, <1>7, <1>8, <1>9, WorkerConstants DEF WorkersNext

\* The claims of a batch that its worker may still start: all of them, but while the answer
\* is awaited only as long as it would not come too late.
Startable(w) ==
    {c \in dispatch[w].batch : dispatch[w].at = "claimed" => SurvivesHeartbeat(w)}

\* The claims of a run whose handlers are at work or may still be started.
Entitled(r) ==
    Handling(r) \cup {n \in Token : \E w \in Worker : Ref(r, n) \in Startable(w)}

\* Where a handler that is at work was before the step.
LEMMA HandlingBefore ==
  ASSUME RecordInv, Typed, WorkersNext, NEW r \in RunId, NEW n \in Token,
         exec'[r][n].at = "handling"
  PROVE  \/ /\ At(r, n, "handling")
            /\ \/ SameLease(r, n) /\ SameBeat(r, n)
               \/ Heartbeat(r, n)
               \/ LoseRenewal(r, n)
               \/ TimePasses /\ SameLease(r, n) /\ ~exec'[r][n].beaten
         \/ \E w \in Worker :
              /\ Ref(r, n) \in dispatch[w].batch /\ dispatch[w].at \in {"ready", "verifying"}
              /\ exec'[r][n] = Begun(w) /\ UNCHANGED storeVars
<1> DEFINE Same == At(r, n, "handling") /\ SameLease(r, n) /\ SameBeat(r, n)
           Goal == \/ /\ At(r, n, "handling")
                      /\ \/ SameLease(r, n) /\ SameBeat(r, n)
                         \/ Heartbeat(r, n)
                         \/ LoseRenewal(r, n)
                         \/ TimePasses /\ SameLease(r, n) /\ ~exec'[r][n].beaten
                   \/ \E w \in Worker :
                        /\ Ref(r, n) \in dispatch[w].batch
                        /\ dispatch[w].at \in {"ready", "verifying"}
                        /\ exec'[r][n] = Begun(w) /\ UNCHANGED storeVars
<1>1. exec'[r][n] = exec[r][n] => Same
  BY DEF At, SameLease, SameBeat
<1>2. Continues(r, n) => At(r, n, "handling")
  BY DEF Continues, At
<1>3. ASSUME NEW w \in Worker, Dispatching(w) PROVE Goal
  <2>1. ASSUME NEW B, Starts(w, B) PROVE Goal
    <3>1. CASE ~open[w]
      BY <1>1, <2>1, <3>1, StartBatchForm DEF Starts
    <3>2. CASE open[w]
      <4>1. exec'[r][n] = IF Ref(r, n) \in Unfenced(w, B) THEN Begun(w) ELSE exec[r][n]
        BY <2>1, <3>2, StartedForm DEF Starts
      <4>2. CASE Ref(r, n) \in Unfenced(w, B)
        <5>1. Ref(r, n) \in dispatch[w].batch
          BY <2>1, <4>2 DEF Starts, Unfenced
        <5>2. dispatch[w].at \in {"ready", "verifying"} /\ UNCHANGED storeVars
          BY <2>1 DEF Starts, Start, CloseWindow
        <5> QED BY <4>1, <4>2, <5>1, <5>2
      <4> QED BY <1>1, <4>1, <4>2
    <3> QED BY <3>1, <3>2
  <2>2. ASSUME NEW c, ReleaseOne(w, c) \/ ReadClaim(w, c) PROVE Same
    BY <1>1, <2>2 DEF ReleaseOne, ReadClaim
  <2>3. CASE \/ CheckClaim(w) \/ ClaimAnswerLost(w) \/ OpenWindow(w)
             \/ \E S \in SUBSET RunId, d \in Lag : ClaimRuns(w, S, d)
    BY <1>1, <2>3 DEF ClaimRuns, CheckClaim, ClaimAnswerLost, OpenWindow
  <2>4. CASE CloseWindow(w) /\ ~WindowIsQuiet(w)
    BY <1>1, <2>4, NoisyWindowForm
  <2> QED BY <1>3, <2>1, <2>2, <2>3, <2>4, DispatchingSteps
<1>4. ASSUME NEW q \in RunId, NEW m \in Token, Executing(q, m) PROVE Goal
  <2>1. CASE Heartbeat(q, m)
    <3>1. Continues(r, n) /\ ((q = r /\ m = n) \/ (SameLease(r, n) /\ SameBeat(r, n)))
      BY <2>1, HeartbeatForm
    <3> QED BY <1>2, <2>1, <3>1
  <2>2. CASE LoseRenewal(q, m)
    <3>1. Ongoing(q, m) /\ exec' = LostLease(q, m)
      BY <2>2 DEF LoseRenewal, Ongoing, At
    <3>2. /\ Continues(r, n) /\ SameBeat(r, n)
          /\ (q = r /\ m = n) \/ SameLease(r, n)
      BY <3>1, LostLeaseForm
    <3> QED BY <1>2, <2>2, <3>2
  <2>3. CASE Timeout(q, m)
    BY <1>2, <2>3, TimeoutForm
  <2>4. CASE HandlerSettles(q, m)
    <3>1. exec'[q][m].at = "settled" /\ ((q = r /\ m = n) \/ exec'[r][n] = exec[r][n])
      BY <2>4, HandlerSettlesForm
    <3> QED BY <1>1, <3>1
  <2>5. ASSUME NEW delay \in Delay, NEW d \in Lag, Commit(q, m, delay, d) PROVE Same
    <3>1. exec'[r][n] = IF q = r /\ m = n THEN Over ELSE exec[r][n]
      BY <2>5, CommitForm
    <3> QED BY <1>1, <3>1, ExecutionForm
  <2> QED BY <1>4, <2>1, <2>2, <2>3, <2>4, <2>5 DEF Executing
<1>5. ASSUME NEW w \in Worker, Cancels(w) PROVE Same
  <2>1. UNCHANGED exec \/ \E q \in RunId : ApplyLocal(w, q)
    BY <1>5, CancelsForm
  <2> QED BY <1>1, <1>2, <2>1, ApplyLocalForm
<1>6. ASSUME NEW w \in Worker, Crash(w) PROVE Same
  <2>1. exec'[r][n] = Over \/ exec'[r][n] = exec[r][n]
    BY <1>6, CrashForm
  <2> QED BY <1>1, <2>1, ExecutionForm
<1>7. CASE TimePasses
  <2>1. Continues(r, n) /\ SameLease(r, n) /\ (Ongoing(r, n) => ~exec'[r][n].beaten)
    BY <1>7, TimePassesForm
  <2> QED BY <1>2, <1>7, <2>1 DEF Ongoing, At
<1>8. CASE \/ Enqueue /\ UNCHANGED <<localVars, acked, faults>>
           \/ \E w \in Worker : StopAdmission(w)
           \/ \E S \in SUBSET RunId, d \in Lag : RecoverLeases(S, d)
  BY <1>1, <1>8 DEF StopAdmission, RecoverLeases, localVars
<1> QED BY <1>3, <1>4, <1>5, <1>6, <1>7, <1>8, WorkerConstants DEF WorkersNext

\* Where a claim that may be started was before the step.
LEMMA StartableBefore ==
  ASSUME RecordInv, Typed, WorkersNext, NEW w \in Worker, NEW r \in RunId, NEW n \in Token,
         Ref(r, n) \in Startable(w)'
  PROVE  \/ \E S \in SUBSET RunId, d \in Lag :
              /\ ClaimDueRuns(S, Task, Slots(w), d)
              /\ r \in S /\ n = issued[r] + 1
              /\ dispatch'[w].at = "claimed" /\ dispatch'[w].age = d
         \/ /\ Ref(r, n) \in Startable(w)
            /\ \/ TimePasses
               \/ dispatch'[w].at # "claimed"
               \/ dispatch'[w].at = dispatch[w].at /\ dispatch'[w].age = dispatch[w].age
<1> DEFINE Old == /\ Ref(r, n) \in Startable(w)
                  /\ \/ TimePasses
                     \/ dispatch'[w].at # "claimed"
                     \/ /\ dispatch'[w].at = dispatch[w].at
                        /\ dispatch'[w].age = dispatch[w].age
           New == \E S \in SUBSET RunId, d \in Lag :
                    /\ ClaimDueRuns(S, Task, Slots(w), d)
                    /\ r \in S /\ n = issued[r] + 1
                    /\ dispatch'[w].at = "claimed" /\ dispatch'[w].age = d
<1>0. /\ Ref(r, n) \in dispatch'[w].batch
      /\ dispatch'[w].at = "claimed" => LeaseMs - dispatch'[w].age > Interval
      /\ dispatch[w] \in Dispatch
  BY DEF Startable, SurvivesHeartbeat, Typed
<1>1. ASSUME dispatch'[w].at = dispatch[w].at, dispatch'[w].batch = dispatch[w].batch,
             dispatch'[w].age = dispatch[w].age
      PROVE  Old
  BY <1>0, <1>1 DEF Startable, SurvivesHeartbeat
<1>2. ASSUME dispatch[w].at # "claimed", dispatch'[w].at # "claimed",
             dispatch'[w].batch \subseteq dispatch[w].batch
      PROVE  Old
  BY <1>0, <1>2 DEF Startable
<1>3. ASSUME NEW v \in Worker, Dispatching(v) PROVE Old \/ New
  <2>1. ASSUME v # w, \A u \in Worker \ {v} : dispatch'[u] = dispatch[u] PROVE Old
    BY <1>1, <2>1
  <2>2. ASSUME NEW S \in SUBSET RunId, NEW d \in Lag, ClaimRuns(v, S, d) PROVE Old \/ New
    <3>1. /\ \A u \in Worker \ {v} : dispatch'[u] = dispatch[u]
          /\ dispatch'[v].at = "claimed" /\ dispatch'[v].age = d
          /\ dispatch'[v].batch = {Ref(q, issued[q] + 1) : q \in S}
      BY <2>2, ClaimRunsForm
    <3>2. CASE v = w
      <4>1. Ref(r, n) \in {Ref(q, issued[q] + 1) : q \in S}
        BY <1>0, <3>1, <3>2
      <4>2. Ref(r, n).run = r /\ Ref(r, n).token = n
        BY DEF Ref
      <4>3. r \in S /\ n = issued[r] + 1
        BY <4>1, <4>2, TakenForm
      <4>4. ClaimDueRuns(S, Task, Slots(v), d)
        BY <2>2, <4>3 DEF ClaimRuns
      <4> QED BY <3>1, <3>2, <4>3, <4>4
    <3> QED BY <2>1, <3>1, <3>2
  <2>3. CASE CheckClaim(v)
    <3>1. /\ \A u \in Worker \ {v} : dispatch'[u] = dispatch[u]
          /\ dispatch'[v].at # "claimed" /\ dispatch'[v].batch \subseteq dispatch[v].batch
          /\ dispatch'[v].batch # {} => SurvivesHeartbeat(v)
      BY <2>3, CheckClaimForm
    <3>2. CASE v = w
      BY <1>0, <3>1, <3>2 DEF Startable
    <3> QED BY <2>1, <3>1, <3>2
  <2>4. CASE ClaimAnswerLost(v)
    <3>1. /\ \A u \in Worker \ {v} : dispatch'[u] = dispatch[u]
          /\ dispatch'[v].batch = {}
      BY <2>4, ForgottenForm DEF ClaimAnswerLost
    <3> QED BY <1>0, <2>1, <3>1
  <2>5. ASSUME NEW c \in dispatch[v].todo, ReleaseOne(v, c) PROVE Old
    <3>1. /\ \A u \in Worker \ {v} : dispatch'[u] = dispatch[u]
          /\ dispatch[v].at = "releasing" /\ dispatch'[v].at \in {"idle", "releasing", "ready"}
          /\ dispatch'[v].batch = dispatch[v].batch
      BY <2>5, ReleaseOneForm
    <3> QED BY <1>2, <2>1, <3>1
  <2>6. ASSUME NEW B, Starts(v, B) PROVE Old
    <3>1. /\ \A u \in Worker \ {v} : dispatch'[u] = dispatch[u]
          /\ dispatch'[v].batch = {}
      BY <2>6, StartBatchForm DEF Starts
    <3> QED BY <1>0, <2>1, <3>1
  <2>7. CASE OpenWindow(v)
    <3>1. /\ \A u \in Worker \ {v} : dispatch'[u] = dispatch[u]
          /\ dispatch[v].at = "ready" /\ dispatch'[v].at = "verifying"
          /\ dispatch'[v].batch = dispatch[v].batch
      BY <2>7, OpenWindowForm
    <3> QED BY <1>2, <2>1, <3>1
  <2>8. ASSUME NEW c \in dispatch[v].todo, ReadClaim(v, c) PROVE Old
    <3>1. /\ \A u \in Worker \ {v} : dispatch'[u] = dispatch[u]
          /\ dispatch[v].at = "verifying" /\ dispatch'[v].at \in {"releasing", "verifying"}
          /\ dispatch'[v].batch \subseteq dispatch[v].batch
      BY <2>8, ReadClaimForm
    <3> QED BY <1>2, <2>1, <3>1
  <2>9. CASE CloseWindow(v) /\ ~WindowIsQuiet(v)
    <3>1. /\ \A u \in Worker \ {v} : dispatch'[u] = dispatch[u]
          /\ dispatch[v].at = "verifying" /\ dispatch'[v].at \in {"ready", "idle", "releasing"}
          /\ dispatch'[v].batch \subseteq dispatch[v].batch
      BY <2>9, NoisyWindowForm
    <3> QED BY <1>2, <2>1, <3>1
  <2> QED BY <1>3, <2>2, <2>3, <2>4, <2>5, <2>6, <2>7, <2>8, <2>9, DispatchingSteps
<1>4. ASSUME NEW v \in Worker, Cancels(v) PROVE Old
  <2>1. UNCHANGED dispatch \/ \E q \in RunId : ApplyLocal(v, q)
    BY <1>4, CancelsForm
  <2>2. ASSUME NEW q \in RunId, ApplyLocal(v, q) PROVE Old
    <3>1. /\ \A u \in Worker \ {v} : dispatch'[u] = dispatch[u]
          /\ SameClaims(v) /\ dispatch'[v].age = dispatch[v].age
      BY <2>2, ApplyLocalForm
    <3> QED BY <1>1, <3>1 DEF SameClaims
  <2> QED BY <1>1, <2>1, <2>2
<1>5. ASSUME NEW v \in Worker, Crash(v) PROVE Old
  <2>1. /\ \A u \in Worker \ {v} : dispatch'[u] = dispatch[u]
        /\ dispatch'[v].batch = {}
    BY <1>5, ForgottenForm DEF Crash
  <2> QED BY <1>0, <1>1, <2>1
<1>6. CASE TimePasses
  <2>1. SameClaims(w) /\ dispatch[w].age \in Nat
        /\ dispatch'[w].age = IF dispatch[w].at = "claimed" THEN dispatch[w].age + 1
                              ELSE dispatch[w].age
    BY <1>0, <1>6, TimePassesForm DEF Dispatch
  <2>2. dispatch[w].at = "claimed" => LeaseMs - dispatch[w].age > Interval
    BY <1>0, <2>1, StoreConstants, WorkerConstants DEF SameClaims
  <2> QED BY <1>0, <1>6, <2>1, <2>2 DEF Startable, SurvivesHeartbeat, SameClaims
<1>7. CASE \E q \in RunId, m \in Token : Executing(q, m)
  <2>1. UNCHANGED dispatch
    BY <1>7, ExecutingLeaves
  <2> QED BY <1>1, <2>1
<1>8. CASE \/ Enqueue /\ UNCHANGED <<localVars, acked, faults>>
           \/ \E v \in Worker : StopAdmission(v)
           \/ \E S \in SUBSET RunId, d \in Lag : RecoverLeases(S, d)
  <2>1. UNCHANGED dispatch
    BY <1>8 DEF StopAdmission, RecoverLeases, localVars
  <2> QED BY <1>1, <2>1
<1> QED BY <1>3, <1>4, <1>5, <1>6, <1>7, <1>8, WorkerConstants DEF WorkersNext
HandlingSecure(r, n) ==
    At(r, n, "handling") /\ ~RunIs(r, "cancelled") =>
        /\ Holds(r, n) /\ exec[r][n].leaseActive /\ LeaseMs >= 2
        /\ runs[r].due >= IF exec[r][n].beaten THEN 2 ELSE 1

StartableSecure(w, r, n) ==
    Ref(r, n) \in Startable(w) /\ ~RunIs(r, "cancelled") =>
        /\ Holds(r, n)
        /\ IF dispatch[w].at = "claimed" THEN runs[r].due >= LeaseMs - dispatch[w].age
           ELSE LeaseMs > Interval /\ runs[r].due > Interval

\* At most one claim of a run is entitled.  Unless the run was cancelled it holds the lease,
\* and the lease outlasts the next heartbeat.
Secure ==
    \A r \in RunId :
        /\ \A n, m \in Entitled(r) : n = m
        /\ \A n \in Token : HandlingSecure(r, n) /\ \A w \in Worker : StartableSecure(w, r, n)

\* The lease of an entitled claim is in force.
LEMMA EntitledHolds ==
  ASSUME RecordInv, Typed, Secure, NEW r \in RunId, NEW n \in Entitled(r), ~RunIs(r, "cancelled")
  PROVE  Holds(r, n) /\ runs[r].due > 0
<1>1. n \in Token /\ runs[r] \in Run /\ runs[r].due \in Int
  BY DEF Entitled, Handling, RecordInv, TypeOK, Run
<1>2. CASE n \in Handling(r)
  BY <1>1, <1>2 DEF Handling, Secure, HandlingSecure
<1>3. ASSUME NEW w \in Worker, Ref(r, n) \in Startable(w) PROVE Holds(r, n) /\ runs[r].due > 0
  <2>1. /\ StartableSecure(w, r, n)
        /\ dispatch[w] \in Dispatch
        /\ dispatch[w].at = "claimed" => LeaseMs - dispatch[w].age > Interval
    BY <1>1, <1>3 DEF Secure, Typed, Startable, SurvivesHeartbeat
  <2>2. LeaseMs \in Nat /\ Interval \in Nat /\ dispatch[w].age \in Nat
    BY <2>1, StoreConstants, WorkerConstants DEF Dispatch
  <2> QED BY <1>1, <1>3, <2>1, <2>2 DEF StartableSecure
<1> QED BY <1>2, <1>3 DEF Entitled

\* A claim that may be started is pending, and nobody gives it back.
LEMMA StartableIsKept ==
  ASSUME Typed, Claims, NEW w \in Worker, NEW r \in RunId, NEW n \in Token,
         Ref(r, n) \in Startable(w)
  PROVE  /\ exec[r][n] = NoExecution
         /\ \A v \in Worker : dispatch[v].at = "releasing" => Ref(r, n) \notin dispatch[v].todo
<1>1. Ref(r, n) \in dispatch[w].batch
  BY DEF Startable
<1>2. Ref(r, n).run = r /\ Ref(r, n).token = n
  BY DEF Ref
<1>3. exec[r][n] = NoExecution /\ \A v \in Worker \ {w} : Ref(r, n) \notin Pending(v)
  BY <1>1, <1>2 DEF Claims, PendingSound, Pending
<1>4. dispatch[w].at = "releasing" => Ref(r, n) \notin dispatch[w].todo
  BY <1>1 DEF Typed, DispatchFits
<1> QED BY <1>3, <1>4 DEF Pending

\* Time passes only while nothing is late.
LEMMA TickSecure ==
  ASSUME RecordInv, Typed, Claims, Secure, Punctual, TimePasses,
         NEW r \in RunId, NEW n \in Token, ~RunIs(r, "cancelled"),
         Holds(r, n), runs[r].due > 0
  PROVE  /\ runs'[r].status = "running" /\ runs'[r].token = n
         /\ runs'[r].due = runs[r].due - 1
<1>0. runs \in [RunId -> Run] /\ runs[r] \in Run /\ runs[r].due \in Int
      /\ runs[r].status = "running" /\ runs[r].token = n
  BY DEF RecordInv, TypeOK, Run, Holds, RunIs
<1>1. runs'[r] = [runs[r] EXCEPT !.due = Sooner(runs[r].due)]
  BY <1>0, StatusFacts DEF TimePasses, Tick
<1>2. Sooner(runs[r].due) = runs[r].due - 1
  BY <1>0, StoreConstants DEF Sooner
<1>3. PICK x \in Int : x = runs[r].due - 1
  BY <1>0
<1> QED BY <1>0, <1>1, <1>2, <1>3 DEF Run

\* A claim that may be started after a step of punctual workers has a lease that lasts.
LEMMA StartableStep ==
  ASSUME RecordInv, Typed, Claims, Secure, Punctual, WorkersNext, RecordInv',
         NEW w \in Worker, NEW r \in RunId, NEW n \in Token
  PROVE  StartableSecure(w, r, n)'
<1> SUFFICES ASSUME Ref(r, n) \in Startable(w)', runs'[r].status # "cancelled"
             PROVE  /\ runs'[r].status = "running" /\ runs'[r].token = n
                    /\ IF dispatch'[w].at = "claimed"
                       THEN runs'[r].due >= LeaseMs - dispatch'[w].age
                       ELSE LeaseMs > Interval /\ runs'[r].due > Interval
  BY DEF StartableSecure, Holds, RunIs
<1>0. /\ runs[r] \in Run /\ runs[r].due \in Int /\ dispatch[w] \in Dispatch
      /\ dispatch[w].age \in Nat /\ LeaseMs \in Nat /\ Interval \in Nat \ {0}
  BY StoreConstants, WorkerConstants DEF RecordInv, TypeOK, Run, Typed, Dispatch
<1>1. CASE \E S \in SUBSET RunId, d \in Lag :
              /\ ClaimDueRuns(S, Task, Slots(w), d)
              /\ r \in S /\ n = issued[r] + 1
              /\ dispatch'[w].at = "claimed" /\ dispatch'[w].age = d
  <2> PICK S \in SUBSET RunId, d \in Lag :
              /\ ClaimDueRuns(S, Task, Slots(w), d)
              /\ r \in S /\ n = issued[r] + 1
              /\ dispatch'[w].at = "claimed" /\ dispatch'[w].age = d
    BY <1>1
  <2>1. /\ runs'[r].status = "running" /\ runs'[r].token = issued[r] + 1
        /\ runs'[r].due = LeaseMs - d
    BY ClaimedForm
  <2>2. d \in Nat
    BY LagIsNat
  <2> QED BY <1>0, <2>1, <2>2
<1>2. CASE /\ Ref(r, n) \in Startable(w)
           /\ \/ TimePasses
              \/ dispatch'[w].at # "claimed"
              \/ dispatch'[w].at = dispatch[w].at /\ dispatch'[w].age = dispatch[w].age
  <2>1. StoreCalls
    BY WorkersUseTheStore
  <2>2. ~RunIs(r, "cancelled")
    BY <2>1, CancelledStays
  <2>3. n \in Entitled(r)
    BY <1>2 DEF Entitled
  <2>4. Holds(r, n) /\ runs[r].due > 0
    BY <2>2, <2>3, EntitledHolds
  <2>5. /\ exec[r][n].at # "settled"
        /\ \A v \in Worker : dispatch[v].at = "releasing" => Ref(r, n) \notin dispatch[v].todo
    BY <1>2, StartableIsKept, ExecutionForm
  <2>6. /\ dispatch[w].at = "claimed" => /\ LeaseMs - dispatch[w].age > Interval
                                         /\ runs[r].due >= LeaseMs - dispatch[w].age
        /\ dispatch[w].at # "claimed" => LeaseMs > Interval /\ runs[r].due > Interval
    BY <1>2, <2>2 DEF Secure, StartableSecure, Startable, SurvivesHeartbeat
  <2>7. CASE TimePasses
    <3>1. /\ runs'[r].status = "running" /\ runs'[r].token = n
          /\ runs'[r].due = runs[r].due - 1
      BY <2>2, <2>4, <2>7, TickSecure
    <3>2. /\ dispatch'[w].at = dispatch[w].at
          /\ dispatch'[w].age = IF dispatch[w].at = "claimed" THEN dispatch[w].age + 1
                                ELSE dispatch[w].age
      BY <2>7, TimePassesForm DEF SameClaims
    <3>3. dispatch[w].at \in {"idle", "claimed"}
      BY <2>7 DEF TimePasses, InTime
    <3>4. dispatch[w].at = "claimed"
      BY <1>2, <3>3 DEF Startable, Typed, DispatchFits
    <3> QED BY <1>0, <2>6, <3>1, <3>2, <3>4
  <2>8. CASE ~TimePasses
    <3>1. /\ runs'[r].status = "running" /\ runs'[r].token = n
          /\ runs'[r].due >= runs[r].due
      BY <2>4, <2>5, <2>8, LeaseStays
    <3>2. runs'[r].due \in Int
      BY DEF RecordInv, TypeOK, Run
    <3> QED BY <1>0, <1>2, <2>6, <2>8, <3>1, <3>2
  <2> QED BY <2>7, <2>8
<1> QED BY <1>1, <1>2, StartableBefore

\* A handler at work after a step of punctual workers has a lease that lasts.
LEMMA HandlingStep ==
  ASSUME RecordInv, Typed, Claims, Secure, Punctual, WorkersNext, RecordInv',
         NEW r \in RunId, NEW n \in Token
  PROVE  HandlingSecure(r, n)'
<1> SUFFICES ASSUME exec'[r][n].at = "handling", runs'[r].status # "cancelled"
             PROVE  /\ runs'[r].status = "running" /\ runs'[r].token = n
                    /\ exec'[r][n].leaseActive /\ LeaseMs >= 2
                    /\ runs'[r].due >= IF exec'[r][n].beaten THEN 2 ELSE 1
  BY DEF HandlingSecure, Holds, RunIs, At
<1>0. /\ TypeOK /\ runs[r] \in Run /\ runs[r].due \in Int /\ runs'[r].due \in Int
      /\ LeaseMs \in Nat /\ Interval \in Nat \ {0}
  BY StoreConstants, WorkerConstants DEF RecordInv, TypeOK, Run
<1>1. ~RunIs(r, "cancelled")
  BY WorkersUseTheStore, CancelledStays
<1>2. CASE At(r, n, "handling")
  <2>1. /\ Holds(r, n) /\ exec[r][n].leaseActive /\ LeaseMs >= 2
        /\ runs[r].due >= IF exec[r][n].beaten THEN 2 ELSE 1
    BY <1>1, <1>2 DEF Secure, HandlingSecure
  <2>2. runs[r].due > 0 /\ runs[r].status = "running" /\ runs[r].token = n /\ Ongoing(r, n)
        /\ exec[r][n] # NoExecution
    BY <1>0, <1>2, <2>1, ExecutionForm DEF Holds, RunIs, Ongoing, At
  <2>3. Ref(r, n).run = r /\ Ref(r, n).token = n
    BY DEF Ref
  <2>4. \A w \in Worker : Ref(r, n) \notin Pending(w)
    BY <2>2, <2>3 DEF Claims, PendingSound
  <2>5. CASE TimePasses
    <3>1. /\ runs'[r].status = "running" /\ runs'[r].token = n
          /\ runs'[r].due = runs[r].due - 1
      BY <1>1, <2>1, <2>2, <2>5, TickSecure
    <3>2. exec[r][n].beaten
      BY <1>2, <2>1, <2>5 DEF TimePasses, InTime, Beats
    <3>3. exec'[r][n].leaseActive /\ ~exec'[r][n].beaten
      BY <2>1, <2>2, <2>5, TimePassesForm DEF SameLease
    <3> QED BY <1>0, <2>1, <3>1, <3>2, <3>3
  <2>6. CASE ~TimePasses
    <3>1. /\ runs'[r].status = "running" /\ runs'[r].token = n
          /\ runs'[r].due >= runs[r].due
      BY <1>2, <2>1, <2>2, <2>4, <2>6, LeaseStays DEF At, Pending
    <3>2. CASE SameLease(r, n) /\ SameBeat(r, n)
      <4>1. exec'[r][n].leaseActive /\ exec'[r][n].beaten = exec[r][n].beaten
        BY <2>1, <2>2, <3>2 DEF SameLease, SameBeat
      <4>2. runs'[r].due >= IF exec[r][n].beaten THEN 2 ELSE 1
        BY <1>0, <2>1, <3>1
      <4> QED BY <2>1, <3>1, <4>1, <4>2
    <3>3. CASE Heartbeat(r, n)
      <4>1. Fenced(r, n, 0)
        BY <1>0, <2>1, <2>2 DEF Fenced, Elapsed
      <4>2. RenewLease(r, n, 0) /\ SameLease(r, n)
        BY <3>3, <4>1, HeartbeatForm
      <4>3. runs'[r].due >= LeaseMs
        BY <1>0, <4>2, RenewedForm
      <4>4. exec'[r][n].leaseActive
        BY <2>1, <2>2, <4>2 DEF SameLease
      <4>5. runs'[r].due >= 2
        BY <1>0, <2>1, <4>3
      <4>6. runs'[r].due >= IF exec'[r][n].beaten THEN 2 ELSE 1
        BY <1>0, <4>5
      <4> QED BY <2>1, <3>1, <4>4, <4>6
    <3>4. CASE LoseRenewal(r, n)
      BY <3>4 DEF LoseRenewal
    <3>5. (SameLease(r, n) /\ SameBeat(r, n)) \/ Heartbeat(r, n) \/ LoseRenewal(r, n)
      <4>1. ASSUME NEW w \in Worker, Ref(r, n) \in dispatch[w].batch PROVE FALSE
        BY <2>4, <4>1 DEF Pending
      <4> QED BY <2>6, <4>1, HandlingBefore
    <3> QED BY <3>2, <3>3, <3>4, <3>5
  <2> QED BY <2>5, <2>6
<1>3. CASE ~At(r, n, "handling")
  <2>1. PICK w \in Worker :
            /\ Ref(r, n) \in dispatch[w].batch /\ dispatch[w].at \in {"ready", "verifying"}
            /\ exec'[r][n] = Begun(w) /\ UNCHANGED storeVars
    BY <1>3, HandlingBefore
  <2>2. Ref(r, n) \in Startable(w) /\ dispatch[w].at # "claimed"
    BY <2>1 DEF Startable
  <2>3. Holds(r, n) /\ LeaseMs > Interval /\ runs[r].due > Interval
    BY <1>1, <2>2 DEF Secure, StartableSecure
  <2>4. runs' = runs /\ Begun(w).leaseActive /\ Begun(w).beaten
    BY <2>1, BegunForm DEF storeVars
  <2> QED BY <1>0, <2>1, <2>3, <2>4 DEF Holds, RunIs
<1> QED BY <1>2, <1>3

\* Who is entitled was entitled before, or is the new claim of a run that nobody was
\* entitled to.
LEMMA EntitledStep ==
  ASSUME RecordInv, Typed, Secure, WorkersNext, NEW r \in RunId, NEW n \in Entitled(r)'
  PROVE  n \in Entitled(r) \/ (Entitled(r) = {} /\ n = issued[r] + 1)
<1>1. CASE n \in Handling(r)'
  <2>1. n \in Token /\ exec'[r][n].at = "handling"
    BY <1>1 DEF Handling, At
  <2>2. CASE At(r, n, "handling")
    BY <2>1, <2>2 DEF Entitled, Handling
  <2>3. ASSUME NEW w \in Worker, Ref(r, n) \in dispatch[w].batch,
               dispatch[w].at \in {"ready", "verifying"}
        PROVE  n \in Entitled(r)
    BY <2>1, <2>3 DEF Entitled, Startable
  <2> QED BY <2>1, <2>2, <2>3, HandlingBefore
<1>2. ASSUME NEW w \in Worker, n \in Token, Ref(r, n) \in Startable(w)'
      PROVE  n \in Entitled(r) \/ (Entitled(r) = {} /\ n = issued[r] + 1)
  <2>1. CASE Ref(r, n) \in Startable(w)
    BY <1>2, <2>1 DEF Entitled
  <2>2. ASSUME NEW S \in SUBSET RunId, NEW d \in Lag, ClaimDueRuns(S, Task, Slots(w), d),
               r \in S, n = issued[r] + 1
        PROVE  Entitled(r) = {}
    <3>1. runs[r].status \in {"queued", "retryable"}
      BY <2>2, ClaimedForm
    <3> QED BY <3>1, EntitledHolds DEF RunIs, Holds
  <2> QED BY <1>2, <2>1, <2>2, StartableBefore
<1> QED BY <1>1, <1>2 DEF Entitled

PunctualInv == WorkersInv /\ Secure

\* Nobody was entitled at first.
LEMMA PunctualInit == WorkersInit => PunctualInv
<1> SUFFICES ASSUME WorkersInit PROVE Secure
  BY WorkersInitInv DEF PunctualInv
<1>1. \A r \in RunId, n \in Token : ~At(r, n, "handling")
  BY ExecutionForm DEF WorkersInit, At
<1>2. \A w \in Worker : Startable(w) = {}
  BY IdleForm DEF WorkersInit, Startable
<1>3. \A r \in RunId : Entitled(r) = {}
  BY <1>1, <1>2 DEF Entitled, Handling
<1> QED BY <1>1, <1>2, <1>3 DEF Secure, HandlingSecure, StartableSecure

\* Every step of punctual workers keeps the leases of the entitled secure.
LEMMA PunctualStep ==
  ASSUME PunctualInv, Punctual, [WorkersNext]_vars
  PROVE  PunctualInv'
<1>1. WorkersInv /\ RecordInv /\ Typed /\ Claims /\ Secure
  BY DEF PunctualInv, WorkersInv, CapsInv, StoreInv
<1>2. WorkersInv' /\ RecordInv'
  BY <1>1, WorkersStep DEF WorkersInv, CapsInv, StoreInv
<1>3. CASE WorkersNext
  <2>1. ASSUME NEW r \in RunId, NEW n \in Entitled(r)', NEW m \in Entitled(r)' PROVE n = m
    <3>1. \A k, l \in Entitled(r) : k = l
      BY <1>1 DEF Secure
    <3>2. n \in Entitled(r) \/ (Entitled(r) = {} /\ n = issued[r] + 1)
      BY <1>1, <1>3, EntitledStep
    <3>3. m \in Entitled(r) \/ (Entitled(r) = {} /\ m = issued[r] + 1)
      BY <1>1, <1>3, EntitledStep
    <3> QED BY <3>1, <3>2, <3>3
  <2>2. ASSUME NEW r \in RunId, NEW n \in Token PROVE HandlingSecure(r, n)'
    BY <1>1, <1>2, <1>3, HandlingStep
  <2>3. ASSUME NEW r \in RunId, NEW n \in Token, NEW w \in Worker PROVE StartableSecure(w, r, n)'
    BY <1>1, <1>2, <1>3, StartableStep
  <2>4. Secure'
    BY <2>1, <2>2, <2>3 DEF Secure
  <2> QED BY <1>2, <2>4 DEF PunctualInv
<1>4. CASE UNCHANGED vars
  <2>1. Secure'
    BY <1>1, <1>4 DEF Secure, HandlingSecure, StartableSecure, Entitled, Handling, Startable,
                      SurvivesHeartbeat, At, Holds, RunIs, vars, storeVars, localVars
  <2> QED BY <1>2, <2>1 DEF PunctualInv
<1> QED BY <1>3, <1>4

\* Two handlers of one run are never at work together while heartbeats are punctual:
\* NoOverlap of JobsWorkers.
THEOREM PunctualNeverOverlaps == Punctual => (WorkersSpec => []NoOverlap)
<1> SUFFICES ASSUME Punctual PROVE WorkersSpec => []NoOverlap
  OBVIOUS
<1>1. PunctualInv => NoOverlap
  <2> SUFFICES ASSUME PunctualInv, NEW r \in RunId PROVE Cardinality(Handling(r)) <= 1
    BY DEF NoOverlap
  <2>1. \A n, m \in Handling(r) : n = m
    BY DEF PunctualInv, Secure, Entitled
  <2>2. CASE Handling(r) = {}
    BY <2>2, FS_EmptySet
  <2>3. ASSUME NEW n \in Handling(r) PROVE Cardinality(Handling(r)) <= 1
    <3>1. Handling(r) = {n}
      BY <2>1, <2>3
    <3>2. Cardinality({n}) = 1
      BY FS_Singleton
    <3> QED BY <3>1, <3>2
  <2> QED BY <2>2, <2>3
<1>2. PunctualInv /\ [WorkersNext]_vars => PunctualInv'
  BY PunctualStep
<1> QED BY <1>1, <1>2, PunctualInit, PTL DEF WorkersSpec

\* The handlers at work for runs that are not cancelled stay within the concurrency while
\* heartbeats are punctual: PhysicalConcurrency of JobsWorkers.
THEOREM PunctualWithinConcurrency == Punctual => (WorkersSpec => []PhysicalConcurrency)
<1> SUFFICES ASSUME Punctual PROVE WorkersSpec => []PhysicalConcurrency
  OBVIOUS
<1> DEFINE busy(T) == {c \in RunId \X Token : /\ TaskOf[c[1]] \in T
                                              /\ At(c[1], c[2], "handling")
                                              /\ ~RunIs(c[1], "cancelled")}
<1>1. ASSUME PunctualInv, NEW T, NEW R \in SUBSET RunId,
             \A r \in RunId : RunIs(r, "running") /\ TaskOf[r] \in T => r \in R
      PROVE  /\ Cardinality(busy(T)) <= Cardinality(R)
             /\ Cardinality(busy(T)) \in Nat /\ Cardinality(R) \in Nat
  <2> DEFINE B == busy(T)
             f == [c \in B |-> c[1]]
  <2>1. RecordInv /\ Typed /\ Secure
    BY <1>1 DEF PunctualInv, WorkersInv, CapsInv, StoreInv
  <2>2. ASSUME NEW c \in B PROVE c \in RunId \X Token /\ c[1] \in R /\ c[2] \in Entitled(c[1])
    <3>1. c[1] \in RunId /\ c[2] \in Token /\ At(c[1], c[2], "handling")
          /\ ~RunIs(c[1], "cancelled") /\ TaskOf[c[1]] \in T
      OBVIOUS
    <3>2. c[2] \in Entitled(c[1])
      BY <3>1 DEF Entitled, Handling
    <3>3. Holds(c[1], c[2])
      BY <2>1, <3>1, <3>2, EntitledHolds
    <3> QED BY <1>1, <3>1, <3>2, <3>3 DEF Holds
  <2>3. ASSUME NEW c \in B, NEW e \in B, c[1] = e[1] PROVE c = e
    <3>1. c \in RunId \X Token /\ e \in RunId \X Token
          /\ c[2] \in Entitled(c[1]) /\ e[2] \in Entitled(c[1])
      BY <2>2, <2>3
    <3>2. c[2] = e[2]
      BY <2>1, <3>1 DEF Secure
    <3> QED BY <2>3, <3>1, <3>2
  <2> HIDE DEF B
  <2>4. f \in Injection(B, R)
    <3>1. f \in [B -> R] /\ \A c \in B : f[c] = c[1]
      BY <2>2
    <3>2. \A c, e \in B : f[c] = f[e] => c = e
      BY <2>3, <3>1
    <3> HIDE DEF f
    <3> QED BY <3>1, <3>2 DEF Injection, IsInjective
  <2>5. IsFiniteSet(R) /\ Cardinality(R) \in Nat
    BY RunSets
  <2>6. Cardinality(B) <= Cardinality(R) /\ Cardinality(B) \in Nat
    <3> HIDE DEF f
    <3> QED BY <2>4, <2>5, FS_Injection, FS_CardinalityType
  <2> QED BY <2>5, <2>6 DEF B
<1> HIDE DEF busy
<1>2. PunctualInv => PhysicalConcurrency
  <2> SUFFICES ASSUME PunctualInv PROVE PhysicalConcurrency
    OBVIOUS
  <2>1. /\ Cardinality(Running) <= MaxConcurrentRuns
        /\ \A t \in Task : Cardinality(RunningTask(t)) <= TaskLimit[t]
    BY DEF PunctualInv, WorkersInv, CapsInv, ConcurrencyBounded
  <2>2. Cardinality(busy(Task)) <= MaxConcurrentRuns
    <3>1. Running \in SUBSET RunId
          /\ \A r \in RunId : RunIs(r, "running") /\ TaskOf[r] \in Task => r \in Running
      BY DEF Running
    <3>2. /\ Cardinality(busy(Task)) <= Cardinality(Running)
          /\ Cardinality(busy(Task)) \in Nat /\ Cardinality(Running) \in Nat
      BY <3>1, <1>1
    <3> QED BY <2>1, <3>2, StoreConstants
  <2>3. ASSUME NEW t \in Task PROVE Cardinality(busy({t})) <= TaskLimit[t]
    <3>1. RunningTask(t) \in SUBSET RunId
          /\ \A r \in RunId : RunIs(r, "running") /\ TaskOf[r] \in {t} => r \in RunningTask(t)
      BY DEF Running, RunningTask
    <3>2. /\ Cardinality(busy({t})) <= Cardinality(RunningTask(t))
          /\ Cardinality(busy({t})) \in Nat /\ Cardinality(RunningTask(t)) \in Nat
      BY <3>1, <1>1
    <3> QED BY <2>1, <2>3, <3>2, StoreConstants
  <2> QED BY <2>2, <2>3 DEF PhysicalConcurrency, busy
<1>3. PunctualInv /\ [WorkersNext]_vars => PunctualInv'
  BY PunctualStep
<1> QED BY <1>2, <1>3, PunctualInit, PTL DEF WorkersSpec

--------------------------------------------------------------------------------
(***************************************************************************)
(* Punctual workers implement JobsHandlers.  Every step maps to one of its *)
(* steps: a batch that is started is a Start, a settled handler or a crash *)
(* a Leave, and the store's moves of runs their Create, Complete, Bury and *)
(* Cancel.  That runs are not ended under a handler at work is Secure.     *)
(***************************************************************************)

\* The runs of S get the stage s, the others keep theirs.
StageMoves(S, s) == \A r \in RunId : Stage(r)' = IF r \in S THEN s ELSE Stage(r)

\* No handler is started.
StartsNone == \A r \in RunId : Started(r)' = Started(r)

\* The abstract specification counts as this one does.
LEMMA SameCount == ASSUME NEW S PROVE Handlers!Cardinality(S) = Cardinality(S)
  BY Zenon DEF Handlers!Cardinality, Cardinality, Handlers!IsFiniteSet, IsFiniteSet

\* Stages move as they do in JobsHandlers.
LEMMA BecomesForm ==
  ASSUME NEW S, NEW s, StageMoves(S, s)
  PROVE  Handlers!Becomes(S, s)
  BY DEF StageMoves, Handlers!Becomes

\* Nothing of what JobsHandlers counts changes unless a handler starts or leaves.
LEMMA WorkStays ==
  ASSUME StartsNone
  PROVE  UNCHANGED [r \in RunId |-> Cardinality(Started(r))]
  BY DEF StartsNone

\* What a step of the store makes of the stages.
LEMMA StageSteps ==
  ASSUME RecordInv, StoreCalls
  PROVE  \/ \A r \in RunId : Stage(r)' = Stage(r)
         \/ \E r \in RunId : Stage(r) = "absent" /\ StageMoves({r}, "open")
         \/ \E r \in RunId : /\ Stage(r) = "open" /\ StageMoves({r}, "completed")
                             /\ runs'[r].status = "completed"
         \/ \E r \in RunId : Stage(r) = "open" /\ StageMoves({r}, "cancelled")
         \/ \E S \in SUBSET RunId : /\ \A r \in S : Stage(r) = "open"
                                    /\ StageMoves(S, "dead-lettered")
<1>0. TypeOK /\ runs \in [RunId -> Run] /\ \A r \in RunId : runs[r] \in Run
  BY DEF RecordInv, TypeOK
<1> USE StatusFacts
<1>1. ASSUME \A r \in RunId : \/ runs'[r].status = runs[r].status
                              \/ runs[r].status \in Live /\ runs'[r].status \in Live
      PROVE  \A r \in RunId : Stage(r)' = Stage(r)
  BY <1>1 DEF Stage
<1>2. ASSUME NEW r \in RunId, runs[r].status \in Live, NEW s \in Terminal, NEW d \in Lag,
             runs' = [runs EXCEPT ![r] = Ended(r, s, d)]
      PROVE  Stage(r) = "open" /\ StageMoves({r}, s) /\ runs'[r].status = s
  <2>1. s \in Status /\ s \notin Live
    BY <1>2 DEF Status, Present, Terminal, Live
  <2>2. runs'[r].status = s /\ \A q \in RunId \ {r} : runs'[q] = runs[q]
    BY <1>0, <1>2, <2>1, EndedFields
  <2>3. Stage(r)' = s
    BY <2>1, <2>2 DEF Stage
  <2>4. \A q \in RunId \ {r} : Stage(q)' = Stage(q)
    BY <2>2 DEF Stage
  <2> QED BY <1>2, <2>2, <2>3, <2>4 DEF Stage, StageMoves
<1>3. CASE Enqueue
  <2> PICK r \in RunId, k \in Key \cup {NoKey}, c \in Checksum, delay \in Delay,
           d \in Lag : AppendRun(r, k, c, delay, d)
    BY <1>3 DEF Enqueue
  <2>1. runs[r].status = "absent"
    BY DEF AppendRun, RunIs
  <2>2. runs'[r].status = "queued" /\ \A q \in RunId \ {r} : runs'[q] = runs[q]
    BY <1>0 DEF AppendRun, NewRun
  <2>3. Stage(r) = "absent" /\ StageMoves({r}, "open")
    BY <2>1, <2>2 DEF Stage, StageMoves, Live
  <2> QED BY <2>3
<1>4. CASE Claim
  <2> PICK S \in SUBSET RunId, tasks \in SUBSET Task, limit \in 1 .. MaxConcurrentRuns,
           d \in Lag : ClaimDueRuns(S, tasks, limit, d)
    BY <1>4 DEF Claim
  <2>1. \A r \in RunId : IF r \in S THEN /\ runs'[r].status = "running"
                                         /\ runs[r].status \in {"queued", "retryable"}
                         ELSE runs'[r] = runs[r]
    BY ClaimedForm
  <2> QED BY <1>1, <2>1 DEF Live
<1>5. CASE Release
  <2> PICK r \in RunId, n \in Token : ReleaseClaim(r, n)
    BY <1>5 DEF Release
  <2>1. runs[r].status = "running" /\ runs'[r].status \in {"queued", "retryable"}
        /\ \A q \in RunId \ {r} : runs'[q] = runs[q]
    BY <1>0 DEF ReleaseClaim, Holds, RunIs
  <2> QED BY <1>1, <2>1 DEF Live
<1>6. CASE Complete
  <2> PICK r \in RunId, n \in Token, d \in Lag : CompleteRun(r, n, d)
    BY <1>6 DEF Complete
  <2>1. runs[r].status \in Live /\ runs' = [runs EXCEPT ![r] = Ended(r, "completed", d)]
    BY DEF CompleteRun, Fenced, Holds, RunIs, Live
  <2>2. Stage(r) = "open" /\ StageMoves({r}, "completed") /\ runs'[r].status = "completed"
    BY <1>2, <2>1 DEF Terminal
  <2> QED BY <2>2
<1>7. CASE Retry
  <2> PICK r \in RunId, n \in Token, delay \in Delay, d \in Lag :
           MarkRunRetryable(r, n, delay, d)
    BY <1>7 DEF Retry
  <2>1. runs[r].status = "running" /\ runs'[r].status = "retryable"
        /\ \A q \in RunId \ {r} : runs'[q] = runs[q]
    BY <1>0 DEF MarkRunRetryable, Fenced, Holds, RunIs, Run
  <2> QED BY <1>1, <2>1 DEF Live
<1>8. CASE Bury
  <2> PICK r \in RunId, n \in Token, d \in Lag : DeadLetterRun(r, n, d)
    BY <1>8 DEF Bury
  <2>1. runs[r].status \in Live /\ runs' = [runs EXCEPT ![r] = Ended(r, "dead-lettered", d)]
    BY DEF DeadLetterRun, Fenced, Holds, RunIs, Live
  <2>2. Stage(r) = "open" /\ StageMoves({r}, "dead-lettered")
    BY <1>2, <2>1 DEF Terminal
  <2>3. {r} \in SUBSET RunId /\ \A q \in {r} : Stage(q) = "open"
    BY <2>2
  <2> QED BY <2>2, <2>3
<1>9. CASE Cancel
  <2> PICK r \in RunId, n \in Token \cup {NoToken}, d \in Lag : CancelRun(r, n, d)
    BY <1>9 DEF Cancel
  <2>1. runs[r].status \in Live /\ runs' = [runs EXCEPT ![r] = Ended(r, "cancelled", d)]
    BY DEF CancelRun, Cancellable
  <2>2. Stage(r) = "open" /\ StageMoves({r}, "cancelled")
    BY <1>2, <2>1 DEF Terminal
  <2> QED BY <2>2
<1>10. CASE Recover
  <2> PICK S \in SUBSET RunId, d \in Lag : RecoverStaleLeases(S, d)
    BY <1>10 DEF Recover
  <2> DEFINE dead == {r \in S : Exhausted(r)}
  <2>1. \A r \in S : runs[r].status = "running"
    BY DEF RecoverStaleLeases, Stale, Running, RunIs
  <2>2. ASSUME NEW r \in RunId
        PROVE  /\ r \notin S => runs'[r] = runs[r]
               /\ r \in dead => runs'[r].status = "dead-lettered"
               /\ r \in S \ dead => runs'[r].status = "retryable"
    <3>1. CASE r \notin S
      BY <3>1 DEF RecoverStaleLeases
    <3>2. CASE r \in dead
      <4>1. runs'[r] = Ended(r, "dead-lettered", d)
        BY <3>2 DEF RecoverStaleLeases
      <4> QED BY <1>0, <3>2, <4>1, EndedFields
    <3>3. CASE r \in S \ dead
      <4>1. PICK x : x = 0 - d
        OBVIOUS
      <4>2. runs'[r] = [runs[r] EXCEPT !.status = "retryable", !.token = NoToken, !.due = x]
        BY <3>3, <4>1 DEF RecoverStaleLeases
      <4> QED BY <1>0, <3>3, <4>2 DEF Run
    <3> QED BY <3>1, <3>2, <3>3
  <2>3. dead \in SUBSET RunId /\ dead \subseteq S
    OBVIOUS
  <2> HIDE DEF dead
  <2>4. \A r \in dead : Stage(r) = "open"
    BY <2>1, <2>3 DEF Stage, Live
  <2>5. StageMoves(dead, "dead-lettered")
    BY <2>1, <2>2, <2>3 DEF Stage, StageMoves, Live
  <2> QED BY <2>3, <2>4, <2>5
<1>11. CASE Tick
  <2>1. \A r \in RunId : runs'[r].status = runs[r].status
    BY <1>0, <1>11 DEF Tick, Run
  <2> QED BY <1>1, <2>1
<1>12. ASSUME NEW q \in RunId, NEW n \in Token, RenewLease(q, n, 0)
       PROVE  \A r \in RunId : Stage(r)' = Stage(r)
  <2>1. runs'[q].status = "running" /\ \A r \in RunId \ {q} : runs'[r] = runs[r]
    BY <1>0, <1>12, RenewedForm
  <2>2. runs[q].status = "running"
    BY <1>12 DEF RenewLease, Fenced, Holds, RunIs
  <2> QED BY <1>1, <2>1, <2>2
<1>13. CASE UNCHANGED storeVars
  BY <1>1, <1>13 DEF storeVars
<1> QED BY <1>3, <1>4, <1>5, <1>6, <1>7, <1>8, <1>9, <1>10, <1>11, <1>12, <1>13 DEF StoreCalls

\* A run whose handler is at work is not given up: it goes on running or is cancelled.
LEMMA WorkedOnRuns ==
  ASSUME RecordInv, Typed, Claims, Secure, Punctual, WorkersNext,
         NEW r \in AtWork, ~RunIs(r, "cancelled")
  PROVE  runs'[r].status \in {"running", "cancelled"}
<1>1. PICK n \in Token : At(r, n, "handling")
  BY DEF AtWork, Handling
<1>2. r \in RunId /\ n \in Entitled(r)
  BY <1>1 DEF AtWork, Entitled, Handling
<1>3. Holds(r, n) /\ runs[r].due > 0
  BY <1>2, EntitledHolds
<1>4. exec[r][n].at # "settled" /\ exec[r][n] # NoExecution
  BY <1>1, ExecutionForm DEF At
<1>5. Ref(r, n).run = r /\ Ref(r, n).token = n
  BY DEF Ref
<1>6. \A w \in Worker : Ref(r, n) \notin Pending(w)
  BY <1>4, <1>5 DEF Claims, PendingSound
<1>7. CASE TimePasses
  BY <1>2, <1>3, <1>7, TickSecure
<1>8. CASE ~TimePasses
  BY <1>2, <1>3, <1>4, <1>6, LeaseStays DEF Pending
<1> QED BY <1>7, <1>8

\* A run is completed by the commit of a handler that has settled.
LEMMA OnlyCommitsComplete ==
  ASSUME RecordInv, Typed, WorkersNext, NEW r \in RunId,
         runs[r].status # "completed", runs'[r].status = "completed"
  PROVE  \E n \in Token : At(r, n, "settled")
<1>0. /\ TypeOK /\ runs \in [RunId -> Run] /\ \A q \in RunId : runs[q] \in Run
      /\ ~UNCHANGED storeVars /\ runs'[r] # runs[r]
  BY DEF RecordInv, TypeOK, storeVars
<1> USE StatusFacts
<1>1. CASE Enqueue
  BY <1>0, <1>1 DEF Enqueue, AppendRun, NewRun
<1>2. ASSUME NEW w \in Worker, Dispatching(w) PROVE FALSE
  <2>1. ASSUME NEW S \in SUBSET RunId, NEW d \in Lag, ClaimRuns(w, S, d) PROVE FALSE
    <3>1. ClaimDueRuns(S, Task, Slots(w), d)
      BY <1>0, <2>1 DEF ClaimRuns
    <3> QED BY <1>0, <3>1, ClaimedForm
  <2>2. ASSUME NEW c \in dispatch[w].todo, ReleaseOne(w, c) PROVE FALSE
    <3>1. ReleaseClaim(c.run, c.token)
      BY <1>0, <2>2 DEF ReleaseOne
    <3> QED BY <1>0, <3>1 DEF ReleaseClaim
  <2>3. ASSUME NEW c, ReadClaim(w, c) PROVE FALSE
    BY <1>0, <2>3 DEF ReadClaim
  <2>4. CASE CheckClaim(w) \/ ClaimAnswerLost(w) \/ Start(w) \/ OpenWindow(w) \/ CloseWindow(w)
    BY <1>0, <2>4 DEF CheckClaim, ClaimAnswerLost, Start, OpenWindow, CloseWindow
  <2> QED BY <1>2, <2>1, <2>2, <2>3, <2>4 DEF Dispatching
<1>3. ASSUME NEW q \in RunId, NEW m \in Token, Executing(q, m)
      PROVE  \E n \in Token : At(r, n, "settled")
  <2>1. CASE Heartbeat(q, m)
    <3>1. RenewLease(q, m, 0)
      BY <1>0, <2>1 DEF Heartbeat
    <3> QED BY <1>0, <3>1, RenewedForm
  <2>2. CASE LoseRenewal(q, m) \/ Timeout(q, m) \/ HandlerSettles(q, m)
    BY <1>0, <2>2 DEF LoseRenewal, Timeout, HandlerSettles
  <2>3. ASSUME NEW delay \in Delay, NEW d \in Lag, Commit(q, m, delay, d)
        PROVE  \E n \in Token : At(r, n, "settled")
    <3>1. At(q, m, "settled") /\ Outcome(q, m, delay, d)
      BY <1>0, <2>3 DEF Commit
    <3>2. \A p \in RunId \ {q} : runs'[p] = runs[p]
      BY <1>0, <3>1 DEF Outcome, CompleteRun, MarkRunRetryable, DeadLetterRun
    <3> QED BY <1>0, <3>1, <3>2
  <2> QED BY <1>3, <2>1, <2>2, <2>3 DEF Executing
<1>4. ASSUME NEW w \in Worker, Cancels(w) PROVE FALSE
  <2>1. PICK q \in RunId, n \in Token \cup {NoToken}, d \in Lag : CancelRun(q, n, d)
    BY <1>0, <1>4, CancelsForm
  <2> QED BY <1>0, <2>1, CancelRunForm
<1>5. CASE \E w \in Worker : Crash(w) \/ StopAdmission(w)
  BY <1>0, <1>5 DEF Crash, StopAdmission
<1>6. ASSUME NEW S \in SUBSET RunId, NEW d \in Lag, RecoverLeases(S, d) PROVE FALSE
  <2>1. RecoverStaleLeases(S, d)
    BY <1>6 DEF RecoverLeases
  <2>2. PICK x : x = 0 - d
    OBVIOUS
  <2>3. runs'[r] = Ended(r, "dead-lettered", d)
        \/ runs'[r] = [runs[r] EXCEPT !.status = "retryable", !.token = NoToken, !.due = x]
    BY <1>0, <2>1, <2>2 DEF RecoverStaleLeases
  <2>4. CASE runs'[r] = Ended(r, "dead-lettered", d)
    BY <1>0, <2>4, EndedFields
  <2> QED BY <1>0, <2>3, <2>4 DEF Run
<1>7. CASE TimePasses
  BY <1>0, <1>7 DEF TimePasses, Tick, Run
<1> QED BY <1>1, <1>2, <1>3, <1>4, <1>5, <1>6, <1>7, WorkerConstants DEF WorkersNext

\* A step that moves a run ends no handler.
LEMMA HandlersStay ==
  ASSUME RecordInv, Typed, WorkersNext, ~UNCHANGED storeVars, NEW r \in RunId
  PROVE  Handling(r) \subseteq Handling(r)'
<1>1. ASSUME UNCHANGED exec PROVE Handling(r) \subseteq Handling(r)'
  BY <1>1 DEF Handling, At
<1>2. ASSUME \A n \in Token : Continues(r, n) PROVE Handling(r) \subseteq Handling(r)'
  BY <1>2 DEF Continues, Handling, At
<1>3. ASSUME NEW w \in Worker, Dispatching(w) PROVE UNCHANGED exec
  <2>1. ASSUME NEW S \in SUBSET RunId, NEW d \in Lag, ClaimRuns(w, S, d) PROVE UNCHANGED exec
    BY <2>1 DEF ClaimRuns
  <2>2. ASSUME NEW c, ReadClaim(w, c) \/ ReleaseOne(w, c) PROVE UNCHANGED exec
    BY <2>2 DEF ReadClaim, ReleaseOne
  <2>3. CASE CheckClaim(w) \/ ClaimAnswerLost(w) \/ OpenWindow(w)
    BY <2>3 DEF CheckClaim, ClaimAnswerLost, OpenWindow
  <2>4. CASE Start(w) \/ CloseWindow(w)
    BY <2>4 DEF Start, CloseWindow
  <2> QED BY <1>3, <2>1, <2>2, <2>3, <2>4 DEF Dispatching
<1>4. ASSUME NEW q \in RunId, NEW m \in Token, Executing(q, m)
      PROVE  Handling(r) \subseteq Handling(r)'
  <2>1. CASE Heartbeat(q, m)
    BY <1>2, <2>1, HeartbeatForm
  <2>2. CASE LoseRenewal(q, m) \/ Timeout(q, m) \/ HandlerSettles(q, m)
    BY <2>2 DEF LoseRenewal, Timeout, HandlerSettles
  <2>3. ASSUME NEW delay \in Delay, NEW d \in Lag, Commit(q, m, delay, d)
        PROVE  Handling(r) \subseteq Handling(r)'
    BY <2>3, CommitForm DEF Handling, At
  <2> QED BY <1>4, <2>1, <2>2, <2>3 DEF Executing
<1>5. ASSUME NEW w \in Worker, Cancels(w) PROVE UNCHANGED exec
  BY <1>5, CancelsForm
<1>6. CASE \E w \in Worker : Crash(w) \/ StopAdmission(w)
  BY <1>6 DEF Crash, StopAdmission
<1>7. CASE TimePasses
  BY <1>2, <1>7, TimePassesForm
<1>8. CASE \/ Enqueue /\ UNCHANGED <<localVars, acked, faults>>
           \/ \E S \in SUBSET RunId, d \in Lag : RecoverLeases(S, d)
  BY <1>1, <1>8 DEF RecoverLeases, localVars
<1> QED BY <1>1, <1>3, <1>4, <1>5, <1>6, <1>7, <1>8, WorkerConstants DEF WorkersNext

\* A step starts some of a batch, or it starts nothing and at most ends handlers.
LEMMA StartsOrNot ==
  ASSUME RecordInv, Typed, Claims, WorkersNext
  PROVE  \/ \E w \in Worker : \E B : StartsSome(w, B)
         \/ StartsNone /\ \A r \in RunId : Handling(r)' \subseteq Handling(r)
<1>1. ASSUME StartsNone, NEW r \in RunId, NEW n \in Handling(r)' PROVE n \in Handling(r)
  <2>1. n \in Token /\ exec'[r][n].at = "handling" /\ exec'[r][n] # NoExecution
    BY <1>1, ExecutionForm DEF Handling, At
  <2>2. exec[r][n] # NoExecution
    BY <1>1, <2>1 DEF StartsNone, Started
  <2>3. ASSUME NEW w \in Worker, Ref(r, n) \in dispatch[w].batch PROVE FALSE
    BY <2>2, <2>3 DEF Claims, PendingSound, Pending, Ref
  <2> QED BY <2>1, <2>3, HandlingBefore DEF Handling
<1>2. ASSUME \A r \in RunId, n \in Token : exec[r][n] = NoExecution <=> exec'[r][n] = NoExecution
      PROVE  StartsNone
  BY <1>2 DEF StartsNone, Started
<1>3. (UNCHANGED exec \/ Drops) => StartsNone
  BY <1>2 DEF Drops
<1> QED BY <1>1, <1>3, ClaimSteps DEF TakesClaims, GivesBack

\* The runs that a batch starts: each had no handler at work, gets one, and is open or
\* cancelled.
LEMMA StartedRun ==
  ASSUME RecordInv, Typed, Claims, Paid, Secure, NEW w \in Worker, NEW B, StartsSome(w, B),
         NEW r \in RunId, NEW n \in Token, Ref(r, n) \in Unfenced(w, B)
  PROVE  /\ Stage(r) \in {"open", "cancelled"}
         /\ n \in Entitled(r)
         /\ r \notin AtWork
         /\ Handling(r)' # {}
         /\ Cardinality(Started(r)) \in Nat
         /\ Cardinality(Started(r)) < MaxAttempts[r]
         /\ Cardinality(Started(r)') = Cardinality(Started(r)) + 1
<1>1. /\ B \in SUBSET dispatch[w].batch /\ StartBatch(w, B) /\ open[w]
      /\ dispatch[w].at \in {"ready", "verifying"}
  BY DEF StartsSome, Starts, Start, CloseWindow
<1>2. \A m \in Token : Ref(r, m) \in Unfenced(w, B) =>
                         Ref(r, m) \in Startable(w) /\ m \in Entitled(r)
  BY <1>1 DEF Unfenced, Startable, Entitled
<1>3. \A m \in Token : Ref(r, m) \in Unfenced(w, B) => m = n
  BY <1>2 DEF Secure
<1>4. exec[r][n] = NoExecution /\ exec[r][n].at = "none"
  BY <1>2, StartableIsKept, ExecutionForm
<1>5. r \notin AtWork
  <2>1. Handling(r) \subseteq Entitled(r)
    BY DEF Entitled
  <2>2. \A m \in Handling(r) : m = n
    BY <1>2, <2>1 DEF Secure
  <2> QED BY <1>4, <2>2 DEF AtWork, Handling, At
<1>6. Stage(r) \in {"open", "cancelled"}
  <2>1. runs[r].status \in {"cancelled", "running"}
    BY <1>2, EntitledHolds DEF Holds, RunIs
  <2> QED BY <2>1 DEF Stage, Live
<1>7. /\ \A m \in Token : exec'[r][m] = IF m = n THEN Begun(w) ELSE exec[r][m]
      /\ Begun(w) # NoExecution /\ Begun(w).at = "handling"
  <2>1. \A m \in Token :
          exec'[r][m] = IF Ref(r, m) \in Unfenced(w, B) THEN Begun(w) ELSE exec[r][m]
    BY <1>1, StartedForm
  <2> QED BY <1>3, <2>1, BegunForm, ExecutionForm
<1>8. Started(r)' = Started(r) \cup {n} /\ n \notin Started(r)
  BY <1>4, <1>7 DEF Started
<1>9. Handling(r)' # {}
  BY <1>7 DEF Handling, At
<1>10. IsFiniteSet(Token) /\ Started(r) \cup {n} \subseteq Spent(r) /\ Spent(r) \subseteq Token
  <2>1. Ref(r, n) \in Pending(w)
    BY <1>2 DEF Startable, Pending
  <2>2. IsFiniteSet(Token)
    BY FS_Interval, StoreConstants DEF Token
  <2> QED BY <2>1, <2>2 DEF Started, Spent
<1>11. /\ IsFiniteSet(Spent(r)) /\ IsFiniteSet(Started(r) \cup {n}) /\ IsFiniteSet(Started(r))
       /\ Cardinality(Started(r) \cup {n}) <= Cardinality(Spent(r))
  <2>1. IsFiniteSet(Spent(r))
    BY <1>10, FS_Subset
  <2>2. Started(r) \subseteq Token
    BY DEF Started
  <2> QED BY <1>10, <2>1, <2>2, FS_Subset
<1>12. /\ Cardinality(Started(r)) \in Nat /\ Cardinality(Spent(r)) \in Nat
       /\ Cardinality(Started(r) \cup {n}) = Cardinality(Started(r)) + 1
  BY <1>8, <1>11, FS_AddElement, FS_CardinalityType
<1>13. /\ Cardinality(Spent(r)) <= runs[r].attempt /\ runs[r].attempt <= MaxAttempts[r]
       /\ runs[r].attempt \in Nat /\ MaxAttempts[r] \in Nat
  BY StoreConstants DEF Paid, RecordInv, AllSound, Sound, TypeOK, Run
<1>14. Cardinality(Started(r)) < MaxAttempts[r]
  BY <1>11, <1>12, <1>13
<1>15. Cardinality(Started(r)') = Cardinality(Started(r)) + 1
  BY <1>8, <1>12
<1> QED BY <1>2, <1>5, <1>6, <1>9, <1>12, <1>14, <1>15

\* Runs that somebody is entitled to stay within the limits of JobsHandlers.
LEMMA EntitledWithinLimits ==
  ASSUME RecordInv, Typed, Secure, ConcurrencyBounded, NEW S \in SUBSET RunId,
         \A r \in S : Entitled(r) # {}
  PROVE  Handlers!WithinLimits(S)
<1> DEFINE counted == S \ Handlers!In("cancelled")
<1>1. ASSUME NEW r \in counted PROVE r \in Running
  <2>1. r \in S /\ r \in RunId /\ Stage(r) # "cancelled"
    BY DEF Handlers!In
  <2>2. ~RunIs(r, "cancelled")
    BY <2>1 DEF Stage, RunIs, Live
  <2>3. PICK n \in Entitled(r) : TRUE
    BY <2>1
  <2>4. Holds(r, n)
    BY <2>1, <2>2, EntitledHolds
  <2> QED BY <2>1, <2>4 DEF Holds, Running
<1> HIDE DEF counted
<1>2. Cardinality(counted) <= MaxConcurrentRuns
  <2>1. Running \in SUBSET RunId /\ counted \in SUBSET Running
    BY <1>1 DEF Running
  <2>2. /\ Cardinality(counted) <= Cardinality(Running)
        /\ Cardinality(counted) \in Nat /\ Cardinality(Running) \in Nat
    BY <2>1, RunSets
  <2> QED BY <2>2, StoreConstants DEF ConcurrencyBounded
<1>3. ASSUME NEW t \in Task
      PROVE  Cardinality({r \in counted : TaskOf[r] = t}) <= TaskLimit[t]
  <2>1. RunningTask(t) \in SUBSET RunId
        /\ {r \in counted : TaskOf[r] = t} \in SUBSET RunningTask(t)
    BY <1>1 DEF RunningTask, Running
  <2>2. /\ Cardinality({r \in counted : TaskOf[r] = t}) <= Cardinality(RunningTask(t))
        /\ Cardinality({r \in counted : TaskOf[r] = t}) \in Nat
        /\ Cardinality(RunningTask(t)) \in Nat
    BY <2>1, RunSets
  <2>3. Cardinality(RunningTask(t)) <= TaskLimit[t]
    BY DEF ConcurrencyBounded
  <2> QED BY <2>2, <2>3, StoreConstants
<1> QED BY <1>2, <1>3, SameCount DEF Handlers!WithinLimits, counted

\* A batch that is started is a Start of JobsHandlers.
LEMMA BatchStarts ==
  ASSUME RecordInv, Typed, Claims, Paid, Secure, ConcurrencyBounded, NEW w \in Worker, NEW B,
         StartsSome(w, B)
  PROVE  Handlers!Next
<1> DEFINE S == {r \in RunId : \E n \in Token : Ref(r, n) \in Unfenced(w, B)}
<1>1. \A r \in S : /\ Stage(r) \in {"open", "cancelled"}
                   /\ Entitled(r) # {} /\ r \notin AtWork /\ Handling(r)' # {}
                   /\ Cardinality(Started(r)) < MaxAttempts[r]
                   /\ Cardinality(Started(r)') = Cardinality(Started(r)) + 1
  BY StartedRun
<1>2. ASSUME NEW r \in RunId \ S
      PROVE  Started(r)' = Started(r) /\ Handling(r)' = Handling(r)
  <2>1. B \in SUBSET dispatch[w].batch /\ StartBatch(w, B) /\ open[w]
    BY DEF StartsSome, Starts
  <2>2. \A n \in Token : exec'[r][n] = exec[r][n]
    BY <2>1, StartedForm
  <2> QED BY <2>2 DEF Started, Handling, At
<1>3. \A r \in RunId : Stage(r)' = Stage(r)
  BY DEF StartsSome, storeVars, Stage
<1>4. S \in SUBSET RunId /\ AtWork \in SUBSET RunId
  BY DEF AtWork
<1> HIDE DEF S
<1>5. AtWork' = AtWork \cup S
  BY <1>1, <1>2, <1>4 DEF AtWork
<1>6. Handlers!WithinLimits(AtWork \cup S)
  <2>1. \A r \in AtWork : Entitled(r) # {}
    BY DEF AtWork, Entitled
  <2> QED BY <1>1, <1>4, <2>1, EntitledWithinLimits
<1>7. S \subseteq Handlers!In("open") \cup Handlers!In("cancelled")
  BY <1>1, <1>4 DEF Handlers!In
<1>8. [r \in RunId |-> Cardinality(Started(r))]' =
        [r \in RunId |-> IF r \in S THEN Cardinality(Started(r)) + 1
                         ELSE Cardinality(Started(r))]
  BY <1>1, <1>2
<1>9. UNCHANGED [r \in RunId |-> Stage(r)]
  BY <1>3
<1>10. S \cap AtWork = {} /\ \A r \in S : Cardinality(Started(r)) < MaxAttempts[r]
  BY <1>1
<1>11. Handlers!Start(S)
  BY <1>4, <1>5, <1>6, <1>7, <1>8, <1>9, <1>10 DEF Handlers!Start
<1> QED BY <1>4, <1>11 DEF Handlers!Next

\* A step that starts nothing and leaves the store alone is a Leave.
LEMMA HandlersLeave ==
  ASSUME StartsNone, \A r \in RunId : Handling(r)' \subseteq Handling(r), UNCHANGED storeVars
  PROVE  Handlers!Next
<1>1. AtWork' \subseteq AtWork /\ AtWork \in SUBSET RunId
  BY DEF AtWork
<1>2. PICK S \in SUBSET RunId : S = AtWork \ AtWork'
  BY <1>1
<1>3. S \subseteq AtWork /\ AtWork' = AtWork \ S
  BY <1>1, <1>2
<1>4. UNCHANGED [r \in RunId |-> Stage(r)]
  BY DEF Stage, storeVars
<1>5. Handlers!Leave(S)
  BY <1>3, <1>4, WorkStays DEF Handlers!Leave
<1> QED BY <1>5 DEF Handlers!Next

\* A step of the store is a move of runs, of which none is given up or completed while its
\* handler is at work.
LEMMA RunsMove ==
  ASSUME RecordInv, Typed, Claims, Secure, Punctual, WorkersNext, StartsNone, AtWork' = AtWork
  PROVE  Handlers!Next \/ UNCHANGED Handlers!handlers
<1>0. /\ UNCHANGED [r \in RunId |-> Cardinality(Started(r))]
      /\ StoreCalls
  BY WorkStays, WorkersUseTheStore
<1>1. ASSUME NEW r \in AtWork, Stage(r) = "open" PROVE Stage(r)' \in {"open", "cancelled"}
  <2>1. ~RunIs(r, "cancelled")
    BY <1>1 DEF Stage, RunIs, Live
  <2>2. runs'[r].status \in {"running", "cancelled"}
    BY <2>1, WorkedOnRuns
  <2> QED BY <2>2 DEF Stage, Live
<1>2. CASE \A r \in RunId : Stage(r)' = Stage(r)
  <2>1. UNCHANGED [r \in RunId |-> Stage(r)]
    BY <1>2
  <2> QED BY <1>0, <2>1 DEF Handlers!handlers
<1>3. ASSUME NEW r \in RunId, Stage(r) = "absent", StageMoves({r}, "open")
      PROVE  Handlers!Next
  <2>1. Handlers!Create(r)
    BY <1>0, <1>3, BecomesForm DEF Handlers!Create
  <2> QED BY <2>1 DEF Handlers!Next
<1>4. ASSUME NEW r \in RunId, Stage(r) = "open", StageMoves({r}, "completed"),
             runs'[r].status = "completed"
      PROVE  Handlers!Next
  <2>1. r \notin AtWork
    BY <1>1, <1>4 DEF StageMoves
  <2>2. runs[r].status # "completed"
    BY <1>4 DEF Stage, Live
  <2>3. PICK n \in Token : At(r, n, "settled")
    BY <1>4, <2>2, OnlyCommitsComplete
  <2>4. n \in Started(r)
    BY <2>3, ExecutionForm DEF Started, At
  <2>5. IsFiniteSet(Started(r))
    <3>1. IsFiniteSet(Token)
      BY FS_Interval, StoreConstants DEF Token
    <3>2. Started(r) \subseteq Token
      BY DEF Started
    <3> QED BY <3>1, <3>2, FS_Subset
  <2>6. Cardinality(Started(r)) > 0
    BY <2>4, <2>5, FS_EmptySet, FS_CardinalityType
  <2>7. r \in Handlers!In("open") \ AtWork
    BY <1>4, <2>1 DEF Handlers!In
  <2>8. Handlers!Complete(r)
    BY <1>0, <1>4, <2>6, <2>7, BecomesForm DEF Handlers!Complete
  <2> QED BY <2>8 DEF Handlers!Next
<1>5. ASSUME NEW r \in RunId, Stage(r) = "open", StageMoves({r}, "cancelled")
      PROVE  Handlers!Next
  <2>1. r \in Handlers!In("open")
    BY <1>5 DEF Handlers!In
  <2>2. Handlers!Cancel(r)
    BY <1>0, <1>5, <2>1, BecomesForm DEF Handlers!Cancel
  <2> QED BY <2>2 DEF Handlers!Next
<1>6. ASSUME NEW S \in SUBSET RunId, \A r \in S : Stage(r) = "open",
             StageMoves(S, "dead-lettered")
      PROVE  Handlers!Next
  <2>1. S \subseteq Handlers!In("open") \ AtWork
    BY <1>1, <1>6 DEF Handlers!In, StageMoves
  <2>2. Handlers!Bury(S)
    BY <1>0, <1>6, <2>1, BecomesForm DEF Handlers!Bury
  <2> QED BY <2>2 DEF Handlers!Next
<1> QED BY <1>0, <1>2, <1>3, <1>4, <1>5, <1>6, StageSteps

\* Punctual workers implement JobsHandlers: ImplementsHandlers of JobsWorkers.
THEOREM PunctualImplementsHandlers == Punctual => (WorkersSpec => ImplementsHandlers)
<1> SUFFICES ASSUME Punctual PROVE WorkersSpec => ImplementsHandlers
  OBVIOUS
<1>1. WorkersInit => Handlers!Init
  <2> SUFFICES ASSUME WorkersInit PROVE Handlers!Init
    OBVIOUS
  <2>1. \A r \in RunId : Stage(r) = "absent"
    BY DEF WorkersInit, Init, Stage, Live
  <2>2. \A r \in RunId : Started(r) = {} /\ Handling(r) = {}
    BY ExecutionForm DEF WorkersInit, Started, Handling, At
  <2>3. \A r \in RunId : Cardinality(Started(r)) = 0
    BY <2>2, FS_EmptySet
  <2>4. AtWork = {}
    BY <2>2 DEF AtWork
  <2> QED BY <2>1, <2>3, <2>4 DEF Handlers!Init
<1>2. PunctualInv /\ [WorkersNext]_vars => [Handlers!Next]_(Handlers!handlers)
  <2> SUFFICES ASSUME PunctualInv, [WorkersNext]_vars
               PROVE  Handlers!Next \/ UNCHANGED Handlers!handlers
    OBVIOUS
  <2>1. /\ RecordInv /\ Typed /\ Claims /\ Paid /\ Secure /\ ConcurrencyBounded
    BY DEF PunctualInv, WorkersInv, CapsInv, StoreInv
  <2>2. CASE WorkersNext
    <3>1. ASSUME NEW w \in Worker, NEW B, StartsSome(w, B) PROVE Handlers!Next
      BY <2>1, <3>1, BatchStarts
    <3>2. CASE StartsNone /\ \A r \in RunId : Handling(r)' \subseteq Handling(r)
      <4>1. CASE UNCHANGED storeVars
        BY <3>2, <4>1, HandlersLeave
      <4>2. CASE ~UNCHANGED storeVars
        <5>1. \A r \in RunId : Handling(r)' = Handling(r)
          BY <2>1, <2>2, <3>2, <4>2, HandlersStay
        <5>2. AtWork' = AtWork
          BY <5>1 DEF AtWork
        <5> QED BY <2>1, <2>2, <3>2, <5>2, RunsMove
      <4> QED BY <4>1, <4>2
    <3> QED BY <2>1, <2>2, <3>1, <3>2, StartsOrNot
  <2>3. CASE UNCHANGED vars
    BY <2>3 DEF vars, storeVars, localVars, Handlers!handlers, Stage, Started, AtWork,
                Handling, At
  <2> QED BY <2>2, <2>3
<1>3. PunctualInv /\ [WorkersNext]_vars => PunctualInv'
  BY PunctualStep
<1> QED BY <1>1, <1>2, <1>3, PunctualInit, PTL DEF WorkersSpec, ImplementsHandlers, Handlers!Spec
================================================================================
