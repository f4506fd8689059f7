---------------------------- MODULE HealthProofs ----------------------------
(* Proofs about Health, for any interval, expiry and timeout that satisfy  *)
(* ClockAssumption.  Liveness is left to TLC.                              *)
EXTENDS Health, TLAPS

-----------------------------------------------------------------------------
(* Types *)

LEMMA Clocks ==
  /\ Interval \in Nat /\ Interval > 0 /\ Timeout \in Nat /\ Timeout > 0
  /\ MaxPending \in Nat /\ MaxPending > 0 /\ Ttl \in Nat /\ Ttl > 0 /\ LongAgo \in Nat
  /\ Ttl >= Interval + Interval + Interval
  BY ClockAssumption DEF LongAgo

Numbers ==
    /\ untilBeat \in 0..Interval /\ pending \in 0..MaxPending /\ keyTtl \in 0..Ttl
    /\ timer \in 0..Timeout /\ missed \in 0..3 /\ sinceLanded \in 0..LongAgo

Places ==
    /\ worker \in {"off", "on", "quitting"}
    /\ api \in {"idle", "probing", "answered"}
    /\ checks \in [Probes -> {"waiting", "up", "down"}]
    /\ seen \in {"nothing", "key", "no key"}
    /\ reply \in {"none", "ok", "degraded"}
    /\ view \in Views
    /\ steady \in BOOLEAN
    /\ api = "answered" => reply # "none"

Typed == Numbers /\ Places

LEMMA TypedGivesTypes == Typed => TypeOK
  BY DEF Typed, TypeOK, Numbers, Places

LEMMA TypedAtStart == Init => Typed
<1>1. Init => Numbers
  BY Clocks DEF Init, Numbers
<1>2. Init => Places
  BY DEF Init, Places, Views
<1>. QED  BY <1>1, <1>2 DEF Typed

LEMMA BeatNumbers ==
  ASSUME Numbers, Beat
  PROVE  /\ pending' \in 0..MaxPending
         /\ missed' \in 0..3
         /\ missed' = IF missed = 3 THEN 3 ELSE missed + 1
  BY Clocks DEF Numbers, Beat, Capped

LEMMA TickNumbers ==
  ASSUME Numbers, Tick
  PROVE  /\ Numbers'
         /\ sinceLanded' <= sinceLanded + 1
         /\ keyTtl > 0 => keyTtl' = keyTtl - 1
         /\ keyTtl = 0 => keyTtl' = 0
<1>1. sinceLanded' \in 0..LongAgo /\ sinceLanded' <= sinceLanded + 1
  BY Clocks DEF Numbers, Tick, Capped
<1>2. /\ keyTtl' \in 0..Ttl
      /\ keyTtl > 0 => keyTtl' = keyTtl - 1
      /\ keyTtl = 0 => keyTtl' = 0
  BY Clocks DEF Numbers, Tick, Down
<1>3. timer' \in 0..Timeout
  BY Clocks DEF Numbers, Tick, Down
<1>4. untilBeat' \in 0..Interval
  BY Clocks DEF Numbers, Tick
<1>5. pending' = pending /\ missed' = missed
  BY DEF Tick
<1>. QED  BY <1>1, <1>2, <1>3, <1>4, <1>5 DEF Numbers

LEMMA NumbersStep == Numbers /\ [Next]_vars => Numbers'
<1>. SUFFICES ASSUME Numbers, [Next]_vars PROVE Numbers'
  OBVIOUS
<1>1. CASE WorkerStarts \/ BeatIsDue
  <2>1. Beat
    BY <1>1 DEF WorkerStarts, BeatIsDue
  <2>2. untilBeat' = Interval /\ UNCHANGED <<keyTtl, timer, sinceLanded>>
    BY <1>1 DEF WorkerStarts, BeatIsDue, requestVars
  <2>. QED  BY <2>1, <2>2, BeatNumbers, Clocks DEF Numbers
<1>2. CASE BeatLands
  <2>1. /\ pending > 0 /\ pending' = pending - 1 /\ keyTtl' = Ttl /\ sinceLanded' = 0
        /\ missed' = Capped(pending - 1, 3) /\ UNCHANGED <<untilBeat, timer>>
    BY <1>2 DEF BeatLands, requestVars
  <2>. QED  BY <2>1, Clocks DEF Numbers, Capped
<1>3. CASE BeatFails
  <2>1. /\ pending > 0 /\ pending' = pending - 1
        /\ UNCHANGED <<untilBeat, keyTtl, timer, missed, sinceLanded>>
    BY <1>3 DEF BeatFails, requestVars
  <2>. QED  BY <2>1, Clocks DEF Numbers
<1>4. CASE WorkerStops \/ WorkerExits \/ WorkerCrashes
  <2>1. UNCHANGED <<untilBeat, pending, keyTtl, timer, missed, sinceLanded>>
    BY <1>4 DEF WorkerStops, WorkerExits, WorkerCrashes, requestVars
  <2>. QED  BY <2>1 DEF Numbers
<1>5. CASE Ask
  <2>1. /\ UNCHANGED <<untilBeat, pending, keyTtl, missed, sinceLanded>>
        /\ timer' = Timeout
    BY <1>5 DEF Ask, workerVars
  <2>. QED  BY <2>1, Clocks DEF Numbers
<1>6. CASE \/ KeyIsRead \/ Answer \/ PageNext \/ UNCHANGED vars
           \/ \E p \in Probes : ProbeAnswers(p) \/ ProbeRejects(p) \/ ProbeTimesOut(p)
  <2>1. UNCHANGED <<untilBeat, pending, keyTtl, timer, missed, sinceLanded>>
    BY <1>6 DEF KeyIsRead, Answer, ProbeAnswers, ProbeRejects, ProbeTimesOut, Settle,
                PageNext, OpenPage, ReplyArrives, ReplyIsLost, FetchFails, ClosePage,
                vars, workerVars, requestVars
  <2>. QED  BY <2>1 DEF Numbers
<1>7. CASE Tick
  BY <1>7, TickNumbers
<1>. QED
  BY <1>1, <1>2, <1>3, <1>4, <1>5, <1>6, <1>7 DEF Next, WorkerNext, ApiNext

LEMMA PlacesStep == Places /\ [Next]_vars => Places'
<1>. SUFFICES ASSUME Places, [Next]_vars PROVE Places'
  OBVIOUS
<1>1. CASE WorkerNext
  <2>1. UNCHANGED <<requestVars, view>>
    BY <1>1 DEF WorkerNext, WorkerStarts, BeatIsDue, BeatLands, BeatFails, WorkerStops,
                WorkerExits, WorkerCrashes
  <2>2. worker' \in {worker, "off", "on", "quitting"} /\ steady' \in {steady, TRUE, FALSE}
    BY <1>1 DEF WorkerNext, WorkerStarts, BeatIsDue, BeatLands, BeatFails, WorkerStops,
                WorkerExits, WorkerCrashes
  <2>. QED  BY <2>1, <2>2 DEF Places, requestVars
<1>2. ASSUME NEW p \in Probes, ProbeAnswers(p) \/ ProbeRejects(p) \/ ProbeTimesOut(p)
      PROVE Places'
  <2>1. PICK result \in {"up", "down"} : Settle(p, result)
    BY <1>2 DEF ProbeAnswers, ProbeRejects, ProbeTimesOut
  <2>2. checks' = [checks EXCEPT ![p] = result]
    BY <2>1 DEF Settle
  <2>3. checks' \in [Probes -> {"waiting", "up", "down"}]
    BY <2>2 DEF Places
  <2>4. UNCHANGED <<worker, steady, api, seen, reply, view>>
    BY <2>1 DEF Settle, workerVars
  <2>. QED  BY <2>3, <2>4 DEF Places
<1>3. CASE Ask \/ KeyIsRead \/ Answer
  <2>1. UNCHANGED <<worker, steady, view>>
    BY <1>3 DEF Ask, KeyIsRead, Answer, workerVars
  <2>2. checks' = checks \/ checks' = [p \in Probes |-> "waiting"]
    BY <1>3 DEF Ask, KeyIsRead, Answer
  <2>3. checks' \in [Probes -> {"waiting", "up", "down"}]
    BY <2>2 DEF Places
  <2>4. /\ api' \in {"idle", "probing", "answered"}
        /\ seen' \in {seen, "nothing", "key", "no key"}
        /\ reply' \in {reply, "ok", "degraded"}
        /\ api' = "answered" => reply' # "none"
    BY <1>3 DEF Ask, KeyIsRead, Answer, Places
  <2>. QED  BY <2>1, <2>3, <2>4 DEF Places
<1>4. CASE PageNext
  <2>1. UNCHANGED <<worker, steady, checks, seen>>
    BY <1>4 DEF PageNext, OpenPage, ReplyArrives, ReplyIsLost, FetchFails, ClosePage,
                workerVars, requestVars
  <2>2. /\ api' \in {api, "idle"} /\ reply' \in {reply, "none"}
        /\ api' = "answered" => reply' = reply /\ api = "answered"
    BY <1>4 DEF PageNext, OpenPage, ReplyArrives, ReplyIsLost, FetchFails, ClosePage,
                requestVars
  <2>3. \/ view' = view
        \/ view' = "loading" \/ view' = "unreachable" \/ view' = "closed"
        \/ (view' = reply /\ api = "answered")
    <3>1. CASE OpenPage \/ FetchFails \/ ClosePage
      BY <3>1 DEF OpenPage, FetchFails, ClosePage
    <3>2. CASE ReplyArrives
      BY <3>2 DEF ReplyArrives
    <3>3. CASE ReplyIsLost
      BY <3>3 DEF ReplyIsLost
    <3>. QED  BY <1>4, <3>1, <3>2, <3>3 DEF PageNext
  <2>4. view' \in Views
    <3>1. view \in Views /\ reply \in {"none", "ok", "degraded"}
      BY DEF Places
    <3>2. api = "answered" => reply # "none"
      BY DEF Places
    <3>3. reply # "none" => reply \in Views
      BY <3>1 DEF Views
    <3>. QED  BY <3>1, <3>2, <3>3, <2>3 DEF Views
  <2>5. api' \in {"idle", "probing", "answered"}
    BY <2>2 DEF Places
  <2>6. reply' \in {"none", "ok", "degraded"} /\ (api' = "answered" => reply' # "none")
    BY <2>2 DEF Places
  <2>. QED  BY <2>1, <2>4, <2>5, <2>6 DEF Places
<1>5. CASE Tick \/ UNCHANGED vars
  <2>1. UNCHANGED <<worker, steady, api, checks, seen, reply, view>>
    BY <1>5 DEF Tick, vars, workerVars, requestVars
  <2>. QED  BY <2>1 DEF Places
<1>. QED  BY <1>1, <1>2, <1>3, <1>4, <1>5 DEF Next, ApiNext

LEMMA TypedStep == Typed /\ [Next]_vars => Typed'
  BY NumbersStep, PlacesStep DEF Typed

(* Every variable of the heartbeat, the report and the page stays in its   *)
(* set, for any interval, expiry and timeout.                              *)
THEOREM HealthTypes == Spec => []TypeOK
<1>. QED  BY TypedAtStart, TypedStep, TypedGivesTypes, PTL DEF Spec

-----------------------------------------------------------------------------
(* The key outlives two missed beats *)

(* What the key has left reaches to the third beat after the one that      *)
(* landed: to the next one, and the intervals that are still forgiven.     *)
KeyReaches ==
    worker = "on" /\ steady =>
        /\ missed = 0 => keyTtl >= Interval + Interval + untilBeat
        /\ missed = 1 => keyTtl >= Interval + untilBeat
        /\ missed = 2 => keyTtl >= untilBeat

LEMMA KeyReachesStep == Typed /\ KeyReaches /\ [Next]_vars => KeyReaches'
<1>. SUFFICES ASSUME Typed, KeyReaches, [Next]_vars PROVE KeyReaches'
  OBVIOUS
<1>0. /\ Interval \in Nat /\ Interval > 0 /\ Ttl \in Nat
      /\ Ttl >= Interval + Interval + Interval
      /\ keyTtl \in Nat /\ untilBeat \in 0..Interval /\ missed \in 0..3
  BY Clocks DEF Typed, Numbers
<1>1. CASE WorkerStarts
  BY <1>1 DEF WorkerStarts, KeyReaches
<1>2. CASE BeatIsDue
  <2>1. missed' = IF missed = 3 THEN 3 ELSE missed + 1
    BY <1>2, BeatNumbers DEF BeatIsDue, Typed
  <2>2. /\ untilBeat = 0 /\ untilBeat' = Interval
        /\ worker' = worker /\ steady' = steady /\ keyTtl' = keyTtl
    BY <1>2 DEF BeatIsDue
  <2>. QED  BY <1>0, <2>1, <2>2 DEF KeyReaches
<1>3. CASE BeatLands
  <2>1. keyTtl' = Ttl /\ untilBeat' = untilBeat
    BY <1>3 DEF BeatLands
  <2>. QED  BY <1>0, <2>1 DEF KeyReaches
<1>4. CASE BeatFails
  BY <1>4 DEF BeatFails, KeyReaches
<1>5. CASE WorkerStops \/ WorkerExits \/ WorkerCrashes
  BY <1>5 DEF WorkerStops, WorkerExits, WorkerCrashes, KeyReaches
<1>6. CASE ApiNext \/ PageNext \/ UNCHANGED vars
  <2>1. UNCHANGED workerVars
    BY <1>6 DEF ApiNext, Ask, KeyIsRead, Answer, ProbeAnswers, ProbeRejects,
                ProbeTimesOut, Settle, PageNext, OpenPage, ReplyArrives, ReplyIsLost,
                FetchFails, ClosePage, vars
  <2>. QED  BY <2>1 DEF workerVars, KeyReaches
<1>7. CASE Tick
  <2>1. keyTtl' >= keyTtl - 1
    BY <1>7, <1>0 DEF Tick, Down
  <2>2. worker' = worker /\ steady' = steady /\ missed' = missed /\ keyTtl' \in Nat
    BY <1>7, <1>0 DEF Tick, Down
  <2>3. worker = "on" => untilBeat' = untilBeat - 1
    BY <1>7 DEF Tick
  <2>. QED  BY <1>0, <2>1, <2>2, <2>3 DEF KeyReaches
<1>. QED
  BY <1>1, <1>2, <1>3, <1>4, <1>5, <1>6, <1>7 DEF Next, WorkerNext

(* For every interval and every expiry of at least three of them, a worker *)
(* whose beat has landed keeps its key until the third beat in a row is    *)
(* late (apps/worker/src/heartbeat.ts:41-51).                              *)
THEOREM BlipsAreAlwaysForgiven == Spec => []BlipsAreForgiven
<1>1. Init => KeyReaches
  BY DEF Init, KeyReaches
<1>2. Typed /\ KeyReaches => BlipsAreForgiven
  BY Clocks DEF Typed, Numbers, KeyReaches, BlipsAreForgiven
<1>. QED  BY <1>1, <1>2, TypedAtStart, TypedStep, KeyReachesStep, PTL DEF Spec

-----------------------------------------------------------------------------
(* An "ok" is recent *)

(* The key's age, and how old what EXISTS saw can be while the probes'     *)
(* timeout runs.                                                           *)
KeyAge     == keyTtl > 0 => sinceLanded <= Ttl - keyTtl
AnswerAge  == api = "probing" /\ seen = "key" => sinceLanded < Ttl + (Timeout - timer)
UpMeansKey == api = "probing" /\ checks["worker"] = "up" => seen = "key"

AgeInv == KeyAge /\ AnswerAge /\ UpMeansKey

LEMMA AgeStep == Typed /\ AgeInv /\ [Next]_vars => AgeInv'
<1>. SUFFICES ASSUME Typed, AgeInv, [Next]_vars PROVE AgeInv'
  OBVIOUS
<1>a. KeyAge /\ AnswerAge /\ UpMeansKey
  BY DEF AgeInv
<1>b. keyTtl \in 0..Ttl /\ sinceLanded \in Nat /\ timer \in 0..Timeout
  BY Clocks DEF Typed, Numbers
<1>c. checks \in [Probes -> {"waiting", "up", "down"}]
  BY DEF Typed, Places
<1>d. seen \in {"nothing", "key", "no key"}
  BY DEF Typed, Places
<1>1. CASE WorkerStarts \/ BeatIsDue \/ BeatFails \/ WorkerStops \/ WorkerExits
           \/ WorkerCrashes \/ UNCHANGED vars
  <2>1. UNCHANGED <<keyTtl, sinceLanded, api, checks, timer, seen>>
    BY <1>1 DEF WorkerStarts, BeatIsDue, BeatFails, WorkerStops, WorkerExits,
                WorkerCrashes, vars, workerVars, requestVars
  <2>. QED  BY <2>1, <1>a DEF AgeInv, KeyAge, AnswerAge, UpMeansKey
<1>2. CASE BeatLands
  <2>1. keyTtl' = Ttl /\ sinceLanded' = 0 /\ UNCHANGED <<api, checks, timer, seen>>
    BY <1>2 DEF BeatLands, requestVars
  <2>2. KeyAge'
    BY <2>1, Clocks DEF KeyAge
  <2>3. 0 < Ttl + (Timeout - timer)
    BY <1>b, Clocks
  <2>4. AnswerAge' /\ UpMeansKey'
    BY <2>1, <2>3, <1>a DEF AnswerAge, UpMeansKey
  <2>. QED  BY <2>2, <2>4 DEF AgeInv
<1>3. CASE Ask
  <2>1. /\ seen' = "nothing" /\ checks' = [p \in Probes |-> "waiting"]
        /\ UNCHANGED <<keyTtl, sinceLanded>>
    BY <1>3 DEF Ask, workerVars
  <2>. QED  BY <2>1, <1>a DEF AgeInv, KeyAge, AnswerAge, UpMeansKey, Probes
<1>4. CASE KeyIsRead
  <2>1. /\ seen' = IF keyTtl > 0 THEN "key" ELSE "no key"
        /\ UNCHANGED <<api, checks, timer, keyTtl, sinceLanded>>
        /\ checks["worker"] = "waiting"
    BY <1>4 DEF KeyIsRead, Waiting, workerVars
  <2>2. KeyAge' /\ UpMeansKey'
    BY <2>1, <1>a DEF KeyAge, UpMeansKey
  <2>3. keyTtl > 0 => sinceLanded < Ttl + (Timeout - timer)
    BY <1>a, <1>b, Clocks DEF KeyAge
  <2>4. AnswerAge'
    BY <2>1, <2>3 DEF AnswerAge
  <2>. QED  BY <2>2, <2>4 DEF AgeInv
<1>5. ASSUME NEW p \in Probes, ProbeAnswers(p) \/ ProbeRejects(p) \/ ProbeTimesOut(p)
      PROVE AgeInv'
  <2>1. UNCHANGED <<api, timer, seen, keyTtl, sinceLanded>>
    BY <1>5 DEF ProbeAnswers, ProbeRejects, ProbeTimesOut, Settle, workerVars
  <2>2. PICK result \in {"up", "down"} :
            /\ checks' = [checks EXCEPT ![p] = result]
            /\ result = "up" /\ p = "worker" => seen = "key"
    <3>1. CASE ProbeRejects(p) \/ ProbeTimesOut(p)
      BY <3>1 DEF ProbeRejects, ProbeTimesOut, Settle
    <3>2. CASE ProbeAnswers(p) /\ p = "worker" /\ seen = "no key"
      BY <3>2 DEF ProbeAnswers, Settle
    <3>3. CASE ProbeAnswers(p) /\ ~(p = "worker" /\ seen = "no key")
      <4>1. checks' = [checks EXCEPT ![p] = "up"]
        BY <3>3 DEF ProbeAnswers, Settle
      <4>2. p = "worker" => seen = "key"
        BY <3>3, <1>d DEF ProbeAnswers
      <4>. QED  BY <4>1, <4>2
    <3>. QED  BY <1>5, <3>1, <3>2, <3>3
  <2>3. checks'["worker"] = "up" => checks["worker"] = "up" \/ seen = "key"
    BY <2>2, <1>c DEF Probes
  <2>4. KeyAge' /\ AnswerAge'
    BY <2>1, <1>a DEF KeyAge, AnswerAge
  <2>5. UpMeansKey'
    BY <2>1, <2>3, <1>a DEF UpMeansKey
  <2>. QED  BY <2>4, <2>5 DEF AgeInv
<1>6. CASE Answer \/ PageNext
  <2>1. /\ UNCHANGED <<checks, timer, seen, keyTtl, sinceLanded>>
        /\ api' = "probing" => api = "probing"
    BY <1>6 DEF Answer, PageNext, OpenPage, ReplyArrives, ReplyIsLost, FetchFails,
                ClosePage, workerVars, requestVars
  <2>. QED  BY <2>1, <1>a DEF AgeInv, KeyAge, AnswerAge, UpMeansKey
<1>7. CASE Tick
  <2>1. /\ sinceLanded' \in Nat /\ sinceLanded' <= sinceLanded + 1
        /\ keyTtl > 0 => keyTtl' = keyTtl - 1
        /\ keyTtl = 0 => keyTtl' = 0
    BY <1>7, TickNumbers, Clocks DEF Typed, Numbers
  <2>2. UNCHANGED <<api, checks, seen>>
    BY <1>7 DEF Tick
  <2>3. KeyAge'
    BY <2>1, <1>a, <1>b, Clocks DEF KeyAge
  <2>4. api = "probing" => timer # 0
    <3>1. ASSUME api = "probing", timer = 0 PROVE FALSE
      <4>1. \A p \in Probes : checks[p] # "waiting"
        BY <1>7, <3>1 DEF Tick, Waiting
      <4>. QED  BY <4>1, <1>7, <3>1 DEF Tick
    <3>. QED  BY <3>1
  <2>5. timer # 0 => timer' = timer - 1
    BY <1>7 DEF Tick, Down
  <2>6. AnswerAge'
    <3>1. SUFFICES ASSUME api = "probing", seen = "key"
                   PROVE  sinceLanded' < Ttl + (Timeout - timer')
      BY <2>2 DEF AnswerAge
    <3>2. sinceLanded < Ttl + (Timeout - timer)
      BY <1>a, <3>1 DEF AnswerAge
    <3>. QED  BY <3>1, <3>2, <2>1, <2>4, <2>5, <1>b, Clocks
  <2>7. UpMeansKey'
    BY <2>2, <1>a DEF UpMeansKey
  <2>. QED  BY <2>3, <2>6, <2>7 DEF AgeInv
<1>. QED
  BY <1>1, <1>2, <1>3, <1>4, <1>5, <1>6, <1>7 DEF Next, WorkerNext, ApiNext

(* For every interval, expiry and timeout, "ok" was not said later than    *)
(* the expiry and one probe timeout after a beat that landed               *)
(* (apps/api/src/health.ts:9-13, :51-63).                                  *)
THEOREM OkIsAlwaysRecent == Spec => OkMeansRecent
<1>1. Init => AgeInv
  BY Clocks DEF Init, AgeInv, KeyAge, AnswerAge, UpMeansKey
<1>2. Typed /\ AgeInv /\ [Next]_vars =>
          [reply' = "ok" /\ reply = "none" => sinceLanded < Ttl + Timeout]_vars
  <2>. SUFFICES ASSUME Typed, AgeInv, Next, reply' = "ok", reply = "none"
                PROVE  sinceLanded < Ttl + Timeout
    OBVIOUS
  <2>1. Answer
    BY DEF Next, WorkerNext, ApiNext, PageNext, WorkerStarts, BeatIsDue, BeatLands,
           BeatFails, WorkerStops, WorkerExits, WorkerCrashes, Ask, KeyIsRead,
           ProbeAnswers, ProbeRejects, ProbeTimesOut, Settle, OpenPage, ReplyArrives,
           ReplyIsLost, FetchFails, ClosePage, Tick, requestVars
  <2>2. api = "probing" /\ checks["worker"] = "up"
    BY <2>1 DEF Answer, Healthy, Probes
  <2>3. sinceLanded < Ttl + (Timeout - timer)
    BY <2>2 DEF AgeInv, AnswerAge, UpMeansKey
  <2>4. timer \in 0..Timeout /\ sinceLanded \in Nat
    BY Clocks DEF Typed, Numbers
  <2>. QED  BY <2>3, <2>4, Clocks
<1>. QED  BY <1>1, <1>2, TypedAtStart, TypedStep, AgeStep, PTL DEF Spec, OkMeansRecent
=============================================================================
