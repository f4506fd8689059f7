------------------------------- MODULE Health -------------------------------
(* The liveness signal of the worker and the report that reads it: the     *)
(* worker refreshes a key at Redis with an expiry (apps/worker/src/        *)
(* heartbeat.ts, main.ts), the api probes postgres, redis and that key     *)
(* under one timeout each (apps/api/src/health.ts, probes.ts, app.ts), and *)
(* the page shows what it was told (apps/web/src/health.ts, App.tsx).      *)
(*                                                                         *)
(* Time passes in Tick, and clocks are countdowns.  A beat is not awaited: *)
(* any number may be on the way, a beat lands late, or after the worker    *)
(* stopped, or never.  A probe may answer, reject or hang.                 *)
EXTENDS Naturals

CONSTANTS
    Interval,    \* WORKER_HEARTBEAT_INTERVAL_MS, in ticks
    Ttl,         \* WORKER_HEARTBEAT_TTL_SECONDS, in ticks
    Timeout,     \* DEFAULT_PROBE_TIMEOUT_MS, in ticks
    MaxPending   \* bound: beats on the way at once

ASSUME ClockAssumption ==
    /\ Interval \in Nat \ {0} /\ Timeout \in Nat \ {0} /\ MaxPending \in Nat \ {0}
    /\ Ttl \in Nat /\ Ttl >= 3 * Interval

Probes == {"postgres", "redis", "worker"}
Views  == {"closed", "loading", "unreachable", "ok", "degraded"}

VARIABLES
    worker,       \* the worker process: off, on, or quitting after a signal
    untilBeat,    \* the interval timer of the heartbeat
    pending,      \* SET commands issued and not settled
    keyTtl,       \* what Redis has left of the key: 0 when there is none
    api,          \* the request: idle, probing, answered
    checks,       \* what each probe came to in this request
    timer,        \* the timeout of the probes, started together
    seen,         \* what EXISTS saw at Redis, its answer on the way
    reply,        \* the status of the answer, before the page has it
    view,         \* what the page shows
    \* History, for the properties only.
    missed,       \* beats issued and not landed since one last landed
    steady,       \* a beat has landed since the worker started
    sinceLanded   \* ticks since a beat last landed, as far as it matters

workerVars == <<worker, untilBeat, pending, keyTtl, missed, steady, sinceLanded>>
requestVars == <<api, checks, timer, seen, reply>>
vars == <<workerVars, requestVars, view>>

LongAgo == Ttl + Timeout
Capped(n, bound) == IF n <= bound THEN n ELSE bound

TypeOK ==
    /\ worker \in {"off", "on", "quitting"}
    /\ untilBeat \in 0..Interval
    /\ pending \in 0..MaxPending
    /\ keyTtl \in 0..Ttl
    /\ api \in {"idle", "probing", "answered"}
    /\ checks \in [Probes -> {"waiting", "up", "down"}]
    /\ timer \in 0..Timeout
    /\ seen \in {"nothing", "key", "no key"}
    /\ reply \in {"none", "ok", "degraded"}
    /\ view \in Views
    /\ missed \in 0..3
    /\ steady \in BOOLEAN
    /\ sinceLanded \in 0..LongAgo

Init ==
    /\ worker = "off" /\ untilBeat = 0 /\ pending = 0 /\ keyTtl = 0
    /\ api = "idle" /\ checks = [p \in Probes |-> "down"] /\ timer = 0
    /\ seen = "nothing" /\ reply = "none" /\ view = "closed"
    /\ missed = 0 /\ steady = FALSE /\ sinceLanded = LongAgo

-----------------------------------------------------------------------------
(* The worker *)

\* A SET is issued and not awaited; past the bound its failure is at once.
Beat ==
    /\ pending' = Capped(pending + 1, MaxPending)
    /\ missed' = Capped(missed + 1, 3)

WorkerStarts ==
    /\ worker = "off"
    /\ worker' = "on"
    /\ untilBeat' = Interval
    /\ Beat
    /\ steady' = FALSE
    /\ UNCHANGED <<keyTtl, sinceLanded, requestVars, view>>

BeatIsDue ==
    /\ worker = "on" /\ untilBeat = 0
    /\ untilBeat' = Interval
    /\ Beat
    /\ UNCHANGED <<worker, keyTtl, steady, sinceLanded, requestVars, view>>

\* Mutant: the key is set with an expiry of two intervals.
BeatLandsShort ==
    /\ pending > 0
    /\ pending' = pending - 1
    /\ keyTtl' = 2 * Interval
    /\ missed' = Capped(pending - 1, 3)
    /\ steady' = TRUE
    /\ sinceLanded' = 0
    /\ UNCHANGED <<worker, untilBeat, requestVars, view>>

\* SET key value EX ttl takes effect, whenever it gets there.
BeatLands ==
    /\ pending > 0
    /\ pending' = pending - 1
    /\ keyTtl' = Ttl
    /\ missed' = Capped(pending - 1, 3)
    /\ steady' = TRUE
    /\ sinceLanded' = 0
    /\ UNCHANGED <<worker, untilBeat, requestVars, view>>

\* The failure goes to onError; the timer runs on.
BeatFails ==
    /\ pending > 0
    /\ pending' = pending - 1
    /\ UNCHANGED <<worker, untilBeat, keyTtl, missed, steady, sinceLanded,
                   requestVars, view>>

\* SIGTERM: the interval is cleared and QUIT follows the beats on the way.
WorkerStops ==
    /\ worker = "on"
    /\ worker' = "quitting"
    /\ UNCHANGED <<untilBeat, pending, keyTtl, missed, steady, sinceLanded,
                   requestVars, view>>

WorkerExits ==
    /\ worker = "quitting" /\ pending = 0
    /\ worker' = "off"
    /\ UNCHANGED <<untilBeat, pending, keyTtl, missed, steady, sinceLanded,
                   requestVars, view>>

\* What was sent before a crash may still land.
WorkerCrashes ==
    /\ worker # "off"
    /\ worker' = "off"
    /\ UNCHANGED <<untilBeat, pending, keyTtl, missed, steady, sinceLanded,
                   requestVars, view>>

-----------------------------------------------------------------------------
(* The api *)

\* GET /api/health: the three probes start, each against its own timeout.
Ask ==
    /\ view = "loading" /\ api = "idle"
    /\ api' = "probing"
    /\ checks' = [p \in Probes |-> "waiting"]
    /\ timer' = Timeout
    /\ seen' = "nothing"
    /\ UNCHANGED <<reply, workerVars, view>>

Waiting(p) == api = "probing" /\ checks[p] = "waiting"

\* Redis answers EXISTS from what it holds now; the answer is on its way.
KeyIsRead ==
    /\ Waiting("worker") /\ seen = "nothing"
    /\ seen' = IF keyTtl > 0 THEN "key" ELSE "no key"
    /\ UNCHANGED <<api, checks, timer, reply, workerVars, view>>

Settle(p, result) ==
    /\ checks' = [checks EXCEPT ![p] = result]
    /\ UNCHANGED <<api, timer, seen, reply, workerVars, view>>

ProbeAnswers(p) ==
    /\ Waiting(p)
    /\ p = "worker" => seen # "nothing"
    /\ Settle(p, IF p = "worker" /\ seen = "no key" THEN "down" ELSE "up")

ProbeRejects(p) == Waiting(p) /\ Settle(p, "down")

\* Mutant: a probe whose timeout fires counts as up.
TimesOutAsUp(p) == Waiting(p) /\ timer = 0 /\ Settle(p, "up")

\* The race is over: an answer that comes later is nobody's.
ProbeTimesOut(p) == Waiting(p) /\ timer = 0 /\ Settle(p, "down")

Healthy == \A p \in Probes : checks[p] = "up"

\* Mutant: the report waits for probes that did not come up.
AnswerWhenUp ==
    /\ api = "probing"
    /\ \A p \in Probes : checks[p] = "up"
    /\ api' = "answered"
    /\ reply' = "ok"
    /\ UNCHANGED <<checks, timer, seen, workerVars, view>>

\* Promise.all has the three results: 200 with ok, or 503 with degraded.
Answer ==
    /\ api = "probing"
    /\ \A p \in Probes : checks[p] # "waiting"
    /\ api' = "answered"
    /\ reply' = IF Healthy THEN "ok" ELSE "degraded"
    /\ UNCHANGED <<checks, timer, seen, workerVars, view>>

-----------------------------------------------------------------------------
(* The page *)

\* The request of a page that was closed before is over, or never left.
OpenPage ==
    /\ view = "closed" /\ api = "idle"
    /\ view' = "loading"
    /\ UNCHANGED <<workerVars, requestVars>>

\* An answer is shown unless the page is gone; a 503 is an answer.
ReplyArrives ==
    /\ api = "answered"
    /\ api' = "idle" /\ reply' = "none"
    /\ view' = IF view = "loading" THEN reply ELSE view
    /\ UNCHANGED <<checks, timer, seen, workerVars>>

\* The answer is lost on its way back.
ReplyIsLost ==
    /\ api = "answered"
    /\ api' = "idle" /\ reply' = "none"
    /\ view' = IF view = "loading" THEN "unreachable" ELSE view
    /\ UNCHANGED <<checks, timer, seen, workerVars>>

\* The api is not there to be asked.
FetchFails ==
    /\ view = "loading" /\ api = "idle"
    /\ view' = "unreachable"
    /\ UNCHANGED <<workerVars, requestVars>>

ClosePage ==
    /\ view # "closed"
    /\ view' = "closed"
    /\ UNCHANGED <<workerVars, requestVars>>

-----------------------------------------------------------------------------
Down(clock) == IF clock = 0 THEN 0 ELSE clock - 1

\* A timer that is due runs before time goes on.
Tick ==
    /\ ~(worker = "on" /\ untilBeat = 0)
    /\ ~(timer = 0 /\ \E p \in Probes : Waiting(p))
    /\ ~(api = "probing" /\ \A p \in Probes : checks[p] # "waiting")
    /\ untilBeat' = IF worker = "on" THEN untilBeat - 1 ELSE untilBeat
    /\ keyTtl' = Down(keyTtl)
    /\ timer' = Down(timer)
    /\ sinceLanded' = Capped(sinceLanded + 1, LongAgo)
    /\ UNCHANGED <<worker, pending, missed, steady, api, checks, seen, reply, view>>

WorkerNext ==
    \/ WorkerStarts \/ BeatIsDue \/ BeatLands \/ BeatFails
    \/ WorkerStops \/ WorkerExits \/ WorkerCrashes

ApiNext ==
    \/ Ask \/ KeyIsRead \/ Answer
    \/ \E p \in Probes : ProbeAnswers(p) \/ ProbeRejects(p) \/ ProbeTimesOut(p)

PageNext == OpenPage \/ ReplyArrives \/ ReplyIsLost \/ FetchFails \/ ClosePage

Next == WorkerNext \/ ApiNext \/ PageNext \/ Tick

Spec == Init /\ [][Next]_vars

\* Timers run, a settled report is sent, and a fetch comes to something.
\* No dependency has to answer, and no beat has to land or fail.
Fairness ==
    /\ WF_vars(Tick) /\ WF_vars(BeatIsDue)
    /\ \A p \in Probes : WF_vars(ProbeTimesOut(p))
    /\ WF_vars(Answer)
    /\ WF_vars(Ask \/ FetchFails)
    /\ WF_vars(ReplyArrives \/ ReplyIsLost)

FairSpec == Spec /\ Fairness

-----------------------------------------------------------------------------
(* A worker whose beat has landed is not called stale (its key is not      *)
(* gone, apps/api/src/probes.ts:38) before two beats in a row were late or *)
(* lost and the third is due: the TTL of contracts/src/worker.ts:7-8 makes *)
(* up for a slow or failed beat of heartbeat.ts:41-47, wherever the beats  *)
(* before it were on their way.                                            *)
BlipsAreForgiven ==
    worker = "on" /\ steady /\ keyTtl = 0 =>
        missed >= 3 \/ (missed = 2 /\ untilBeat = 0)

(* A report that calls the system ok (apps/api/src/health.ts:9-13) was     *)
(* given within the probe timeout of a moment the key was there: a beat    *)
(* landed no longer ago than the TTL and that timeout, however the worker  *)
(* ended since and whatever of it landed late.                             *)
OkMeansRecent ==
    [][reply' = "ok" /\ reply = "none" => sinceLanded < Ttl + Timeout]_vars

(* The report is given though a probe hangs, rejects or answers too late   *)
(* (apps/api/src/health.ts:51-63), and the page that asked leaves          *)
(* "checking" (apps/web/src/health.ts:15-25).                              *)
PageSettles == view = "loading" ~> view # "loading"
=============================================================================
