---------------------------- MODULE WorkerHealth ----------------------------
(***************************************************************************)
(* A worker as the READMEs of service-runtime and chain-errors wire it: a  *)
(* tick marks progress and does its unit of work through withRetry, whose  *)
(* onAttempt hook marks progress too; the outcome is recorded; the next    *)
(* tick fires within Interval of the last one's end.  At any point between *)
(* two units, or in the worker's own code, the worker may wedge: it makes  *)
(* no more steps.  Kubernetes may probe at every moment.  Timers follow    *)
(* the monotonic clock `now`; the monitor and the probes read Date.now(),  *)
(* which may be set back or ahead once.                                    *)
(***************************************************************************)
EXTENDS Retry

CONSTANTS
  Interval, LivenessTimeout,
  MaxSkew   \* how far the wall clock may be set, either way

ASSUME WindowAssumption ==
  Interval \in Nat /\ LivenessTimeout \in Nat /\ MaxSkew \in Nat

VARIABLES
  status, lastCompletedAt, lastProgressAt,   \* the HealthMonitor
  restAt,      \* when the last unit of work was over
  wedgedAt,    \* when the worker wedged, 0 while it runs
  lastOkAt,    \* history: when withRetry last resolved, 0 if it never did
  skew         \* what Date.now() is ahead of the timers' clock, MaxSkew at first

Health == INSTANCE HealthMonitor WITH now <- now + skew

workVars == <<restAt, wedgedAt, lastOkAt, skew>>
workerVars == <<now, retryVars, status, lastCompletedAt, lastProgressAt, workVars>>

RegisteredAt == 1 + MaxSkew

WorkerInit ==
  /\ RetryInit /\ Health!MonitorInit
  /\ restAt = now /\ wedgedAt = 0 /\ lastOkAt = 0 /\ skew = MaxSkew

Runs == wedgedAt = 0

\* hooks.onAttempt of the worker.
AttemptHook == Health!markProgress

\* The tick starts: markProgress(), then withRetry up to its first attempt.
UnitStarts ==
  /\ Runs /\ Call
  /\ Health!markProgress
  /\ UNCHANGED <<now, workVars>>

\* A further attempt starts.
AttemptStarts ==
  /\ Runs /\ Wakes
  /\ AttemptHook
  /\ UNCHANGED <<now, workVars>>

\* The attempt under way ends, or an abandoned operation settles.
AttemptOver ==
  /\ Runs
  /\ \/ TimeoutFires
     \/ \E k \in Attempt, outcome \in {"ok"} \cup Thrown : OpSettles(k, outcome)
  /\ lastOkAt' = IF phase' = "resolved" THEN now ELSE lastOkAt
  /\ UNCHANGED <<now, status, lastCompletedAt, lastProgressAt, restAt, wedgedAt, skew>>

\* What the tick records, the HealthStatus its work returns (a unit may run to
\* its end and be unhealthy), or what its onError records.
Recorded == IF phase = "resolved" THEN Health!HealthStatus ELSE {"unhealthy"}

\* The unit is over and recorded; the call's state is dropped.
UnitOver ==
  /\ Runs /\ Over
  /\ \E s \in Recorded : Health!record(s)
  /\ restAt' = now
  /\ phase' = "idle" /\ attempt' = 0 /\ timerAt' = 0
  /\ op' = [k \in Attempt |-> "none"]
  /\ seen' = [k \in Attempt |-> "none"]
  /\ UNCHANGED <<now, policy, wedgedAt, lastOkAt, skew>>

\* The worker's own code stops making progress.
Wedges ==
  /\ Runs /\ phase = "idle"
  /\ wedgedAt' = now
  /\ UNCHANGED <<now, retryVars, status, lastCompletedAt, lastProgressAt, restAt, lastOkAt, skew>>

\* Time passes: a running worker's timers are at most Jitter late.
TimePasses ==
  /\ now < MaxNow
  /\ Runs => CASE phase \in {"attempting", "sleeping"} -> now < timerAt + Jitter
               [] phase = "idle" -> now < restAt + Interval + Jitter
               [] OTHER -> FALSE
  /\ now' = now + 1
  /\ UNCHANGED <<retryVars, status, lastCompletedAt, lastProgressAt, workVars>>

\* The machine's clock is set.
ClockIsSet ==
  /\ skew = MaxSkew
  /\ skew' \in 0 .. 2 * MaxSkew
  /\ UNCHANGED <<now, retryVars, status, lastCompletedAt, lastProgressAt, restAt, wedgedAt, lastOkAt>>

TimeUp == now = MaxNow /\ UNCHANGED workerVars

WorkerNext ==
  \/ UnitStarts \/ AttemptStarts \/ AttemptOver \/ UnitOver
  \/ Wedges \/ ClockIsSet \/ TimePasses \/ TimeUp

WorkerSpec == WorkerInit /\ [][WorkerNext]_workerVars

-----------------------------------------------------------------------------
\* What one attempt and the sleep after it take at most.
Turn == OpTimeout + maxBackoffDelayMs(policy) + 2 * Jitter

\* The longest legitimate gap between two progress markers.
LongestGap ==
  LET work == Turn
      rest == Interval + Jitter
  IN IF work > rest THEN work ELSE rest

SetAhead == IF skew > MaxSkew THEN skew - MaxSkew ELSE 0
SetBack == IF skew < MaxSkew THEN MaxSkew - skew ELSE 0

\* With a window beyond the longest gap, sized with maxBackoffDelayMs, plus
\* what the clock was set ahead, a worker that is not wedged always answers the
\* liveness probe with 200, however long its chain hangs.
NoFalseRestart ==
  Runs /\ LivenessTimeout > LongestGap + SetAhead => Health!Alive(RegisteredAt)

\* A worker that wedged, at startup too, fails liveness once the window lapsed,
\* later only by as much as the clock was set back.
WedgeDetected ==
  ~Runs /\ now >= wedgedAt + LivenessTimeout + SetBack => ~Health!Alive(RegisteredAt)

\* The longest a unit may take, all its attempts and sleeps.
LongestUnit == policy.maxRetries * Turn

\* How long ago the work of a ready worker may have last succeeded.
ReadyLag == Interval + Jitter + LongestUnit

\* Readiness is served from the last recorded status, which is stale while a
\* unit hangs and retries: a worker that is not wedged stays ready no longer
\* after its last success than one interval and one exhausted unit.
ReadyIsRecent == Runs /\ Health!Ready => lastOkAt # 0 /\ now <= lastOkAt + ReadyLag

\* What the probes measure from is the mark made at moment `at` of the timers'
\* clock, before or after Date.now() was set.
Marked(at) == Health!Reference(RegisteredAt) - at \in {MaxSkew, skew}

\* How long ago a running worker's last mark can be in each phase.
MarkIsRecent(at) ==
  /\ phase = "idle" => at = restAt /\ now <= restAt + Interval + Jitter
  /\ phase = "attempting" => timerAt = at + OpTimeout /\ now <= timerAt + Jitter
  /\ phase = "sleeping" => /\ timerAt <= at + OpTimeout + Jitter + maxBackoffDelayMs(policy)
                           /\ now <= timerAt + Jitter
  /\ Over => now <= at + OpTimeout + Jitter

WorkerTypeOK ==
  /\ lastProgressAt \in Nat /\ restAt \in Nat /\ wedgedAt \in Nat /\ lastOkAt \in Nat
  /\ skew \in 0 .. 2 * MaxSkew

\* The last mark of a running worker is recent; a wedged one made it before it
\* wedged.
MarkInv ==
  \E at \in 1 .. now :
    Marked(at) /\ IF Runs THEN MarkIsRecent(at) ELSE at <= wedgedAt /\ wedgedAt <= now

\* When the attempt under way started at the latest.
LatestStart == restAt + Interval + Jitter + attempt * Turn

\* How far a running worker can be past its last record in each phase.
UnitIsBounded ==
  /\ phase = "idle" => now <= LatestStart
  /\ phase = "attempting" => timerAt <= LatestStart + OpTimeout /\ now <= timerAt + Jitter
  /\ phase = "sleeping" => /\ timerAt <= LatestStart + OpTimeout + Jitter + maxBackoffDelayMs(policy)
                           /\ now <= timerAt + Jitter
  /\ Over => now <= LatestStart + IF policy.maxRetries = 0 THEN 0 ELSE OpTimeout + Jitter

\* A status that says ready was recorded by a unit that had just succeeded.
ReadyInv ==
  /\ restAt <= now
  /\ IF Runs THEN UnitIsBounded ELSE phase = "idle"
  /\ phase = "resolved" => lastOkAt = now
  /\ Health!Ready => lastOkAt # 0 /\ restAt <= lastOkAt

\* What the steps preserve.
WorkerInv == RetryInv /\ WorkerTypeOK /\ MarkInv /\ ReadyInv
=============================================================================
