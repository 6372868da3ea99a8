------------------------------ MODULE TickLoop ------------------------------
(***************************************************************************)
(* createTickLoop of packages/service/service-runtime/src/scheduler.ts: a  *)
(* self-guarding periodic loop.  The state is the closure's four variables *)
(* (timer, running, stopped, inFlight), the promises of the ticks that     *)
(* were fired and the callers of stop().                                   *)
(*                                                                         *)
(* JavaScript runs one job at a time.  A job that the event loop starts    *)
(* (the interval) waits until the promise jobs are drained; start() and    *)
(* stop() may be called from any job, so they may run between two promise  *)
(* jobs.  The name of a promise that nobody references is used again, so   *)
(* the loop may tick for ever.                                             *)
(***************************************************************************)
EXTENDS Naturals, FiniteSets

CONSTANTS
  Promise,         \* names for the promises that runTick().finally() returns
  Caller,          \* the callers of stop(), each calls it once
  None,            \* JavaScript's undefined
  OnErrorThrows,   \* TRUE when the injected onError may throw
  TickStops        \* TRUE when a tick may call stop() before its first await

ASSUME NoneAssumption == None \notin Promise /\ None \notin Caller
ASSUME SwitchAssumption == OnErrorThrows \in BOOLEAN /\ TickStops \in BOOLEAN

VARIABLES
  timer,      \* TRUE when `timer` holds a live interval
  running,    \* the overlap guard
  stopped,    \* set by stop(), never reset
  inFlight,   \* the promise of the last tick fired, or None
  promise,    \* promise -> where the tick behind it is
  caller,     \* caller of stop() -> where it is
  awaits,     \* caller of stop() -> the promise it awaits, or None
  crashed,    \* the process died of an unhandled rejection
  inside,     \* history: the callers that called stop() in a tick's prefix
  threw       \* history: onError has thrown

vars == <<timer, running, stopped, inFlight, promise, caller, awaits, crashed, inside, threw>>

\* "pending": the tick's body runs; "rejecting": it rejected, onError is next;
\* "settling"/"throwing": runTick's promise fulfilled/rejected, the finally
\* callback is next; "done"/"rejected": the promise inFlight holds is settled.
PromiseState ==
  {"free", "pending", "rejecting", "settling", "throwing", "done", "rejected"}

TypeOK ==
  /\ timer \in BOOLEAN /\ running \in BOOLEAN
  /\ stopped \in BOOLEAN /\ crashed \in BOOLEAN
  /\ inFlight \in Promise \cup {None}
  /\ promise \in [Promise -> PromiseState]
  /\ caller \in [Caller -> {"idle", "awaiting", "returned"}]
  /\ awaits \in [Caller -> Promise \cup {None}]
  /\ inside \in SUBSET Caller /\ threw \in BOOLEAN

Init ==
  /\ timer = FALSE /\ running = FALSE /\ stopped = FALSE
  /\ inFlight = None
  /\ promise = [p \in Promise |-> "free"]
  /\ caller = [c \in Caller |-> "idle"]
  /\ awaits = [c \in Caller |-> None]
  /\ crashed = FALSE /\ inside = {} /\ threw = FALSE

-----------------------------------------------------------------------------
Settled(p) == promise[p] \in {"done", "rejected"}

\* Fault: stop() waits for a tick even when none was ever fired.
ResumableAfterTick(c) == awaits[c] \in Promise /\ Settled(awaits[c])

\* What c's stop() awaits is settled, or it awaits nothing.
Resumable(c) == awaits[c] # None => Settled(awaits[c])

\* A promise job is queued: the event loop may not start another job yet.
JobQueued ==
  \/ \E p \in Promise : promise[p] \in {"rejecting", "settling", "throwing"}
  \/ \E c \in Caller : caller[c] = "awaiting" /\ Resumable(c)

\* Nothing refers to the promise any more, so its name may be used again.
Fresh(p) == p # inFlight /\ \A c \in Caller : awaits[c] # p

\* The rejection of p has no handler: no stop() put its catch on it.
Unhandled(p) == promise[p] = "rejected" /\ \A c \in Caller : awaits[c] # p

\* Fault: stop() only stops the scheduling.
AwaitedNone == None

\* What stop() awaits: the promise that inFlight holds just then.
Awaited == inFlight

\* The synchronous part of stop().
StopCalledBy(c) ==
  /\ caller[c] = "idle"
  /\ stopped' = TRUE
  /\ caller' = [caller EXCEPT ![c] = "awaiting"]
  /\ awaits' = [awaits EXCEPT ![c] = Awaited]

\* Fault: the overlap guard is missing.
KickSkippedWhenStopped == stopped

\* The guard of kick().
KickSkipped == stopped \/ running

\* kick() past its guard: the tick's synchronous prefix runs, in which the
\* tick itself may call stop(), and only then is inFlight assigned.
Fire ==
  \E p \in Promise :
    /\ Fresh(p)
    /\ running' = TRUE
    /\ inFlight' = p
    /\ promise' = [promise EXCEPT ![p] = "pending"]

FirePlain == Fire /\ UNCHANGED <<stopped, caller, awaits, inside>>

FireStopping ==
  /\ TickStops /\ Fire
  /\ \E c \in Caller : StopCalledBy(c) /\ inside' = inside \cup {c}

KickReturns ==
  KickSkipped /\ UNCHANGED <<running, stopped, inFlight, promise, caller, awaits, inside>>

\* kick() as start() calls it: `timer` is still undefined while it runs, so a
\* stop() in the tick's prefix finds nothing to clear.
Kick ==
  \/ KickReturns
  \/ ~KickSkipped /\ (FirePlain \/ FireStopping)

\* start(): returns when a timer is set; otherwise kicks and sets one.
Start ==
  /\ ~crashed
  /\ ~timer
  /\ Kick
  /\ timer' = TRUE
  /\ UNCHANGED <<crashed, threw>>

\* The interval fires.  A firing that overlaps a tick is skipped; a stop() in
\* the tick's prefix clears the interval.
IntervalFires ==
  /\ ~crashed /\ timer
  /\ ~JobQueued /\ \A p \in Promise : ~Unhandled(p)
  /\ ~KickSkipped
  /\ \/ FirePlain /\ timer' = timer
     \/ FireStopping /\ timer' = FALSE
  /\ UNCHANGED <<crashed, threw>>

\* stop(): no more ticks, the interval cleared, then the drain is awaited.
Stop(c) ==
  /\ ~crashed
  /\ StopCalledBy(c)
  /\ timer' = FALSE
  /\ UNCHANGED <<running, inFlight, promise, crashed, inside, threw>>

\* stop() goes on once the promise it awaits is settled, or at once; its catch
\* swallows a rejection.
StopReturns(c) ==
  /\ ~crashed
  /\ caller[c] = "awaiting"
  /\ Resumable(c)
  /\ caller' = [caller EXCEPT ![c] = "returned"]
  /\ UNCHANGED <<timer, running, stopped, inFlight, promise, awaits, crashed, inside, threw>>

Becomes(p, s) ==
  /\ promise' = [promise EXCEPT ![p] = s]
  /\ UNCHANGED <<timer, running, stopped, inFlight, caller, awaits, crashed, inside>>

\* The promise of the injected tick fulfils, or rejects.
TickResolves(p) ==
  ~crashed /\ promise[p] = "pending" /\ Becomes(p, "settling") /\ UNCHANGED threw
TickRejects(p) ==
  ~crashed /\ promise[p] = "pending" /\ Becomes(p, "rejecting") /\ UNCHANGED threw

\* Fault: runTick rethrows what onError was told.
AfterOnErrorRethrows == "throwing"

\* runTick's catch swallows the error once onError has returned.
AfterOnError == "settling"

\* runTick's catch calls onError; if that throws, runTick rejects.
OnError(p) ==
  /\ ~crashed
  /\ promise[p] = "rejecting"
  /\ \/ Becomes(p, AfterOnError) /\ UNCHANGED threw
     \/ OnErrorThrows /\ Becomes(p, "throwing") /\ threw' = TRUE

\* Fault: the guard is not released.
RunningAfterKept == running

\* `running` after the finally callback.
RunningAfter == FALSE

\* The finally callback: the guard is released on both outcomes.
Finally(p) ==
  /\ ~crashed
  /\ promise[p] \in {"settling", "throwing"}
  /\ running' = RunningAfter
  /\ promise' = [promise EXCEPT ![p] =
                   IF promise[p] = "settling" THEN "done" ELSE "rejected"]
  /\ UNCHANGED <<timer, stopped, inFlight, caller, awaits, crashed, inside, threw>>

\* Node ends the process when the promise jobs are drained and a rejected
\* promise has no handler.
UnhandledRejection ==
  /\ ~crashed /\ ~JobQueued
  /\ \E p \in Promise : Unhandled(p)
  /\ crashed' = TRUE
  /\ UNCHANGED <<timer, running, stopped, inFlight, promise, caller, awaits, inside, threw>>

\* Nothing is left to do: the process died, or every stop() returned.
Finished == crashed \/ \A c \in Caller : caller[c] = "returned"
Idle == Finished /\ UNCHANGED vars

TickSettles(p) == TickResolves(p) \/ TickRejects(p)
PromiseJob(p) == OnError(p) \/ Finally(p)

Next ==
  \/ Start \/ IntervalFires \/ UnhandledRejection \/ Idle
  \/ \E c \in Caller : Stop(c) \/ StopReturns(c)
  \/ \E p \in Promise : TickSettles(p) \/ PromiseJob(p)

Spec == Init /\ [][Next]_vars

-----------------------------------------------------------------------------
\* The ticks whose own code, body or onError, may still run.
Active == {p \in Promise : promise[p] \in {"pending", "rejecting"}}

\* A tick is never re-entered: `running` is released only in the finally
\* callback, so between the fire and that callback no second tick starts.
NoOverlap == \A p, q \in Active : p = q

\* stop() resolves only once any in-flight tick has settled, so its caller may
\* tear down what ticks use: whoever got past stop() sees no active tick, then
\* or ever after.  Not so for a stop() called in the synchronous prefix of a
\* tick, before inFlight holds that tick.
Drained == (\E c \in Caller \ inside : caller[c] = "returned") => Active = {}

\* A rejected tick never kills the process: only an onError that throws does,
\* when no stop() has put its catch on the tick's promise.
ProcessSurvives == crashed => threw /\ \E p \in Promise : Unhandled(p)

\* The strengthening of NoOverlap that steps preserve: a tick that is not over
\* is the one inFlight holds, and it holds the guard.
GuardInv ==
  /\ TypeOK
  /\ \A p \in Promise :
       promise[p] \in {"pending", "rejecting", "settling", "throwing"}
         => p = inFlight /\ running

\* The strengthening of Drained: nothing is fired after a stop(), so every
\* stop() from outside a tick awaits the last tick of all.
DrainInv ==
  /\ GuardInv
  /\ \A c \in Caller :
       caller[c] # "idle" => stopped /\ (c \notin inside => awaits[c] = inFlight)
  /\ \A c \in Caller :
       caller[c] = "returned" => Resumable(c)

\* The strengthening of ProcessSurvives: a tick's promise rejects only after
\* onError threw, and a rejection that ended the process stays unhandled.
CrashInv ==
  /\ TypeOK
  /\ \A p \in Promise : promise[p] \in {"throwing", "rejected"} => threw
  /\ crashed => \E p \in Promise : Unhandled(p)
=============================================================================
