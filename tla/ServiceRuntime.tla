--------------------------- MODULE ServiceRuntime ---------------------------
(***************************************************************************)
(* The wiring of packages/service/service-runtime/README.md: a service     *)
(* listens, installs the shutdown handler and starts the tick loop; the    *)
(* drain stops the loop and then closes the server.  "Non-HTTP workers can *)
(* use the scheduler, health monitor, and shutdown helper" without the     *)
(* server: their drain is loop.stop() alone.  TickLoop and                 *)
(* GracefulShutdown run interleaved in one process: an exit stops both.    *)
(* Fastify is external: close() resolves or rejects once, or hangs.        *)
(***************************************************************************)
EXTENDS TickLoop, GracefulShutdown

CONSTANT onShutdown   \* the caller of stop() that is the drain

ASSUME DrainAssumption == onShutdown \in Caller

VARIABLES
  http,     \* the service has a server
  server,   \* "none", "listening", "closing", "closed" or "broken"
  killed    \* a signal arrived before the handlers were installed

allVars == <<vars, shutdownVars, http, server, killed>>

RuntimeInit ==
  Init /\ ShutdownInit /\ http \in BOOLEAN /\ server = "none" /\ killed = FALSE

Running == Alive /\ ~crashed /\ ~killed
Installed == inFlight # None

\* What the steps of one part leave alone of the others.
LoopOnly == Running /\ UNCHANGED <<shutdownVars, http, server, killed>>
ShutdownOnly == Running /\ UNCHANGED <<vars, http, server, killed>>

\* A tick's own call of stop() is not the drain's.
TickNotDrain == onShutdown \notin inside'

-----------------------------------------------------------------------------
\* await app.listen()
Listen ==
  /\ Running /\ http /\ server = "none"
  /\ server' = "listening"
  /\ UNCHANGED <<vars, shutdownVars, http, killed>>

\* installGracefulShutdown(...) and loop.start(), one job.
Install ==
  LoopOnly /\ (http => server = "listening") /\ ~Installed /\ Start /\ TickNotDrain

\* A further start(), at any time: after a stop() the loop stays stopped, and
\* only the interval is set again.
StartAgain == LoopOnly /\ Installed /\ handles /\ Start

\* A signal before the handlers are installed ends the process.
SignalKills ==
  /\ Running /\ ~Installed
  /\ killed' = TRUE
  /\ UNCHANGED <<vars, shutdownVars, http, server>>

\* The first signal: onShutdown runs up to the await of loop.stop().
SignalDrains(s) ==
  /\ Running /\ Installed
  /\ Handle(s)
  /\ Stop(onShutdown)
  /\ UNCHANGED <<http, server, killed>>

SignalIgnored(s) == ShutdownOnly /\ Installed /\ HandleIgnored(s)

\* Fault: app.close() does not wait for loop.stop().
LoopStoppedEarly == TRUE

LoopStopped == caller[onShutdown] = "returned"

\* await loop.stop() is over: app.close() is called.
CloseServer ==
  /\ Running /\ server = "listening" /\ drain = "pending"
  /\ LoopStopped
  /\ server' = "closing"
  /\ UNCHANGED <<vars, shutdownVars, http, killed>>

\* app.close() settles and the drain with it.
ServerCloses ==
  /\ Running /\ server = "closing"
  /\ \/ server' = "closed" /\ DrainSettles("ok")
     \/ server' = "broken" /\ DrainSettles("failed")
  /\ UNCHANGED <<vars, http, killed>>

\* A worker's drain is over with loop.stop().
WorkerDrained == ShutdownOnly /\ ~http /\ LoopStopped /\ DrainSettles("ok")

\* A promise job of either part is queued.
Busy == JobQueued \/ race # "open" \/ (~http /\ LoopStopped)

\* Fault: the timeout covers app.close() only.
DrainTimeoutLate == ShutdownOnly /\ ~Busy /\ server = "closing" /\ TimeoutFires

\* The timeout of the whole drain.
DrainTimeout == ShutdownOnly /\ ~Busy /\ TimeoutFires

Exit == ShutdownOnly /\ RaceSettles

\* The server keeps the event loop alive until close() settles, and so does the
\* interval.  Without them nothing does, if what the tick in flight awaits has
\* no handle either: the process ends under it, or after a tick stopped the loop.
WorkerHandlesClose ==
  ShutdownOnly /\ Installed /\ ~http /\ ~timer /\ ~Busy /\ HandlesClose
WorkerLeaves == ShutdownOnly /\ ~Busy /\ LoopEmpty

\* The steps of the loop that nobody calls.
LoopFires ==
  LoopOnly /\ handles /\ race = "open" /\ IntervalFires /\ TickNotDrain
TickOver(p) == LoopOnly /\ handles /\ TickSettles(p)
LoopJob ==
  /\ LoopOnly
  /\ \/ \E p \in Promise : PromiseJob(p)
     \/ \E c \in Caller : StopReturns(c)
Crash == LoopOnly /\ UnhandledRejection

Ended == ~Running /\ UNCHANGED allVars

RuntimeNext ==
  \/ Listen \/ Install \/ StartAgain \/ SignalKills
  \/ \E s \in Signals : SignalDrains(s) \/ SignalIgnored(s)
  \/ CloseServer \/ ServerCloses \/ WorkerDrained
  \/ DrainTimeout \/ Exit \/ WorkerHandlesClose \/ WorkerLeaves
  \/ LoopFires \/ LoopJob \/ Crash \/ Ended
  \/ \E p \in Promise : TickOver(p)

RuntimeSpec == RuntimeInit /\ [][RuntimeNext]_allVars

\* Timers and promise jobs run, an empty event loop is left, and the drain's own
\* code goes on; a tick and app.close() may hang.
Scheduling ==
  /\ WF_allVars(LoopFires) /\ WF_allVars(LoopJob) /\ WF_allVars(Crash)
  /\ WF_allVars(DrainTimeout) /\ WF_allVars(Exit) /\ WF_allVars(WorkerLeaves)
  /\ WF_allVars(CloseServer) /\ WF_allVars(WorkerDrained)

FairRuntimeSpec == RuntimeSpec /\ Scheduling

\* No tick and no app.close() hangs.
TicksSettle == \A p \in Promise : WF_allVars(TickOver(p))
NothingHangs == WF_allVars(ServerCloses) /\ TicksSettle

-----------------------------------------------------------------------------
Phase ==
  IF killed THEN "killed"
  ELSE IF crashed THEN "crashed"
  ELSE IF ~Alive THEN exit
  ELSE IF shuttingDown THEN "draining"
  ELSE IF Installed THEN "up" ELSE "boot"

Lifecycle == INSTANCE ServiceLifecycle
  WITH phase <- Phase, busy <- (Active # {}),
       serving <- (server \in {"listening", "closing", "broken"})

\* The composed runtime implements the abstract lifecycle: no tick starts once
\* the drain has begun, the server closes only after the last tick is over,
\* exit 0 comes after both (a worker's empty event loop apart), and the process
\* never dies of an unhandled rejection while a tick runs.
ImplementsLifecycle == Lifecycle!LifecycleSpec

\* A signal to an installed service ends the process: with a timeout even when
\* the tick in flight or app.close() hangs, without one as long as neither does.
SignalEndsProcess ==
  /\ hasTimeout /\ shuttingDown ~> ~Running
  /\ NothingHangs => (shuttingDown ~> ~Running)

\* A started loop that nobody stopped fires again after every tick, rejected
\* ones included, as long as ticks settle.
KeepsScheduling ==
  TicksSettle => /\ timer /\ ~stopped /\ ~running ~> running \/ stopped \/ ~Running
                 /\ running ~> ~running \/ ~Running

\* Every stop() returns, the one a tick called before its first await included,
\* unless a tick hangs or the process ends first.
StopTerminates ==
  TicksSettle => \A c \in Caller : caller[c] = "awaiting" ~> caller[c] = "returned" \/ ~Running

\* What the steps preserve, beyond what each part preserves by itself.  Nothing
\* happens before the service is installed, and the interval of an installed
\* service is cleared only by a stop().
WiringInv ==
  /\ http \in BOOLEAN /\ killed \in BOOLEAN
  /\ server \in {"none", "listening", "closing", "closed", "broken"}
  /\ ~Installed => ~timer /\ ~running /\ ~stopped /\ ~shuttingDown /\ handles
  /\ Installed /\ ~timer => stopped
  /\ \A p \in Promise : promise[p] # "free" => Installed
  /\ \A c \in Caller : caller[c] = "idle" => awaits[c] = None

\* No tick is active while the rejection of an earlier one has no handler.
RejectionInv == \A p \in Promise : Unhandled(p) => Active = {}

\* The drain stops the loop, then closes the server; a service with a server
\* keeps a handle until then.
TeardownInv ==
  /\ onShutdown \notin inside
  /\ shuttingDown => stopped
  /\ IF http THEN (Installed => server # "none") /\ handles ELSE server = "none"
  /\ server \in {"closing", "closed", "broken"} => shuttingDown /\ LoopStopped
  /\ drain = "ok" => LoopStopped /\ (http => server = "closed")

RuntimeInv == DrainInv /\ ShutdownInv /\ WiringInv /\ RejectionInv /\ TeardownInv
=============================================================================
