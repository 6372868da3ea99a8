------------------------ MODULE ServiceRuntimeProofs ------------------------
(***************************************************************************)
(* Theorems about the tick loop, the graceful shutdown and the service     *)
(* that composes them, for every set of promises, of callers of stop() and *)
(* of signals, whether or not onError may throw, a tick may call stop() or *)
(* the drain may release the last handle.                                  *)
(***************************************************************************)
EXTENDS ServiceRuntime, TLAPS

-----------------------------------------------------------------------------
\* The tick loop.

\* The promises, callers and flags start with nothing fired and nothing called.
LEMMA InitGuard == Init => GuardInv
BY NoneAssumption DEF Init, GuardInv, TypeOK, PromiseState

\* Every job of the loop keeps the guard: a tick that is not over is the one
\* that inFlight holds, and it holds `running`.
LEMMA NextGuard == GuardInv /\ [Next]_vars => GuardInv'
<1> SUFFICES ASSUME GuardInv, [Next]_vars PROVE GuardInv'
  OBVIOUS
<1> USE NoneAssumption DEF GuardInv, TypeOK, PromiseState
<1>1. ASSUME Fire, ~running, timer' \in BOOLEAN, stopped' \in BOOLEAN, crashed' \in BOOLEAN,
             caller' \in [Caller -> {"idle", "awaiting", "returned"}],
             awaits' \in [Caller -> Promise \cup {None}],
             inside' \in SUBSET Caller, threw' \in BOOLEAN
      PROVE GuardInv'
  <2>1. PICK p \in Promise : /\ running' = TRUE
                             /\ inFlight' = p
                             /\ promise' = [promise EXCEPT ![p] = "pending"]
    BY <1>1 DEF Fire
  <2> QED BY <2>1, <1>1
<1>2. ASSUME FirePlain, ~running, timer' \in BOOLEAN, UNCHANGED <<crashed, threw>>
      PROVE GuardInv'
  BY <1>1, <1>2 DEF FirePlain
<1>3. ASSUME FireStopping, ~running, timer' \in BOOLEAN, UNCHANGED <<crashed, threw>>
      PROVE GuardInv'
  <2>1. PICK c \in Caller : StopCalledBy(c) /\ inside' = inside \cup {c}
    BY <1>3 DEF FireStopping
  <2> QED BY <1>1, <1>3, <2>1 DEF FireStopping, StopCalledBy, Awaited
<1>4. CASE Start
  <2>1. CASE KickReturns
    BY <1>4, <2>1 DEF Start, KickReturns, KickSkipped
  <2>2. CASE ~KickSkipped /\ (FirePlain \/ FireStopping)
    <3>1. timer' \in BOOLEAN /\ UNCHANGED <<crashed, threw>>
      BY <1>4 DEF Start
    <3> QED BY <1>2, <1>3, <2>2, <3>1 DEF KickSkipped
  <2> QED BY <1>4, <2>1, <2>2 DEF Start, Kick
<1>5. CASE IntervalFires
  <2>1. timer' \in BOOLEAN /\ UNCHANGED <<crashed, threw>> /\ ~running
    BY <1>5 DEF IntervalFires, KickSkipped
  <2> QED BY <1>2, <1>3, <1>5, <2>1 DEF IntervalFires
<1>6. CASE UnhandledRejection
  BY <1>6 DEF UnhandledRejection
<1>7. CASE UNCHANGED vars
  BY <1>7 DEF vars
<1>8. ASSUME NEW c \in Caller, Stop(c) PROVE GuardInv'
  BY <1>8 DEF Stop, StopCalledBy, Awaited
<1>9. ASSUME NEW c \in Caller, StopReturns(c) PROVE GuardInv'
  BY <1>9 DEF StopReturns
<1>10. ASSUME NEW p \in Promise, TickSettles(p) PROVE GuardInv'
  BY <1>10 DEF TickSettles, TickResolves, TickRejects, Becomes
<1>11. ASSUME NEW p \in Promise, PromiseJob(p) PROVE GuardInv'
  <2>1. CASE OnError(p)
    <3>1. PICK s \in {"settling", "throwing"} : Becomes(p, s)
      BY <2>1 DEF OnError, AfterOnError
    <3>2. threw' \in BOOLEAN
      BY <2>1 DEF OnError
    <3> QED BY <2>1, <3>1, <3>2 DEF OnError, Becomes
  <2>2. CASE Finally(p)
    BY <2>2 DEF Finally, RunningAfter
  <2> QED BY <1>11, <2>1, <2>2 DEF PromiseJob
<1> QED BY <1>4, <1>5, <1>6, <1>7, <1>8, <1>9, <1>10, <1>11 DEF Next, Idle

\* Ticks never overlap: whatever ticks, onError and the callers of stop() do,
\* at most one tick's code is under way.
THEOREM NeverReentered == Spec => []NoOverlap
<1>1. GuardInv => NoOverlap
  BY DEF GuardInv, NoOverlap, Active
<1> QED BY InitGuard, NextGuard, <1>1, PTL DEF Spec

\* After a stop() nothing is fired, so inFlight stays what that stop() awaits.
LEMMA NextDrain == DrainInv /\ [Next]_vars => DrainInv'
<1> SUFFICES ASSUME DrainInv, [Next]_vars PROVE DrainInv'
  OBVIOUS
<1>1. GuardInv'
  BY NextGuard DEF DrainInv
<1> USE NoneAssumption DEF DrainInv, GuardInv, TypeOK, PromiseState, Settled, Resumable
<1>2. ASSUME FirePlain, ~stopped PROVE DrainInv'
  <2>1. \A c \in Caller : caller'[c] = "idle"
    BY <1>2 DEF FirePlain
  <2> QED BY <1>1, <2>1 DEF FirePlain
<1>11. ASSUME FireStopping, ~stopped PROVE DrainInv'
  <2>1. PICK c \in Caller : StopCalledBy(c) /\ inside' = inside \cup {c}
    BY <1>11 DEF FireStopping
  <2>2. \A d \in Caller : d # c => caller'[d] = "idle"
    BY <2>1, <1>11 DEF StopCalledBy
  <2>3. caller'[c] = "awaiting" /\ stopped' /\ c \in inside'
    BY <2>1 DEF StopCalledBy
  <2> QED BY <1>1, <2>2, <2>3
<1>3. CASE Start
  BY <1>1, <1>2, <1>11, <1>3 DEF Start, Kick, KickReturns, KickSkipped
<1>4. CASE IntervalFires
  BY <1>2, <1>11, <1>4 DEF IntervalFires, KickSkipped
<1>5. CASE UnhandledRejection
  BY <1>1, <1>5 DEF UnhandledRejection
<1>6. CASE UNCHANGED vars
  BY <1>1, <1>6 DEF vars
<1>7. ASSUME NEW c \in Caller, Stop(c) PROVE DrainInv'
  BY <1>1, <1>7 DEF Stop, StopCalledBy, Awaited
<1>8. ASSUME NEW c \in Caller, StopReturns(c) PROVE DrainInv'
  BY <1>1, <1>8 DEF StopReturns
<1>9. ASSUME NEW p \in Promise, TickSettles(p) PROVE DrainInv'
  BY <1>1, <1>9 DEF TickSettles, TickResolves, TickRejects, Becomes
<1>10. ASSUME NEW p \in Promise, PromiseJob(p) PROVE DrainInv'
  <2>1. CASE OnError(p)
    <3>1. PICK s \in {"settling", "throwing"} : Becomes(p, s)
      BY <2>1 DEF OnError, AfterOnError
    <3> QED BY <1>1, <2>1, <3>1 DEF OnError, Becomes
  <2>2. CASE Finally(p)
    BY <1>1, <2>2 DEF Finally, RunningAfter
  <2> QED BY <1>10, <2>1, <2>2 DEF PromiseJob
<1> QED BY <1>3, <1>4, <1>5, <1>6, <1>7, <1>8, <1>9, <1>10 DEF Next, Idle

\* stop() drains: whoever called stop() from outside a tick's synchronous
\* prefix and got past it sees no tick's code under way, for ever.
THEOREM StopDrains == Spec => []Drained
<1>1. Init => DrainInv
  BY InitGuard DEF Init, DrainInv
<1>2. DrainInv /\ [Next]_vars => DrainInv'
  BY NextDrain
<1>3. DrainInv => Drained
  BY NoneAssumption DEF DrainInv, GuardInv, TypeOK, Drained, Active, Settled, Resumable
<1> QED BY <1>1, <1>2, <1>3, PTL DEF Spec

\* Only an onError that throws makes a tick's promise reject, and a process that
\* died of a rejection takes no further step.
LEMMA NextCrash == CrashInv /\ GuardInv /\ [Next]_vars => CrashInv'
<1> SUFFICES ASSUME CrashInv, GuardInv, [Next]_vars PROVE CrashInv'
  OBVIOUS
<1>1. TypeOK'
  BY NextGuard DEF GuardInv
<1>2. ASSUME UNCHANGED <<promise, awaits, crashed, threw>> PROVE CrashInv'
  BY <1>1, <1>2 DEF CrashInv, Unhandled
<1>3. ASSUME Fire, ~crashed, UNCHANGED <<crashed, threw>> PROVE CrashInv'
  <2>1. PICK p \in Promise : promise' = [promise EXCEPT ![p] = "pending"]
    BY <1>3 DEF Fire
  <2> QED BY <1>1, <1>3, <2>1 DEF CrashInv, TypeOK
<1>4. CASE Start
  BY <1>1, <1>2, <1>3, <1>4 DEF Start, Kick, KickReturns, FirePlain, FireStopping
<1>5. CASE IntervalFires
  BY <1>3, <1>5 DEF IntervalFires, FirePlain, FireStopping
<1>6. CASE UnhandledRejection
  BY <1>1, <1>6 DEF UnhandledRejection, CrashInv, Unhandled
<1>7. CASE UNCHANGED vars
  BY <1>2, <1>7 DEF vars
<1>8. ASSUME NEW c \in Caller, Stop(c) PROVE CrashInv'
  BY <1>1, <1>8 DEF Stop, CrashInv
<1>9. ASSUME NEW c \in Caller, StopReturns(c) PROVE CrashInv'
  BY <1>2, <1>9 DEF StopReturns
<1>10. ASSUME NEW p \in Promise, TickSettles(p) PROVE CrashInv'
  BY <1>1, <1>10 DEF TickSettles, TickResolves, TickRejects, Becomes, CrashInv, TypeOK
<1>11. ASSUME NEW p \in Promise, OnError(p) PROVE CrashInv'
  <2>1. CASE Becomes(p, "settling") /\ UNCHANGED threw
    BY <1>1, <1>11, <2>1 DEF OnError, Becomes, CrashInv, TypeOK
  <2>2. CASE Becomes(p, "throwing") /\ threw' = TRUE
    BY <1>1, <1>11, <2>2 DEF OnError, Becomes, CrashInv, TypeOK
  <2> QED BY <1>11, <2>1, <2>2 DEF OnError, AfterOnError
<1>12. ASSUME NEW p \in Promise, Finally(p) PROVE CrashInv'
  BY <1>1, <1>12 DEF Finally, CrashInv, TypeOK
<1> QED BY <1>4, <1>5, <1>6, <1>7, <1>8, <1>9, <1>10, <1>11, <1>12 DEF Next, Idle, PromiseJob

\* What a crash needs follows from the two invariants.
LEMMA CrashImplies == CrashInv => ProcessSurvives
BY DEF CrashInv, ProcessSurvives, Unhandled

\* A rejected tick never ends the process: it takes an onError that throws, and
\* a promise on which no stop() put its catch.
THEOREM RejectedTickSurvived == Spec => []ProcessSurvives
<1>1. Init => CrashInv
  <2> SUFFICES ASSUME Init PROVE CrashInv
    OBVIOUS
  <2>1. TypeOK
    BY InitGuard DEF GuardInv
  <2>2. ~crashed
    BY DEF Init
  <2>3. \A p \in Promise : promise[p] = "free"
    BY DEF Init
  <2> QED BY <2>1, <2>2, <2>3 DEF CrashInv
<1> QED BY <1>1, InitGuard, NextGuard, NextCrash, CrashImplies, PTL DEF Spec

-----------------------------------------------------------------------------
\* The graceful shutdown.

\* A process that has seen no signal satisfies the invariant.
LEMMA InitShutdown == ShutdownInit => ShutdownInv
<1> SUFFICES ASSUME ShutdownInit PROVE ShutdownInv
  OBVIOUS
<1>1. ShutdownTypeOK
  BY DEF ShutdownInit, ShutdownTypeOK
<1>2. DrainsOnce
  BY DEF ShutdownInit, DrainsOnce
<1> QED BY <1>1, <1>2 DEF ShutdownInit, ShutdownInv, ExitCodes

\* A signal past the guard keeps the invariant, however onShutdown begins.
LEMMA TrappedKeeps ==
  ASSUME ShutdownInv, NEW s \in Signals, Trapped(s),
         \/ drain' = "pending" /\ UNCHANGED exit
         \/ drain' = "threw" /\ exit' = "exit1"
  PROVE  ShutdownInv'
<1> USE DEF ShutdownInv
<1>1. /\ ~shuttingDown /\ exit = "alive"
      /\ race = "open" /\ drains = 0
  BY DEF Trapped, FirstSignal, Alive
<1>2. /\ shuttingDown' = TRUE /\ drains' = 1 /\ deadline' \in {"armed", "none"}
      /\ UNCHANGED <<hasTimeout, race, handles>>
  BY <1>1 DEF Trapped
<1>3. received' \in SUBSET Signals
  BY DEF Trapped, ShutdownTypeOK
<1>4. ShutdownTypeOK'
  BY <1>1, <1>2, <1>3 DEF ShutdownTypeOK
<1>5. DrainsOnce' /\ ExitCodes'
  BY <1>1, <1>2 DEF DrainsOnce, ExitCodes
<1> QED BY <1>1, <1>2, <1>4, <1>5

\* Every step keeps the invariant.
LEMMA NextShutdown == ShutdownInv /\ [ShutdownNext]_shutdownVars => ShutdownInv'
<1> SUFFICES ASSUME ShutdownInv, [ShutdownNext]_shutdownVars PROVE ShutdownInv'
  OBVIOUS
<1>1. ASSUME NEW s \in Signals, Handle(s) PROVE ShutdownInv'
  BY <1>1, TrappedKeeps DEF Handle
<1>2. ASSUME NEW s \in Signals, HandleThrows(s) PROVE ShutdownInv'
  BY <1>2, TrappedKeeps DEF HandleThrows
<1> USE DEF ShutdownInv, ShutdownTypeOK, DrainsOnce, ExitCodes, Alive
<1>3. ASSUME NEW s \in Signals, HandleIgnored(s) PROVE ShutdownInv'
  BY <1>3 DEF HandleIgnored
<1>4. ASSUME NEW outcome \in {"ok", "failed"}, DrainSettles(outcome) PROVE ShutdownInv'
  BY <1>4 DEF DrainSettles
<1>5. CASE TimeoutFires
  BY <1>5 DEF TimeoutFires, TimeoutSettles
<1>6. CASE RaceSettles
  BY <1>6 DEF RaceSettles, RaceOver
<1>7. CASE HandlesClose
  BY <1>7 DEF HandlesClose
<1>8. CASE LoopEmpty
  BY <1>8 DEF LoopEmpty
<1>9. CASE UNCHANGED shutdownVars
  BY <1>9 DEF shutdownVars
<1> QED BY <1>1, <1>2, <1>3, <1>4, <1>5, <1>6, <1>7, <1>8, <1>9 DEF ShutdownNext, Exited

\* The invariant holds throughout.
LEMMA ShutdownInvariant == ShutdownSpec => []ShutdownInv
BY InitShutdown, NextShutdown, PTL DEF ShutdownSpec

\* The exit code tells which of drain and timeout came first, except when the
\* event loop ran empty under the unref'd timer of installGracefulShutdown.
THEOREM ExitCodeTells == ShutdownSpec => []ExitCodes
<1>1. ShutdownInv => ExitCodes
  BY DEF ShutdownInv
<1> QED BY <1>1, ShutdownInvariant, PTL

\* However many signals arrive, onShutdown is called once.
THEOREM OneDrain == ShutdownSpec => []DrainsOnce
<1>1. ShutdownInv => DrainsOnce
  BY DEF ShutdownInv
<1> QED BY <1>1, ShutdownInvariant, PTL

-----------------------------------------------------------------------------
\* The service.

\* A step of the service is a step of the tick loop, or leaves the loop alone.
LEMMA StepOfLoop == [RuntimeNext]_allVars => [Next]_vars
<1> SUFFICES ASSUME [RuntimeNext]_allVars PROVE Next \/ UNCHANGED vars
  OBVIOUS
<1>1. CASE Install \/ StartAgain \/ LoopFires \/ Crash
  BY <1>1 DEF Install, StartAgain, LoopFires, Crash, Next
<1>2. CASE LoopJob
  BY <1>2 DEF LoopJob, Next
<1>3. ASSUME NEW p \in Promise, TickOver(p) PROVE Next
  BY <1>3 DEF TickOver, Next
<1>4. ASSUME NEW s \in Signals, SignalDrains(s) PROVE Next
  BY <1>4, DrainAssumption DEF SignalDrains, Next
<1>5. ASSUME NEW s \in Signals, SignalIgnored(s) PROVE UNCHANGED vars
  BY <1>5 DEF SignalIgnored, ShutdownOnly
<1>6. CASE Listen \/ SignalKills \/ CloseServer \/ ServerCloses \/ WorkerDrained \/ DrainTimeout
  BY <1>6 DEF Listen, SignalKills, CloseServer, ServerCloses, WorkerDrained, DrainTimeout,
              ShutdownOnly
<1>7. CASE Exit \/ WorkerHandlesClose \/ WorkerLeaves \/ Ended \/ UNCHANGED allVars
  BY <1>7 DEF Exit, WorkerHandlesClose, WorkerLeaves, Ended, ShutdownOnly, allVars
<1> QED BY <1>1, <1>2, <1>3, <1>4, <1>5, <1>6, <1>7 DEF RuntimeNext

\* Nor does the service do to the shutdown handler what the handler does not.
LEMMA StepOfShutdown == [RuntimeNext]_allVars => [ShutdownNext]_shutdownVars
BY DEF RuntimeNext, allVars, Listen, Install, StartAgain, SignalKills, SignalDrains,
       SignalIgnored, CloseServer, ServerCloses, WorkerDrained, DrainTimeout, Exit,
       WorkerHandlesClose, WorkerLeaves, LoopFires, LoopJob, Crash, Ended, TickOver,
       LoopOnly, ShutdownOnly, ShutdownNext

\* The wiring keeps the promises of its parts: a service is a tick loop and a
\* graceful shutdown, so what is proved of each holds in the service.
THEOREM ServiceKeepsParts == RuntimeSpec => Spec /\ ShutdownSpec
<1>1. RuntimeInit => Init /\ ShutdownInit
  BY DEF RuntimeInit
<1> QED BY <1>1, StepOfLoop, StepOfShutdown, PTL DEF RuntimeSpec, Spec, ShutdownSpec

\* start() on an installed service fires nothing: the interval is gone only
\* after a stop().
LEMMA StartAgainFiresNothing ==
  ASSUME RuntimeInv, StartAgain
  PROVE  UNCHANGED <<running, stopped, inFlight, promise, caller, awaits, crashed, inside, threw>>
<1>1. stopped
  BY DEF StartAgain, Start, RuntimeInv, WiringInv
<1> QED BY <1>1 DEF StartAgain, Start, Kick, KickReturns, KickSkipped

\* A tick that is fired leaves the service installed, with the fired one active.
LEMMA FireActivates ==
  ASSUME GuardInv, ~running, FirePlain \/ FireStopping
  PROVE  /\ Installed' /\ running' /\ Active = {} /\ Active' # {}
<1>1. PICK p \in Promise : /\ inFlight' = p /\ running' = TRUE
                           /\ promise' = [promise EXCEPT ![p] = "pending"]
  BY DEF FirePlain, FireStopping, Fire
<1>2. Installed' /\ running'
  BY <1>1, NoneAssumption DEF Installed
<1>3. Active = {}
  BY DEF GuardInv, Active
<1>4. p \in Active'
  BY <1>1 DEF GuardInv, TypeOK, Active
<1> QED BY <1>2, <1>3, <1>4

\* Whoever has not called stop() awaits nothing, and a call of stop() keeps it so.
LEMMA IdleAwaitsNothing ==
  ASSUME TypeOK, WiringInv,
         \/ UNCHANGED <<caller, awaits>>
         \/ \E c \in Caller : StopCalledBy(c)
  PROVE  \A d \in Caller : caller'[d] = "idle" => awaits'[d] = None
<1>1. CASE UNCHANGED <<caller, awaits>>
  BY <1>1 DEF WiringInv
<1>2. ASSUME NEW c \in Caller, StopCalledBy(c)
      PROVE  \A d \in Caller : caller'[d] = "idle" => awaits'[d] = None
  BY <1>2 DEF StopCalledBy, TypeOK, WiringInv
<1> QED BY <1>1, <1>2

\* The wiring: every step of the service keeps WiringInv.
LEMMA NextWiring == RuntimeInv /\ [RuntimeNext]_allVars => WiringInv'
<1> SUFFICES ASSUME RuntimeInv, [RuntimeNext]_allVars PROVE WiringInv'
  OBVIOUS
<1>1. GuardInv /\ TypeOK /\ WiringInv
  BY DEF RuntimeInv, DrainInv, GuardInv
<1>2. ASSUME FirePlain \/ FireStopping, ~running, timer \/ timer', timer' \/ stopped',
             UNCHANGED <<http, server, killed>>
      PROVE  WiringInv'
  <2>1. Installed'
    BY <1>1, <1>2, FireActivates
  <2>2. \A d \in Caller : caller'[d] = "idle" => awaits'[d] = None
    BY <1>1, <1>2, IdleAwaitsNothing DEF FirePlain, FireStopping
  <2> QED BY <1>1, <1>2, <2>1, <2>2 DEF WiringInv
<1>3. CASE Install
  <2>1. ~stopped /\ ~running /\ timer' /\ UNCHANGED <<http, server, killed>>
    BY <1>1, <1>3 DEF Install, Start, LoopOnly, WiringInv
  <2> QED BY <1>2, <1>3, <2>1 DEF Install, Start, Kick, KickReturns, KickSkipped
<1>4. CASE LoopFires
  <2>1. ~running /\ timer /\ UNCHANGED <<http, server, killed>>
    BY <1>4 DEF LoopFires, LoopOnly, IntervalFires, KickSkipped
  <2>2. timer' \/ stopped'
    BY <1>4 DEF LoopFires, IntervalFires, FireStopping, StopCalledBy
  <2> QED BY <1>2, <1>4, <2>1, <2>2 DEF LoopFires, IntervalFires
<1>5. CASE StartAgain
  BY <1>1, <1>5, StartAgainFiresNothing DEF StartAgain, LoopOnly, Start, WiringInv, Installed,
     shutdownVars
<1>6. ASSUME NEW s \in Signals, SignalDrains(s) PROVE WiringInv'
  <2>1. \A d \in Caller : caller'[d] = "idle" => awaits'[d] = None
    BY <1>1, <1>6, DrainAssumption, IdleAwaitsNothing DEF SignalDrains, Stop
  <2> QED BY <1>1, <1>6, <2>1 DEF SignalDrains, Stop, StopCalledBy, WiringInv, Installed
<1>7. CASE LoopJob
  <2>1. ASSUME NEW c \in Caller, StopReturns(c) PROVE WiringInv'
    BY <1>1, <1>7, <2>1 DEF LoopJob, LoopOnly, StopReturns, TypeOK, WiringInv, Installed,
       shutdownVars
  <2>2. ASSUME NEW p \in Promise, PromiseJob(p) PROVE WiringInv'
    <3>1. promise[p] # "free" /\ Installed
      BY <1>1, <2>2 DEF PromiseJob, OnError, Finally, WiringInv
    <3> QED BY <1>1, <1>7, <2>2, <3>1 DEF LoopJob, LoopOnly, PromiseJob, OnError, Finally,
               Becomes, WiringInv, Installed, shutdownVars
  <2> QED BY <1>7, <2>1, <2>2 DEF LoopJob
<1>8. ASSUME NEW p \in Promise, TickOver(p) PROVE WiringInv'
  <2>1. promise[p] # "free" /\ Installed
    BY <1>1, <1>8 DEF TickOver, TickSettles, TickResolves, TickRejects, WiringInv
  <2> QED BY <1>1, <1>8, <2>1 DEF TickOver, LoopOnly, TickSettles, TickResolves, TickRejects,
             Becomes, WiringInv, Installed, shutdownVars
<1>9. CASE Crash
  BY <1>1, <1>9 DEF Crash, LoopOnly, UnhandledRejection, WiringInv, Installed, shutdownVars
<1>10. ASSUME UNCHANGED <<vars, shuttingDown, http>>, handles \/ Installed => handles' \/ Installed,
              server' \in {"none", "listening", "closing", "closed", "broken"},
              killed' \in BOOLEAN
       PROVE  WiringInv'
  BY <1>1, <1>10 DEF vars, WiringInv, Installed
<1>11. CASE Listen \/ SignalKills \/ CloseServer
  BY <1>1, <1>10, <1>11 DEF Listen, SignalKills, CloseServer, shutdownVars, WiringInv
<1>12. CASE ServerCloses
  BY <1>1, <1>10, <1>12 DEF ServerCloses, DrainSettles, WiringInv
<1>13. CASE WorkerDrained \/ DrainTimeout \/ Exit
  BY <1>1, <1>10, <1>13 DEF WorkerDrained, DrainTimeout, Exit, ShutdownOnly, DrainSettles,
     TimeoutFires, RaceSettles, WiringInv
<1>14. CASE WorkerHandlesClose \/ WorkerLeaves
  BY <1>1, <1>10, <1>14 DEF WorkerHandlesClose, WorkerLeaves, ShutdownOnly, HandlesClose,
     LoopEmpty, WiringInv
<1>15. ASSUME NEW s \in Signals, SignalIgnored(s) PROVE WiringInv'
  BY <1>1, <1>10, <1>15 DEF SignalIgnored, ShutdownOnly, HandleIgnored, WiringInv
<1>16. CASE UNCHANGED allVars
  BY <1>1, <1>10, <1>16 DEF allVars, shutdownVars, WiringInv
<1> QED BY <1>3, <1>4, <1>5, <1>6, <1>7, <1>8, <1>9, <1>11, <1>12, <1>13, <1>14, <1>15, <1>16
        DEF RuntimeNext, Ended

\* A call of stop() takes no handler away.
LEMMA StopKeepsHandlers ==
  ASSUME TypeOK, WiringInv, NEW q \in Promise, \A d \in Caller : awaits'[d] # q,
         \/ UNCHANGED awaits
         \/ \E c \in Caller : StopCalledBy(c)
  PROVE  \A d \in Caller : awaits[d] # q
<1>1. ASSUME NEW c \in Caller, StopCalledBy(c) PROVE \A d \in Caller : awaits[d] # q
  BY <1>1, NoneAssumption DEF StopCalledBy, TypeOK, WiringInv
<1> QED BY <1>1

\* A tick becomes active only when no rejection lacks a handler, and none loses
\* its handler while a tick is active.
LEMMA NextRejection == RuntimeInv /\ [RuntimeNext]_allVars => RejectionInv'
<1> SUFFICES ASSUME RuntimeInv, [RuntimeNext]_allVars, NEW q \in Promise, Unhandled(q)'
             PROVE  Active' = {}
  BY DEF RejectionInv
<1>1. GuardInv /\ TypeOK /\ WiringInv /\ RejectionInv
  BY DEF RuntimeInv, DrainInv, GuardInv
<1>2. ASSUME UNCHANGED <<promise, awaits>> PROVE Active' = {}
  BY <1>1, <1>2 DEF RejectionInv, Unhandled, Active
<1>3. ASSUME FirePlain \/ FireStopping PROVE promise[q] = "rejected" /\ Unhandled(q)
  <2>1. \A d \in Caller : awaits[d] # q
    BY <1>1, <1>3, StopKeepsHandlers DEF FirePlain, FireStopping, Unhandled
  <2> QED BY <1>1, <1>3, <2>1 DEF FirePlain, FireStopping, Fire, Unhandled, TypeOK
<1>4. CASE Install
  BY <1>1, <1>2, <1>3, <1>4 DEF Install, Start, Kick, KickReturns, WiringInv
<1>5. CASE LoopFires
  BY <1>3, <1>5 DEF LoopFires, IntervalFires
<1>6. CASE StartAgain
  BY <1>2, <1>6, StartAgainFiresNothing
<1>7. ASSUME NEW s \in Signals, SignalDrains(s) PROVE Active' = {}
  <2>1. Unhandled(q)
    BY <1>1, <1>7, DrainAssumption, StopKeepsHandlers DEF SignalDrains, Stop, Unhandled
  <2> QED BY <1>1, <1>7, <2>1 DEF SignalDrains, Stop, RejectionInv, Active
<1>8. ASSUME NEW p \in Active, UNCHANGED awaits,
             NEW s \in {"rejecting", "settling", "throwing"},
             promise' = [promise EXCEPT ![p] = s]
      PROVE  FALSE
  BY <1>1, <1>8 DEF RejectionInv, Unhandled, Active, TypeOK
<1>9. ASSUME NEW p \in Promise, TickOver(p) PROVE FALSE
  BY <1>8, <1>9 DEF TickOver, TickSettles, TickResolves, TickRejects, Becomes, Active
<1>10. CASE LoopJob
  <2>1. ASSUME NEW p \in Promise, OnError(p) PROVE FALSE
    BY <1>8, <2>1 DEF OnError, AfterOnError, Becomes, Active
  <2>2. ASSUME NEW p \in Promise, Finally(p) PROVE Active' = {}
    BY <1>1, <2>2 DEF Finally, Active, GuardInv, TypeOK
  <2>3. ASSUME NEW c \in Caller, StopReturns(c) PROVE Active' = {}
    BY <1>2, <2>3 DEF StopReturns
  <2> QED BY <1>10, <2>1, <2>2, <2>3 DEF LoopJob, PromiseJob
<1>11. CASE Crash
  BY <1>2, <1>11 DEF Crash, UnhandledRejection
<1>12. CASE UNCHANGED vars
  BY <1>2, <1>12 DEF vars
<1>13. CASE Listen \/ SignalKills \/ CloseServer \/ ServerCloses \/ WorkerDrained \/ DrainTimeout
  BY <1>12, <1>13 DEF Listen, SignalKills, CloseServer, ServerCloses, WorkerDrained,
                      DrainTimeout, ShutdownOnly
<1>14. CASE Exit \/ WorkerHandlesClose \/ WorkerLeaves \/ Ended \/ UNCHANGED allVars
  BY <1>12, <1>14 DEF Exit, WorkerHandlesClose, WorkerLeaves, Ended, ShutdownOnly, allVars
<1>15. ASSUME NEW s \in Signals, SignalIgnored(s) PROVE Active' = {}
  BY <1>12, <1>15 DEF SignalIgnored, ShutdownOnly
<1> QED BY <1>4, <1>5, <1>6, <1>7, <1>9, <1>10, <1>11, <1>13, <1>14, <1>15 DEF RuntimeNext

\* The order of the drain: every step of the service keeps TeardownInv.
LEMMA NextTeardown == RuntimeInv /\ [RuntimeNext]_allVars => TeardownInv'
<1> SUFFICES ASSUME RuntimeInv, [RuntimeNext]_allVars PROVE TeardownInv'
  OBVIOUS
<1>1. TypeOK /\ WiringInv /\ TeardownInv /\ ShutdownInv
  BY DEF RuntimeInv, DrainInv, GuardInv
<1>2. ASSUME UNCHANGED <<shuttingDown, handles, drain, http, server>>, onShutdown \notin inside',
             stopped => stopped', Installed => Installed', LoopStopped => LoopStopped',
             http /\ Installed' => server # "none"
      PROVE  TeardownInv'
  BY <1>1, <1>2 DEF TeardownInv
<1>3. CASE Install
  <2>1. LoopStopped => LoopStopped'
    BY <1>1, <1>3, DrainAssumption DEF Install, Start, Kick, KickReturns, FirePlain, FireStopping,
       StopCalledBy, LoopStopped, TypeOK
  <2> QED BY <1>1, <1>2, <1>3, <2>1 DEF Install, LoopOnly, TickNotDrain, Start, Kick, KickReturns,
             FirePlain, FireStopping, StopCalledBy, shutdownVars
<1>4. CASE LoopFires
  <2>1. LoopStopped => LoopStopped'
    BY <1>1, <1>4, DrainAssumption DEF LoopFires, IntervalFires, FirePlain, FireStopping,
       StopCalledBy, LoopStopped, TypeOK
  <2>2. Installed
    BY <1>1, <1>4 DEF LoopFires, IntervalFires, WiringInv
  <2>3. Installed'
    BY <1>4, NoneAssumption DEF LoopFires, IntervalFires, FirePlain, FireStopping, Fire, Installed
  <2>4. stopped => stopped'
    BY <1>4 DEF LoopFires, IntervalFires, FirePlain, FireStopping, StopCalledBy
  <2> QED BY <1>1, <1>2, <1>4, <2>1, <2>2, <2>3, <2>4 DEF LoopFires, LoopOnly, TickNotDrain,
             shutdownVars, TeardownInv
<1>5. CASE StartAgain
  BY <1>1, <1>2, <1>5, StartAgainFiresNothing DEF StartAgain, LoopOnly, shutdownVars, Installed,
     LoopStopped, TeardownInv
<1>6. ASSUME NEW s \in Signals, SignalDrains(s) PROVE TeardownInv'
  <2>1. /\ ~shuttingDown /\ shuttingDown' /\ stopped' /\ drain' = "pending"
        /\ UNCHANGED <<inFlight, inside, handles, http, server>>
    BY <1>6 DEF SignalDrains, Handle, Trapped, FirstSignal, Stop, StopCalledBy
  <2> QED BY <1>1, <2>1 DEF TeardownInv, Installed
<1>7. CASE LoopJob
  <2>1. LoopStopped => LoopStopped'
    BY <1>1, <1>7, DrainAssumption DEF LoopJob, PromiseJob, OnError, Finally, Becomes,
       StopReturns, LoopStopped, TypeOK
  <2>2. UNCHANGED <<inside, stopped, inFlight>>
    BY <1>7 DEF LoopJob, PromiseJob, OnError, Finally, Becomes, StopReturns
  <2> QED BY <1>1, <1>2, <1>7, <2>1, <2>2 DEF LoopJob, LoopOnly, shutdownVars, Installed, TeardownInv
<1>8. ASSUME NEW p \in Promise, TickOver(p) PROVE TeardownInv'
  BY <1>1, <1>2, <1>8 DEF TickOver, TickSettles, TickResolves, TickRejects, Becomes, LoopOnly,
     shutdownVars, Installed, LoopStopped, TeardownInv
<1>9. CASE Crash
  BY <1>1, <1>2, <1>9 DEF Crash, UnhandledRejection, LoopOnly, shutdownVars, Installed,
     LoopStopped, TeardownInv
<1>10. CASE Listen
  BY <1>1, <1>10 DEF Listen, vars, shutdownVars, Installed, LoopStopped, TeardownInv
<1>11. CASE CloseServer
  BY <1>1, <1>11 DEF CloseServer, vars, shutdownVars, Installed, LoopStopped, TeardownInv,
     ShutdownInv
<1>12. CASE ServerCloses
  <2>1. shuttingDown /\ LoopStopped /\ http
    BY <1>1, <1>12 DEF ServerCloses, TeardownInv
  <2>2. UNCHANGED <<vars, shuttingDown, handles, http>>
    BY <1>12 DEF ServerCloses, DrainSettles
  <2>3. ASSUME server' = "closed" \/ (server' = "broken" /\ drain' = "failed") PROVE TeardownInv'
    BY <1>1, <2>1, <2>2, <2>3 DEF vars, Installed, LoopStopped, TeardownInv
  <2>4. CASE DrainSettles("failed") /\ server' = "broken"
    BY <2>3, <2>4 DEF DrainSettles
  <2> QED BY <1>12, <2>3, <2>4 DEF ServerCloses
<1>13. CASE WorkerDrained
  BY <1>1, <1>13 DEF WorkerDrained, DrainSettles, ShutdownOnly, vars, Installed, LoopStopped,
     TeardownInv
<1>14. CASE WorkerHandlesClose
  BY <1>1, <1>14 DEF WorkerHandlesClose, HandlesClose, ShutdownOnly, vars, Installed, LoopStopped,
     TeardownInv
<1>15. ASSUME UNCHANGED <<vars, shuttingDown, handles, drain, http, server>> PROVE TeardownInv'
  BY <1>1, <1>15 DEF vars, Installed, LoopStopped, TeardownInv
<1>16. CASE SignalKills \/ DrainTimeout \/ Exit \/ WorkerLeaves
  BY <1>15, <1>16 DEF SignalKills, DrainTimeout, Exit, WorkerLeaves, ShutdownOnly, TimeoutFires,
     RaceSettles, LoopEmpty, shutdownVars
<1>17. ASSUME NEW s \in Signals, SignalIgnored(s) PROVE TeardownInv'
  BY <1>15, <1>17 DEF SignalIgnored, HandleIgnored, ShutdownOnly
<1>18. CASE Ended \/ UNCHANGED allVars
  BY <1>15, <1>18 DEF Ended, allVars, shutdownVars
<1> QED BY <1>3, <1>4, <1>5, <1>6, <1>7, <1>8, <1>9, <1>10, <1>11, <1>12, <1>13, <1>14, <1>16,
           <1>17, <1>18 DEF RuntimeNext

\* A service that has only been loaded satisfies the invariant.
LEMMA InitRuntime == RuntimeInit => RuntimeInv
<1> SUFFICES ASSUME RuntimeInit PROVE RuntimeInv
  OBVIOUS
<1>1. DrainInv
  BY InitGuard DEF RuntimeInit, Init, DrainInv
<1>2. ShutdownInv
  BY InitShutdown DEF RuntimeInit
<1>3. /\ inFlight = None /\ server = "none" /\ drain = "none" /\ inside = {}
      /\ \A p \in Promise : promise[p] = "free"
      /\ \A c \in Caller : awaits[c] = None
  BY DEF RuntimeInit, Init, ShutdownInit
<1>4. ~timer /\ ~running /\ ~stopped /\ ~shuttingDown /\ handles
  BY DEF RuntimeInit, Init, ShutdownInit
<1>5. http \in BOOLEAN /\ killed \in BOOLEAN
  BY DEF RuntimeInit
<1>6. WiringInv
  BY <1>3, <1>4, <1>5 DEF WiringInv, Installed
<1>7. RejectionInv
  BY <1>3 DEF RejectionInv, Unhandled
<1>8. TeardownInv
  BY <1>3, <1>4 DEF TeardownInv, Installed
<1> QED BY <1>1, <1>2, <1>6, <1>7, <1>8 DEF RuntimeInv

\* The invariant of the composition.
LEMMA RuntimeInvariant == RuntimeSpec => []RuntimeInv
<1>1. RuntimeInv /\ [RuntimeNext]_allVars => RuntimeInv'
  BY StepOfLoop, StepOfShutdown, NextDrain, NextShutdown, NextWiring, NextRejection, NextTeardown
     DEF RuntimeInv
<1> QED BY InitRuntime, <1>1, PTL DEF RuntimeSpec

\* The phase of a process that runs.
LEMMA PhaseRunning ==
  Running => Phase = IF shuttingDown THEN "draining" ELSE IF Installed THEN "up" ELSE "boot"
BY DEF Running, Phase

\* A step that changes neither what the process is doing nor the server's
\* openness is invisible in the lifecycle.
LEMMA Invisible ==
  ASSUME UNCHANGED <<http, killed, crashed, exit, shuttingDown>>,
         Installed' <=> Installed,
         Active' = {} <=> Active = {},
         server' \in {"listening", "closing", "broken"} <=> server \in {"listening", "closing", "broken"}
  PROVE  UNCHANGED Lifecycle!lifecycleVars
BY DEF Lifecycle!lifecycleVars, Phase, Alive

\* Every step of the service is a step of the lifecycle or invisible in it.
LEMMA LifecycleStep ==
  RuntimeInv /\ [RuntimeNext]_allVars => [Lifecycle!LifecycleNext]_(Lifecycle!lifecycleVars)
<1> SUFFICES ASSUME RuntimeInv, [RuntimeNext]_allVars
             PROVE  Lifecycle!LifecycleNext \/ UNCHANGED Lifecycle!lifecycleVars
  OBVIOUS
<1> DEFINE Open == {"listening", "closing", "broken"}
<1>1. GuardInv /\ TypeOK /\ WiringInv /\ RejectionInv /\ TeardownInv /\ ShutdownInv
  BY DEF RuntimeInv, DrainInv, GuardInv
<1>2. Active # {} => Installed
  BY <1>1 DEF WiringInv, Active
<1>3. shuttingDown => Installed
  BY <1>1 DEF WiringInv
<1>4. ASSUME LoopStopped PROVE Active = {}
  BY <1>1, <1>4, NoneAssumption, DrainAssumption
     DEF RuntimeInv, DrainInv, GuardInv, TypeOK, LoopStopped, TeardownInv, Active, Settled, Resumable
<1>5. CASE Listen
  <2>1. Phase = "boot" /\ http
    BY <1>1, <1>3, <1>5, PhaseRunning DEF Listen, TeardownInv
  <2>2. UNCHANGED <<http, Phase, Active>> /\ server' \in Open
    BY <1>5 DEF Listen, vars, shutdownVars, Phase, Alive, Installed, Active
  <2> QED BY <2>1, <2>2 DEF Lifecycle!LifecycleNext, Lifecycle!Listens
<1>6. ASSUME FirePlain \/ FireStopping, ~running, Running,
             UNCHANGED <<crashed, shutdownVars, http, server, killed>>
      PROVE  /\ ~shuttingDown /\ Installed => Lifecycle!LifecycleNext
             /\ ~Installed /\ (http => server = "listening") => Lifecycle!LifecycleNext
  <2>1. Installed' /\ Active = {} /\ Active' # {}
    BY <1>1, <1>6, FireActivates
  <2>2. ~shuttingDown => Phase' = "up"
    BY <1>6, <2>1 DEF Running, Phase, Alive, shutdownVars
  <2>3. CASE ~shuttingDown /\ Installed
    BY <1>6, <2>1, <2>2, <2>3, PhaseRunning DEF Lifecycle!LifecycleNext, Lifecycle!WorkStarts
  <2>4. CASE ~Installed /\ (http => server = "listening")
    BY <1>3, <1>6, <2>1, <2>2, <2>4, PhaseRunning DEF Lifecycle!LifecycleNext, Lifecycle!Boots
  <2> QED BY <2>3, <2>4
<1>7. CASE Install
  <2>1. ~stopped /\ ~running /\ (FirePlain \/ FireStopping)
    BY <1>1, <1>7 DEF Install, Start, Kick, KickReturns, KickSkipped, WiringInv
  <2> QED BY <1>6, <1>7, <2>1 DEF Install, LoopOnly, Start
<1>8. CASE LoopFires
  <2>1. ~stopped /\ ~running /\ (FirePlain \/ FireStopping) /\ Installed
    BY <1>1, <1>8 DEF LoopFires, IntervalFires, KickSkipped, WiringInv
  <2> QED BY <1>1, <1>6, <1>8, <2>1 DEF LoopFires, LoopOnly, IntervalFires, TeardownInv
<1>9. CASE StartAgain
  BY <1>9, StartAgainFiresNothing, Invisible DEF StartAgain, LoopOnly, shutdownVars, Installed, Active
<1>10. CASE SignalKills
  <2>1. Phase = "boot" /\ Phase' = "killed" /\ UNCHANGED <<http, Active, server>>
    BY <1>3, <1>10, PhaseRunning DEF SignalKills, Phase, Active, vars
  <2> QED BY <2>1 DEF Lifecycle!LifecycleNext, Lifecycle!Killed
<1>11. ASSUME NEW s \in Signals, SignalDrains(s) PROVE Lifecycle!LifecycleNext
  <2>1. /\ ~shuttingDown /\ shuttingDown' /\ Running' /\ Installed /\ Running
        /\ UNCHANGED <<http, server, promise>>
    BY <1>11 DEF SignalDrains, Handle, Trapped, FirstSignal, Stop, Running, Alive
  <2>2. Phase = "up" /\ Phase' = "draining" /\ UNCHANGED Active
    BY <2>1, PhaseRunning DEF Phase, Running, Active
  <2> QED BY <2>1, <2>2 DEF Lifecycle!LifecycleNext, Lifecycle!DrainStarts
<1>12. CASE CloseServer
  BY <1>12, Invisible DEF CloseServer, vars, shutdownVars, Installed, Active
<1>13. CASE ServerCloses
  <2>1. shuttingDown /\ Active = {} /\ Phase = "draining" /\ UNCHANGED <<vars, http, killed, exit, shuttingDown>>
    BY <1>1, <1>4, <1>13, PhaseRunning DEF ServerCloses, DrainSettles, TeardownInv
  <2>2. UNCHANGED <<Phase, Active, Installed>>
    BY <2>1 DEF vars, Phase, Alive, Installed, Active
  <2>3. CASE server' = "closed"
    BY <1>13, <2>1, <2>2, <2>3 DEF ServerCloses, Lifecycle!LifecycleNext, Lifecycle!ServerCloses
  <2>4. CASE server' = "broken"
    BY <1>13, <2>1, <2>2, <2>4, Invisible DEF ServerCloses, vars
  <2> QED BY <1>13, <2>3, <2>4 DEF ServerCloses
<1>14. ASSUME UNCHANGED <<vars, http, server, killed, exit, shuttingDown>>
       PROVE  UNCHANGED Lifecycle!lifecycleVars
  BY <1>14, Invisible DEF vars, Installed, Active
<1>15. CASE WorkerDrained \/ DrainTimeout \/ WorkerHandlesClose
  BY <1>14, <1>15 DEF WorkerDrained, DrainTimeout, WorkerHandlesClose, ShutdownOnly, DrainSettles,
     TimeoutFires, HandlesClose
<1>16. ASSUME NEW s \in Signals, SignalIgnored(s) PROVE UNCHANGED Lifecycle!lifecycleVars
  BY <1>14, <1>16 DEF SignalIgnored, HandleIgnored, ShutdownOnly
<1>17. CASE Ended \/ UNCHANGED allVars
  BY <1>14, <1>17 DEF Ended, allVars, shutdownVars
<1>18. CASE Exit
  <2>1. /\ Running /\ shuttingDown /\ Phase = "draining"
        /\ UNCHANGED <<vars, http, server, killed>>
    BY <1>1, <1>18, PhaseRunning DEF Exit, ShutdownOnly, RaceSettles, RaceOver, ShutdownInv
  <2>2. UNCHANGED Active
    BY <2>1 DEF vars, Active
  <2>3. CASE race = "ok"
    <3>1. exit' = "exit0" /\ Phase' = "exit0"
      BY <1>18, <2>1, <2>3 DEF Exit, RaceSettles, Phase, Running, Alive, vars
    <3>2. Active = {} /\ server \notin Open
      BY <1>1, <1>4, <2>3 DEF ShutdownInv, TeardownInv
    <3> QED BY <2>1, <2>2, <3>1, <3>2 DEF Lifecycle!LifecycleNext, Lifecycle!ExitsClean
  <2>4. CASE race # "ok"
    <3>1. exit' = "exit1" /\ Phase' = "exit1"
      BY <1>18, <2>1, <2>4 DEF Exit, RaceSettles, Phase, Running, Alive, vars
    <3> QED BY <2>1, <2>2, <3>1 DEF Lifecycle!LifecycleNext, Lifecycle!ExitsForced
  <2> QED BY <2>3, <2>4
<1>19. CASE WorkerLeaves
  <2>1. /\ Running /\ ~http /\ Installed /\ exit' = "exit0"
        /\ UNCHANGED <<vars, http, server, killed>>
    BY <1>1, <1>19 DEF WorkerLeaves, LoopEmpty, ShutdownOnly, WiringInv, TeardownInv
  <2>2. Phase \in {"up", "draining"} /\ Phase' = "exit0" /\ UNCHANGED Active
    BY <2>1, PhaseRunning DEF Phase, Running, Alive, vars, Active
  <2> QED BY <2>1, <2>2 DEF Lifecycle!LifecycleNext, Lifecycle!Abandons
<1>20. ASSUME NEW p \in Active, NEW s \in {"rejecting", "settling", "throwing"}, Running, LoopOnly, Becomes(p, s)
       PROVE  Lifecycle!LifecycleNext \/ UNCHANGED Lifecycle!lifecycleVars
  <2>1. UNCHANGED <<http, server, killed, crashed, exit, shuttingDown, inFlight>>
    BY <1>20 DEF LoopOnly, Becomes, shutdownVars
  <2>2. UNCHANGED <<Phase, Installed>> /\ Phase \in {"up", "draining"}
    BY <1>2, <1>20, <2>1, PhaseRunning DEF Phase, Installed, Alive
  <2>3. CASE s = "rejecting"
    <3>1. p \in Active'
      BY <1>1, <1>20, <2>3 DEF Becomes, Active, TypeOK
    <3> QED BY <2>1, <2>2, <3>1, Invisible
  <2>4. CASE s # "rejecting"
    <3>1. Active' = {}
      BY <1>1, <1>20, <2>4 DEF Becomes, Active, TypeOK, GuardInv
    <3> QED BY <2>1, <2>2, <3>1 DEF Lifecycle!LifecycleNext, Lifecycle!WorkEnds
  <2> QED BY <2>3, <2>4
<1>21. ASSUME NEW p \in Promise, TickOver(p)
       PROVE  Lifecycle!LifecycleNext \/ UNCHANGED Lifecycle!lifecycleVars
  BY <1>20, <1>21 DEF TickOver, LoopOnly, TickSettles, TickResolves, TickRejects, Active
<1>22. CASE LoopJob
  <2>1. ASSUME NEW p \in Promise, OnError(p)
        PROVE  Lifecycle!LifecycleNext \/ UNCHANGED Lifecycle!lifecycleVars
    BY <1>20, <1>22, <2>1 DEF LoopJob, LoopOnly, OnError, AfterOnError, Active
  <2>2. ASSUME NEW p \in Promise, Finally(p) PROVE UNCHANGED Lifecycle!lifecycleVars
    <3>1. UNCHANGED Active
      BY <1>1, <2>2 DEF Finally, Active, TypeOK
    <3> QED BY <1>22, <2>2, <3>1, Invisible DEF LoopJob, LoopOnly, Finally, Installed, shutdownVars
  <2>3. ASSUME NEW c \in Caller, StopReturns(c) PROVE UNCHANGED Lifecycle!lifecycleVars
    BY <1>22, <2>3, Invisible DEF LoopJob, LoopOnly, StopReturns, Installed, Active, shutdownVars
  <2> QED BY <1>22, <2>1, <2>2, <2>3 DEF LoopJob, PromiseJob
<1>23. CASE Crash
  <2>1. Active = {} /\ Installed
    BY <1>1, <1>23 DEF Crash, UnhandledRejection, RejectionInv, WiringInv, Unhandled
  <2>2. Running /\ crashed' /\ UNCHANGED <<http, server, killed, promise>>
    BY <1>23 DEF Crash, LoopOnly, UnhandledRejection
  <2>3. Phase \in {"up", "draining"} /\ Phase' = "crashed" /\ UNCHANGED Active
    BY <2>1, <2>2, PhaseRunning DEF Running, Phase, Active
  <2> QED BY <2>1, <2>2, <2>3 DEF Lifecycle!LifecycleNext, Lifecycle!Crashes
<1> QED BY <1>5, <1>7, <1>8, <1>9, <1>10, <1>11, <1>12, <1>13, <1>15, <1>16, <1>17, <1>18, <1>19,
           <1>21, <1>22, <1>23 DEF RuntimeNext

\* The service implements its lifecycle: once the drain has begun no tick starts,
\* the server closes after the last tick is over, exit 0 comes after both (a
\* worker's empty event loop apart), and an unhandled rejection never ends the
\* process in the middle of a tick.
THEOREM ServiceImplementsLifecycle == RuntimeSpec => ImplementsLifecycle
<1>1. RuntimeInit => Lifecycle!LifecycleInit
  <2> SUFFICES ASSUME RuntimeInit PROVE Lifecycle!LifecycleInit
    OBVIOUS
  <2>1. ~killed /\ ~crashed /\ ~shuttingDown
    BY DEF RuntimeInit, Init, ShutdownInit
  <2>2. exit = "alive" /\ inFlight = None /\ server = "none" /\ http \in BOOLEAN
    BY DEF RuntimeInit, Init, ShutdownInit
  <2>3. Phase = "boot"
    BY <2>1, <2>2 DEF Phase, Alive, Installed
  <2>4. Active = {}
    BY DEF RuntimeInit, Init, Active
  <2> QED BY <2>2, <2>3, <2>4 DEF Lifecycle!LifecycleInit
<1> QED BY <1>1, LifecycleStep, RuntimeInvariant, PTL
        DEF RuntimeSpec, ImplementsLifecycle, Lifecycle!LifecycleSpec
=============================================================================
