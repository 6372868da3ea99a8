-------------------------- MODULE GracefulShutdown --------------------------
(***************************************************************************)
(* installGracefulShutdown of                                              *)
(* packages/service/service-runtime/src/lifecycle.ts: the first trapped    *)
(* signal starts the injected drain, a race of the drain with an unref'd   *)
(* timer decides the exit code, later signals are ignored.                 *)
(*                                                                         *)
(* The drain is the caller's own code (external): it may resolve, reject,  *)
(* throw before it returns a promise, or never settle.  `handles` is the   *)
(* part of Node's event loop the outcome depends on: whether anything      *)
(* other than the unref'd timer and the signal handlers keeps it alive.    *)
(***************************************************************************)
EXTENDS Naturals

CONSTANTS
  Signals,          \* the trapped signals
  HandlesMayClose   \* TRUE when the drain may release the last handle and
                    \* still be pending, as a worker without a server may

ASSUME HandlesAssumption == HandlesMayClose \in BOOLEAN

VARIABLES
  hasTimeout,     \* options.timeoutMs is given
  shuttingDown,   \* the one-shot guard
  deadline,       \* the timeout: "none", "armed", "fired" or "cleared"
  drain,          \* the promise onShutdown returned
  race,           \* how the race settled
  exit,           \* the process: "alive", or the code it exited with
  handles,        \* a handle keeps the event loop alive
  received,       \* history: the signals that arrived
  drains          \* history: how often onShutdown was called

shutdownVars ==
  <<hasTimeout, shuttingDown, deadline, drain, race, exit, handles, received, drains>>

ShutdownTypeOK ==
  /\ hasTimeout \in BOOLEAN /\ shuttingDown \in BOOLEAN /\ handles \in BOOLEAN
  /\ deadline \in {"none", "armed", "fired", "cleared"}
  /\ drain \in {"none", "pending", "ok", "failed", "threw"}
  /\ race \in {"open", "ok", "failed"}
  /\ exit \in {"alive", "exit0", "exit1"}
  /\ received \in SUBSET Signals
  /\ drains \in Nat

ShutdownInit ==
  /\ hasTimeout \in BOOLEAN
  /\ shuttingDown = FALSE
  /\ deadline = "none"
  /\ drain = "none"
  /\ race = "open"
  /\ exit = "alive"
  /\ handles = TRUE
  /\ received = {}
  /\ drains = 0

Alive == exit = "alive"

-----------------------------------------------------------------------------
\* The one-shot guard of handle().
FirstSignal == ~shuttingDown

\* handle(signal) past its guard: the timer is armed, then onShutdown is called.
Trapped(s) ==
  /\ Alive /\ FirstSignal
  /\ shuttingDown' = TRUE
  /\ received' = received \cup {s}
  /\ deadline' = IF hasTimeout THEN "armed" ELSE "none"
  /\ drains' = drains + 1
  /\ UNCHANGED <<hasTimeout, race, handles>>

Handle(s) == Trapped(s) /\ drain' = "pending" /\ UNCHANGED exit

\* onShutdown throws before it returns a promise: nothing catches it, Node
\* ends the process with code 1.
HandleThrows(s) == Trapped(s) /\ drain' = "threw" /\ exit' = "exit1"

\* handle(signal), any later signal.
HandleIgnored(s) ==
  /\ Alive /\ shuttingDown /\ s \notin received
  /\ received' = received \cup {s}
  /\ UNCHANGED <<hasTimeout, shuttingDown, deadline, drain, race, exit, handles, drains>>

\* The promise of onShutdown settles; the race takes the first to settle.
DrainSettles(outcome) ==
  /\ Alive
  /\ drain = "pending"
  /\ drain' = outcome
  /\ race' = IF race = "open" THEN outcome ELSE race
  /\ UNCHANGED <<hasTimeout, shuttingDown, deadline, exit, handles, received, drains>>

\* Fault: the timer resolves the race.
TimeoutSettlesOk == "ok"

\* The timer rejects the race.
TimeoutSettles == "failed"

\* The timeout: a job of the event loop, so no promise job is queued, and
\* something other than this timer keeps the loop alive.
TimeoutFires ==
  /\ Alive /\ race = "open" /\ handles
  /\ deadline = "armed"
  /\ deadline' = "fired"
  /\ race' = TimeoutSettles
  /\ UNCHANGED <<hasTimeout, shuttingDown, drain, exit, handles, received, drains>>

RaceOver == race # "open"

\* The two handlers of race.then: clear the timer, exit 0 or 1.
RaceSettles ==
  /\ Alive
  /\ RaceOver
  /\ deadline' = IF deadline = "armed" THEN "cleared" ELSE deadline
  /\ exit' = IF race = "ok" THEN "exit0" ELSE "exit1"
  /\ UNCHANGED <<hasTimeout, shuttingDown, drain, race, handles, received, drains>>

\* The service releases its last handle (a closed server, a cleared interval).
HandlesClose ==
  /\ HandlesMayClose
  /\ Alive /\ handles
  /\ handles' = FALSE
  /\ UNCHANGED <<hasTimeout, shuttingDown, deadline, drain, race, exit, received, drains>>

\* Node leaves an empty event loop with code 0: the timer is unref'd.
LoopEmpty ==
  /\ Alive /\ ~handles /\ race = "open"
  /\ exit' = "exit0"
  /\ UNCHANGED <<hasTimeout, shuttingDown, deadline, drain, race, handles, received, drains>>

Exited == ~Alive /\ UNCHANGED shutdownVars

ShutdownNext ==
  \/ \E s \in Signals : Handle(s) \/ HandleThrows(s) \/ HandleIgnored(s)
  \/ \E outcome \in {"ok", "failed"} : DrainSettles(outcome)
  \/ TimeoutFires \/ RaceSettles \/ HandlesClose \/ LoopEmpty \/ Exited

ShutdownSpec == ShutdownInit /\ [][ShutdownNext]_shutdownVars

-----------------------------------------------------------------------------
\* A double Ctrl-C, or SIGTERM then SIGINT, runs the drain once.
DrainsOnce == drains <= 1

\* "Exit codes: 0 on a clean drain, 1 on a rejected drain or the timeout",
\* whichever of the two came first, unless the event loop ran empty under the
\* unref'd timer: then it is 0 with the drain undecided.
ExitCodes ==
  /\ exit = "exit0" => \/ drain = "ok" /\ deadline # "fired"
                       \/ race = "open" /\ ~handles
  /\ exit = "exit1" => drain \in {"failed", "threw"} \/ deadline = "fired"

\* What the steps preserve: each way the race can have settled has its cause.
ShutdownInv ==
  /\ ShutdownTypeOK
  /\ ~shuttingDown => drain = "none" /\ race = "open" /\ drains = 0 /\ deadline = "none"
  /\ DrainsOnce
  /\ race = "ok" => drain = "ok" /\ deadline # "fired"
  /\ race = "failed" => drain = "failed" \/ deadline = "fired"
  /\ race = "open" => deadline # "fired"
  /\ ExitCodes
=============================================================================
