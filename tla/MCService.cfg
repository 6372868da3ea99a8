\* Two callers of stop(): the drain and a tick.  Each may pin one promise and
\* inFlight pins another, so |Caller| + 2 names let the loop tick without ever
\* waiting for a name.  Two signals, so that the second is ignored.  Two probes
\* make a burst; the clock allows an answer to expire and to be prolonged by two
\* settings back.
SPECIFICATION ServiceSpec
CONSTANTS
  None = None
  onShutdown = onShutdown
  Promise = {p1, p2, p3, p4}
  Caller = {onShutdown, aTick}
  Signals = {SIGINT, SIGTERM}
  OnErrorThrows = TRUE
  TickStops = TRUE
  HandlesMayClose = TRUE
  Probe = {q1, q2}
  Ttl = 1
  MaxClock = 4
  MaxStep = 2
INVARIANTS
  NoOverlap
  Drained
  ProcessSurvives
  ExitCodes
  SingleFlight
  AnswerFresh
PROPERTIES
  ImplementsLifecycle
  SignalEndsProcess
  KeepsScheduling
  StopTerminates
  ProbeAnswered
