SPECIFICATION WorkerSpec
CONSTANTS
  Policies <- MCPolicies
  OpTimeout = 2
  Jitter = 1
  MaxNow = 18
  Interval = 3
  LivenessTimeout = 7
  MaxSkew = 1
INVARIANTS
  OnlyRetryableIsRetried
  OutcomeIsLastAttempts
  NoFalseRestart
  WedgeDetected
  ReadyIsRecent
