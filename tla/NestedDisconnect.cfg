\* Two clients, no submission: destroy() of the first runs code that calls
\* disconnect() and client().
SPECIFICATION BoundarySafety
CONSTANTS
  None = None
  Client = {c1, c2}
  Submission = {}
  MaxGeneration = 3
INVARIANTS
  TearsDownClient
CHECK_DEADLOCK FALSE
