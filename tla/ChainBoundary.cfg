\* Two clients in turn, so that late callbacks of a torn-down provider meet a
\* live one, and that a client made inside destroy() meets the disconnect() that
\* goes on; two submissions, so that one is inside its executor, or left over
\* from the first client, while the other watches; disconnects to spare for
\* nesting them and for calling them twice in a row.
SPECIFICATION BoundarySpec
CONSTANTS
  None = None
  Client = {c1, c2}
  Submission = {s1, s2}
  MaxGeneration = 5
INVARIANTS
  StatusIsCurrent
  NothingLeaks
  ApiOverLiveClient
  NoLeak
  OutcomeIsFirst
PROPERTIES
  SubmitsOverLiveClient
  SubmitSettles
CHECK_DEADLOCK FALSE
