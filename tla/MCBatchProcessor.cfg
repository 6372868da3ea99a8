SPECIFICATION BatchSpec
CONSTANTS
  i1 = i1
  c1 = c1
  c2 = c2
  o1 = o1
  o2 = o2
  o3 = o3
  None = None
  Id <- MCId
  Call <- MCCall
  Object <- MCObject
  Batches <- MCBatches
  Plain = {"summary"}
  Tracked = {"fill"}
  Unhandled = {"noisy", "quiet"}
  LogLimit = 1
  MaxBatches = 3
  Configs <- MCConfigs
  Suffix <- MCSuffix
  vote = vote
  Malformed = Malformed
  Word <- MCWord
INVARIANTS
  RowSpansSightings
  OneRowPerEvent
  LinksOwnBlock
PROPERTIES
  CommitsDecoded
SYMMETRY Interchangeable
