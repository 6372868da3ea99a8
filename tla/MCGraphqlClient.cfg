SPECIFICATION ClientSpec
CONSTANTS
  f = f
  g = g
  h = h
  Query = Query
  Garbled = Garbled
  None = None
  Name <- MCName
  SpreadLists <- MCSpreads
  Undefined = Undefined
  PageSize = 2
  MaxPage = 3
  MaxRows = 4
  MaxOps = 3
INVARIANTS
  CollectsReachable
  ShowsPageAsked
PROPERTIES
  Assembles
  LoadingEnds
