\* As MCGraphqlClient.cfg, with a single page; the property is what the docs
\* promise.
SPECIFICATION ClientSpec
CONSTANTS
  f = f
  g = g
  h = h
  Query = Query
  Garbled = Garbled
  None = None
  Name <- MCName
  SpreadLists <- MCSpreads
  Undefined = Undefined
  PageSize = 2
  MaxPage = 1
  MaxRows = 0
  MaxOps = 0
INVARIANTS
  CollectsEveryReference
