SPECIFICATION UpdateSpec
CONSTANTS
  t1 = t1
  t2 = t2
  t3 = t3
  i1 = i1
  o1 = o1
  o2 = o2
  o3 = o3
  o4 = o4
  o5 = o5
  None = None
  Task <- ThreeTasks
  Free <- TwoTasks
  Id <- OneId
  Object <- FiveObjects
  MaxVersion = 4
INVARIANTS
  CacheCoherent
  UpdatesKept
SYMMETRY Interchangeable
