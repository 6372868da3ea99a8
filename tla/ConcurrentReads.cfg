\* EntityCache alone: two tasks, one row, four instances.
SPECIFICATION CacheSpec
CONSTANTS
  None = None
  Task = {t1, t2}
  Id = {i1}
  Object = {o1, o2, o3, o4}
  MaxVersion = 2
PROPERTIES
  ReadsKeepInstance
