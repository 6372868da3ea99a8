SPECIFICATION HookSpec
CONSTANTS
  f1 = f1
  f2 = f2
  Absent = Absent
  File <- MCFile
  MaxEdits = 3
PROPERTIES
  CommitIsChecked
  CommitsStaged
SYMMETRY Interchangeable
