SPECIFICATION Spec
CONSTANTS
  home = home
  copy = copy
  Procs = {p1, p2}
  Dirs = {home, copy}
  Home = home
  Empty = {copy}
  NoProc = NoProc
  Requests <- MCRequests
  UserLayers <- MCUserLayers
  Admissions <- MCAdmissions
  Overrides <- MCOverrides
  Fragile <- MCFragile
  MaxRequests = 3
  MaxEdits = 1
  MaxDamage = 1
  MaxStops = 1
SYMMETRY MCSymmetry
INVARIANTS
  TypeOK
  BackupIsASnapshot
  AcknowledgedChangesLast
PROPERTIES
  PublishedVaultsAreWhole
CHECK_DEADLOCK FALSE
