SPECIFICATION Spec
CONSTANTS
  home = home
  copy = copy
  Procs = {p1, p2}
  Dirs = {home, copy}
  Home = home
  Empty = {copy}
  NoProc = NoProc
  Requests <- MCInits
  UserLayers <- MCUserLayers
  Admissions <- MCAdmissions
  Overrides <- MCOverrides
  Fragile <- MCFragile
  MaxRequests = 3
  MaxEdits = 0
  MaxDamage = 0
  MaxStops = 0
SYMMETRY MCSymmetry
PROPERTIES
  VaultFilesStay
CHECK_DEADLOCK FALSE
