SPECIFICATION FairSpec
CONSTANTS
  old = old
  new = new
  kbmd = kbmd
  schema = schema
  version = version
  noFile = noFile
  legacy = legacy
  long = long
  kb1 = kb1
  schema0 = schema0
  schema1 = schema1
  version1 = version1
  human = human
  clash = clash
  NoOp = NoOp
  Absent = noFile
  Conflicts = {clash}
  Ops <- MCOps
  Files <- MCFiles
  Contents <- MCContents
  Plan <- OutdatedPlan
  InitialFile <- MCInitialFile
  EditTo <- MCEditTo
  MaxEdits = 2
  MaxFaults = 2
INVARIANTS
  TypeOK
  ReadersSeeNoPartialUpgrade
  NotBothHalfDone
PROPERTIES
  UpgradeImplementsAtomicSave
  UpgradesAreWorkedOff
