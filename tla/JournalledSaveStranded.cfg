SPECIFICATION Spec
CONSTANTS
  capture = capture
  kNow = kNow
  kThen = kThen
  object = object
  record = record
  log = log
  page = page
  noFile = noFile
  bytes = bytes
  record1 = record1
  log0 = log0
  log1 = log1
  log2 = log2
  page0 = page0
  page1 = page1
  human = human
  clash = clash
  NoOp = NoOp
  Absent = noFile
  Conflicts = {clash}
  Ops <- MCOps
  KindOf <- MCKindOf
  Files <- MCFiles
  Contents <- MCContents
  Plan <- MCPlan
  Needs <- MCNeeds
  InitialFile <- MCInitialFile
  EditTo <- MCEditTo
  QuietWindow = FALSE
  MaxEdits = 1
  MaxFaults = 1
INVARIANTS
  StaleRetryReleasesVault
