SPECIFICATION Spec
CONSTANTS
  Hosts = {codex, opencode}
  Bridges = {"AGENTS.md"}
  NoBridge = NoBridge
  Placements <- MCPlacements
  NameOrder <- MCNameOrder
  Suite <- MCSuite
  Old = "knowledge-brain"
  Canonical = Canonical
  Beginnings = {"absent", "owned", "legacy"}
  Ops = {first, second}
  NoOp = NoOp
  MaxEdits = 1
  MaxStops = 1
INVARIANTS
  TypeOK
  SharedSuiteIsOwned
  InterruptedInstallIsRetryable
PROPERTIES
  UserContentIsKept
  SharedAssetsStay
SYMMETRY Symmetry
CHECK_DEADLOCK FALSE
