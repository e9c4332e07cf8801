SPECIFICATION Spec
CONSTANTS
  Ops = {u1}
  NoOp = NoOp
  CliScopes <- MCCliScopes
  Beginnings <- MCBeginnings
  Offers <- MCOffers
  MaxEdits = 1
  MaxStops = 1
INVARIANTS
  TypeOK
  ExecutableIsRecoverable
  CompletedMeansApplied
  RetryMeetsItsPolicy
PROPERTIES
  UserContentIsKept
  ConfirmedUpdateEnds
CHECK_DEADLOCK FALSE
