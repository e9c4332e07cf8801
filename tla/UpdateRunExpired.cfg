SPECIFICATION Spec
CONSTANTS
  Ops = {u1}
  NoOp = NoOp
  CliScopes <- MCCliScopes
  Beginnings <- MCBeginnings
  Offers <- MCOffers
  MaxEdits = 0
  MaxStops = 0
INVARIANT ExpiredPreviewIsReplaceable
CHECK_DEADLOCK FALSE
