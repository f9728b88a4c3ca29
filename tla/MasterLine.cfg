SPECIFICATION Spec
CONSTANTS
  ProductCount = 2
  Settings <- AllSettings
  Disturbances <- AllDisturbances
  MaxCaptures = 2
  MaxDisturbances = 1
INVARIANTS
  TypeOK
  VerdictHasEvidence
  LedgerFollowsLine
  HeldBeltIsReleased
  CycleOwnsStation
  QuietLineIsSound
CHECK_DEADLOCK FALSE
