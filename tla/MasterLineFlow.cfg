SPECIFICATION Spec
CONSTANTS
  ProductCount = 2
  Settings <- DefaultSettings
  Disturbances <- Failures
  MaxCaptures = 2
  MaxDisturbances = 1
PROPERTY
  EveryProductIsSorted
CHECK_DEADLOCK FALSE
