SPECIFICATION Spec
CONSTANTS
  MAX_REQUEST_COUNT = 2
  sendAttempts = 2
  sendTimeout = 1
  MaxSends = 2
  RoundTrip = 3
  MaxCycle = 1
  MaxLost = 0
CHECK_DEADLOCK FALSE
PROPERTY ReportsAreChanges
