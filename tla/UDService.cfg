SPECIFICATION ServiceFairSpec
CONSTANTS
  MAX_REQUEST_COUNT = 2
  sendAttempts = 2
  sendTimeout = 2
  MaxSends = 2
  RoundTrip = 1
  MaxCycle = 1
  MaxLost = 2
  Missed = {1, 2}
  MaxErrors = 1
CHECK_DEADLOCK FALSE
INVARIANTS ServiceTypeOK PromptInv NoNeedlessTimeout EntriesWithinLosses
PROPERTIES ImplementsRequestReply EveryRequestEnds AnsweredIsRecorded
