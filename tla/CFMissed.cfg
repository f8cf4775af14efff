SPECIFICATION FairSpec
CONSTANTS
  c1 = c1
  c2 = c2
  Channels = {c1, c2}
  MaxCalls = 2
  Overlap = TRUE
  Limit <- TwoHangups
  SendCallAck = FALSE
  SendACM = FALSE
  Mode = "missed_call"
  MaxFiles = 1
CHECK_DEADLOCK FALSE
INVARIANT ReleaseFollowsDrop
PROPERTY EveryCallEnds
