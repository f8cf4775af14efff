SPECIFICATION FairSpec
CONSTANTS
  c1 = c1
  c2 = c2
  Channels = {c1}
  MaxCalls = 1
  Overlap = FALSE
  Limit <- OneSignal
  SendACM = FALSE
  Mode = "ssp"
  Script <- TestScript
  UNKNOWN_SESSION = 9
CHECK_DEADLOCK FALSE
PROPERTY SignalClosesAll
