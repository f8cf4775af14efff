SPECIFICATION FairSpec
CONSTANTS
  c1 = c1
  c2 = c2
  Channels = {c1, c2}
  MaxCalls = 1
  Overlap = FALSE
  Limit <- NoHangup
  SendACM = FALSE
  Mode = "ssp"
  Script <- AnyScript
  UNKNOWN_SESSION = 9
CHECK_DEADLOCK FALSE
INVARIANT SessionInv
PROPERTIES ImplementsDialogue OnlyStuckChannelsDelayExit
