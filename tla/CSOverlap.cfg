SPECIFICATION FairSpec
CONSTANTS
  c1 = c1
  c2 = c2
  Channels = {c1}
  MaxCalls = 3
  Overlap = TRUE
  Limit <- All
  SendACM = TRUE
  Mode = "ssp"
  Script <- TestScript
  UNKNOWN_SESSION = 9
CHECK_DEADLOCK FALSE
INVARIANTS TypeOK CallIsFound ReleaseFollowsDrop NoCallWithoutVoice StUsedCounts LeakIsOnePerCall SessionInv NewestCallIsFirst
PROPERTIES CallsNeverRegress EveryCallEnds OnlyStuckChannelsDelayExit
