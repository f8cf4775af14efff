SPECIFICATION FairSpec
CONSTANTS
  c1 = c1
  c2 = c2
  Channels = {c1}
  MaxCalls = 3
  Overlap = TRUE
  Limit <- All
  SendCallAck = TRUE
  SendACM = TRUE
  Mode = "autoresponder"
  MaxFiles = 2
CHECK_DEADLOCK FALSE
INVARIANTS TypeOK PlayedFileIsKnown
PROPERTIES EveryCallEnds SignalEnds
