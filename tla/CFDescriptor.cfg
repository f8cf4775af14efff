SPECIFICATION Spec
CONSTANTS
  c1 = c1
  c2 = c2
  Channels = {c1, c2}
  MaxCalls = 2
  Overlap = FALSE
  Limit <- OneHangup
  SendCallAck = FALSE
  SendACM = FALSE
  Mode = "autoresponder"
  MaxFiles = 3
CHECK_DEADLOCK FALSE
INVARIANT PlayingFileIsOpen
