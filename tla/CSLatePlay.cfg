SPECIFICATION HistorySpec
CONSTANTS
  c1 = c1
  c2 = c2
  Channels = {c1}
  MaxCalls = 2
  Overlap = FALSE
  Limit <- OneHangup
  SendACM = FALSE
  Mode = "ssp"
  Script <- TestScript
  UNKNOWN_SESSION = 9
CHECK_DEADLOCK FALSE
PROPERTY FinishedIsOfItsCall
