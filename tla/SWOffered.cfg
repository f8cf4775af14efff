SPECIFICATION Spec
CONSTANTS
  c1 = c1
  c2 = c2
  Channels = {c1, c2}
  NoChannel = NoChannel
  M = 3
  MaxCreated = 4
  MAX_NUMSIZE = 4
  Unavailable = 12
  Busy = 13
  Calls <- MCCalls
  Fragment <- MCFragment
CHECK_DEADLOCK FALSE
INVARIANTS FramingHolds OnlyOverlongFails UnpackersAgree DiversionAsMeant RecentIsRouted AssertionOnlyAtWrap
PROPERTIES ReasonReturns ReplyReachesAsker
