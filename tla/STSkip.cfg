SPECIFICATION Spec
CONSTANTS
  Name = {"", "FirstChannel", "IPTDevicesCount", "MSCIP", "Fragment", "LocalIP", "other"}
  Value = {"", " ", "3", "-5"}
  MaxLines = 2
  Garbage = {""}
  NoNumber = NoNumber
  MaxOther = 5
  NumberIn <- MCNumberIn
  HasWord <- MCHasWord
  IsAddress <- MCIsAddress
CHECK_DEADLOCK FALSE
PROPERTIES IncompleteLinesAreSkipped
