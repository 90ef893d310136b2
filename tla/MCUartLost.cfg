CONSTANTS
  Depth = 1
  TxDepth = 3
  MaxChars = 3
  Paced = FALSE
SPECIFICATION Spec
PROPERTY ReceivedIsEchoed
CHECK_DEADLOCK FALSE
