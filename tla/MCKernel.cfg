CONSTANTS
  Depth = 1
  TxDepth = 2
  MaxChars = 3
  Paced = TRUE
  SetupCalls <- MCSetupCalls
  max_num_of_ticks = 2
  Message <- MCMessage
  Null = Null
SPECIFICATION KernelSpec
INVARIANT KernelTypeOK
INVARIANT GetcNeverWaits
INVARIANT EchoedInOrder
INVARIANT OutputExact
PROPERTY ReceiverEmptied
PROPERTY EverySleepEnds
CHECK_DEADLOCK FALSE
