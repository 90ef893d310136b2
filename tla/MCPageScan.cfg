CONSTANTS
  MaxChunks = 3
  MaxPages = 3
  Requests = {0, 2, 3, 4}
  Null = Null
SPECIFICATION Spec
INVARIANT TypeOK
INVARIANT FirstFit
PROPERTY Terminates
CHECK_DEADLOCK FALSE
