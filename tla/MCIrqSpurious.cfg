CONSTANTS
  FirstSpi = 1
  MaxIntId = 2
  Handlers = {h1, h2}
  Early = {1}
  Fleeting = {0}
  MaxDepth = 2
  Null = Null
SPECIFICATION Spec
INVARIANT MaskedUntilEret
CHECK_DEADLOCK FALSE
