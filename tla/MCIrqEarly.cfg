CONSTANTS
  FirstSpi = 1
  MaxIntId = 2
  Handlers = {h1, h2}
  Early = {1}
  Fleeting = {}
  MaxDepth = 2
  Null = Null
SPECIFICATION Spec
INVARIANT NeverUnhandled
CHECK_DEADLOCK FALSE
