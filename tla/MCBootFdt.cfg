CONSTANTS
  MaxChunks = 2
  PageSize = 4
  ByteBits = 8
  PtrsPerTable = 16
  Ram <- MCRam
  Image <- MCImage
  ImageStart = 258
  IdMap = 259
  IdMapNumPages = 6
  Uart = 9
  Trees <- MCUnaligned
  Cell = 128
  MaxMemRegions = 3
  EntryStates <- MCEntryStates
  Requests = {1, 4}
  Mappings <- MCMappings
  MaxSteps = 5
  Null = Null
  Code = Code
  Blob = Blob
  Bits = Bits
  Junk = Junk
SPECIFICATION Spec
CHECK_DEADLOCK FALSE
INVARIANT FdtKept
