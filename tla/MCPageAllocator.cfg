CONSTANTS
  MaxChunks = 2
  PageSize = 2
  ByteBits = 1
  Regions <- MCRegions
  Image <- MCImage
  Reservations <- MCReservations
  Requests = {0, 1, 2}
  Null = Null
SPECIFICATION Spec
INVARIANT TypeOK
INVARIANT LiveIsolated
INVARIANT BitmapExact
INVARIANT ChunksApart
INVARIANT BitmapReachable
PROPERTY ImplementsPool
