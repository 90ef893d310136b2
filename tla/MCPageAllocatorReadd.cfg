CONSTANTS
  MaxChunks = 2
  PageSize = 2
  ByteBits = 1
  Regions <- MCRegions
  Image <- MCImage
  Reservations <- MCReservations
  Requests = {1}
  Null = Null
SPECIFICATION AnySpec
PROPERTY RemovedIsUnmanaged
