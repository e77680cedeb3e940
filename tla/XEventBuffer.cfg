SPECIFICATION FairBufferSpec
CONSTANTS
  Ids = {i1, i2, i3}
  NoID = NoID
  MaxSystem = 1
  PipeSize = 2
INVARIANTS
  BufferOK
PROPERTIES
  FifoBuffer
  AddedReturned
CHECK_DEADLOCK FALSE
