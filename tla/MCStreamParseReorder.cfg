CONSTANTS
  Messages <- WrappedRequests
  Cuts <- WrappedCuts
  FirstPos = 12
  SegLens = {1, 2, 3}
  SeqMod = 16
  MaxLost = 1
  MaxHeld = 2
  MaxSendTime = 2
  MaxStuck = 1
  capacity = 5
  maxBytesGap = 4
  overflowGap = 8
  maxTimestampEntries = 2
SPECIFICATION Spec
INVARIANTS BuffersWellFormed BytesKeepTheirTime ParsedInOrder
