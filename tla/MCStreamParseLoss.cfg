CONSTANTS
  Messages <- LastTwoRequests
  Cuts <- CutsOfThree
  FirstPos = 3
  SegLens = {1, 2, 3}
  SeqMod = 64
  MaxLost = 1
  MaxHeld = 0
  MaxSendTime = 3
  MaxStuck = 1
  capacity = 8
  maxBytesGap = 8
  overflowGap = 32
  maxTimestampEntries = 16
SPECIFICATION FairSpec
INVARIANT NothingLeftBehind
PROPERTIES ParsingEnds Resynchronises
