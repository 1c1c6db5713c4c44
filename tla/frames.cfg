SPECIFICATION MCSpec
CONSTANTS
  f1 = f1 f2 = f2
  Garbled = Garbled Unset = Unset
  Frames = {f1, f2}
  HeaderSize <- MCHeaderSize
  DataSize <- MCDataSize
  Prefix = 2
  MaxFrames = 2
  Times = {0, 1, 2, 5}
  Sizes = {1}
  FlushCount = 4
  Step = 2
  MaxRecords = 4
  MaxSessions = 2
INVARIANTS IndexCovered Replay
PROPERTIES FramesArrive PassEnds
CHECK_DEADLOCK FALSE
