SPECIFICATION Spec
CONSTANTS
  FillSize = 2
  RxSize = 2
  Width = 4
  FrameSize = 2
  MaxArrivals = 6
  Unmatched = {2}
  MaxCorrupt = 1
  BlockNr = 2
  BlockFrames = 2
  MaxFrames = 5
  RetireEmpty = TRUE
  Corrupt = {2}
  Queues = 2
  Closers = {c1, c2}
INVARIANTS FramesInOnePlace DetachedByLast
PROPERTIES XDPIsSource RxDrains HandedOverIsSeen
CHECK_DEADLOCK FALSE
