SPECIFICATION Spec
CONSTANTS
  r1 = r1  r2 = r2  w1 = w1  w2 = w2  http = http  main = main  bad = bad
  Frames = {1, 2, 3}
  NoFlow = bad
  FlowOf <- MCFlowOf
  RouteOf <- MCRouteOf
  Readers <- TwoReaders
  SourceOf <- SplitR
  DecodeWorkers <- Workers
  EOFOnStop = FALSE
  SourceCap = 1
  QueueCap = 1
  MaxBuffered = 1
  WriteSlots = 1
  Stoppers = {}
  Main = main
INVARIANTS Accounted
