SPECIFICATION Spec
CONSTANTS
  r1 = r1  r2 = r2  w1 = w1  w2 = w2  http = http  main = main  bad = bad
  Frames = {1, 2, 4}
  NoFlow = bad
  FlowOf <- MCFlowOf
  RouteOf <- MCRouteOf
  Readers <- OneReader
  SourceOf <- AllToR1
  DecodeWorkers <- Workers
  EOFOnStop = TRUE
  SourceCap = 2
  QueueCap = 1
  MaxBuffered = 2
  WriteSlots = 2
  Stoppers <- OneStopper
  Main = main
INVARIANTS NothingLeftBehind
