SPECIFICATION Spec
CONSTANTS
  SeqSpan = 8
  FirstSeq = 6
  MaxPackets = 3
  MaxClock = 2
  BucketCap = 3
  TrendPoints = 2
  Suspicious = 2
  Ports = {5061, 443, 3868}
  MaxBody = 1
  MaxSegment = 3
  SipWorkers = {1, 2}
  SeqSpace = 8
  FirstRtp = 6
  MaxBurst = 2
  MaxSip = 3
  MaxRtp = 5
  Clients = {c1, c2}
  TxIds = {1, 2}
  MaxWire = 4
  MaxSegments = 3
  MaxFrames = 3
  MaxElements = 2
  MaxValue = 2
  UEs = {u1, u2}
  MaxList = 3
  MaxMessages = 2
INVARIANTS FlowsExact MeasuredOnce FramingExact CallExact  
INVARIANTS EndsJoined  RecordsMessage 
CHECK_DEADLOCK FALSE
