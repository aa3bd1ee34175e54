SPECIFICATION Spec
CONSTANTS
  j1 = j1  h1 = h1  h2 = h2
  None = None
  Jobs = {j1}
  Requests = {h1, h2}
  MaxRuns = 2
  MaxCrashes = 1
  FlowRows = 2
  Outcomes <- SomeOutcomes
INVARIANT InterruptedIsFailed
CHECK_DEADLOCK FALSE
