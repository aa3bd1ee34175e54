SPECIFICATION FairSpec
CONSTANTS
  c1 = c1  c2 = c2  a1 = a1
  None = None
  Conns = {c1, c2}
  Agents = {a1}
  AgentOf <- OneAgent
  FilterCap = 1
  MaxFilters = 2
INVARIANTS FiltersInOrder ListedIfSingle
PROPERTIES GoneIsStopped
CHECK_DEADLOCK FALSE
