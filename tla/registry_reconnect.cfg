SPECIFICATION Spec
CONSTANTS
  c1 = c1  c2 = c2  a1 = a1
  None = None
  Conns = {c1, c2}
  Agents = {a1}
  AgentOf <- OneAgent
  FilterCap = 1
  MaxFilters = 1
INVARIANTS ConnectedIsListed
CHECK_DEADLOCK FALSE
