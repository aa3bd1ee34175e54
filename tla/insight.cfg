SPECIFICATION Spec
CONSTANTS
  TraceFlows = 3
  TraceTimes = {1, 2}
  TimeWindow = 1
  Sizes = {4, 50}
  MaxGroups = 2
  Thresholds = {4}
  Targets = {t1}
  Jobs = {d1}
  Testers = {r1, r2}
  MaxChanges = 1
  AddressCount = 2
  Callers = {c1, c2}
  BatchSize = 1
  FreshDays = 1
  MaxHalfDays = 4
  ClientIPs = {k1}
  Tokens = {s1, s2}
  LoginMaxAttempts = 2
  LoginWindow = 2
  SessionTTL = 3
  MaxNow = 6
  Order <- ProviderOrder
  Requests = {q1, q2}
      
INVARIANTS SessionsHonoured AttemptsBounded 
PROPERTIES AlertsKept
CHECK_DEADLOCK FALSE
