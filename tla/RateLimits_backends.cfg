SPECIFICATION LimitsSpec
CONSTANTS
  u1 = u1
  u2 = u2
  u3 = u3
  t1 = t1
  t2 = t2
  h1 = h1
  h2 = h2
  Callers = {u1, u2, u3}
  Threads = {t1, t2}
  Capacity = 1
  Cost = 2
  MaxKeys = 2
  MaxTime = 5
  From = 1
  To = 2
  Keys = {"user"}
  Handlers = {h1, h2}
  Limit = 2
  Seconds = 2
  MaxMinute = 2
  MaxRequests = 3
  FaultKinds = {"store", "stop", "restart"}
  MaxFaults = 2
SYMMETRY MCSymmetry
INVARIANTS
  BudgetKept
  RecentCallersKept
  SharedBudget
  CountersExpire
PROPERTIES
  RetryAfterKept
CHECK_DEADLOCK FALSE
