SPECIFICATION Spec
CONSTANTS
  w1 = w1
  w2 = w2
  r1 = r1
  r2 = r2
  good = good
  long = long
  bad = bad
  org = org
  other = other
  Orgs = {org}
  Contents = {good, long, bad}
  Unreadable = {bad}
  Workers = {w1, w2}
  Requests = {r1, r2}
  MaxId = 3
  MaxPending = 1
  MaxAttempts = 2
  Batches = 2
  SlowWorkers = FALSE
  FaultKinds = {"crash", "exception"}
  MaxFaults = 2
SYMMETRY MCSymmetry
INVARIANTS
  OneDocumentPerFile
  PendingWithinRace
  RetryBudgetKept
