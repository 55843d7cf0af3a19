SPECIFICATION Spec
CONSTANTS
  w1 = w1
  w2 = w2
  r1 = r1
  r2 = r2
  good = good
  long = long
  bad = bad
  org = org
  other = other
  Orgs = {org}
  Contents = {good}
  Unreadable = {bad}
  Workers = {w1}
  Requests = {r1}
  MaxId = 1
  MaxPending = 2
  MaxAttempts = 3
  Batches = 1
  SlowWorkers = FALSE
  FaultKinds = {"embedding"}
  MaxFaults = 1
SYMMETRY MCSymmetry
INVARIANTS
  OutageKeepsUploads
