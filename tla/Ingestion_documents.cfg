SPECIFICATION FairSpec
CONSTANTS
  w1 = w1
  w2 = w2
  r1 = r1
  r2 = r2
  good = good
  long = long
  bad = bad
  org = org
  other = other
  Orgs = {org}
  Contents = {good, bad}
  Unreadable = {bad}
  Workers = {w1, w2}
  Requests = {r1}
  MaxId = 2
  MaxPending = 2
  MaxAttempts = 2
  Batches = 1
  SlowWorkers = TRUE
  FaultKinds = {"crash", "exception", "embedding"}
  MaxFaults = 1
INVARIANTS
  FileIffPending
  ChunksIffReady
  OneOwner
PROPERTIES
  SettledStays
  ImplementsLifecycle
  EveryDocumentSettles
