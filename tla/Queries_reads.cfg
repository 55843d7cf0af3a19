SPECIFICATION MCSpec
CONSTANTS
  s1 = s1
  s2 = s2
  s3 = s3
  org = org
  other = other
  billing = billing
  old = old
  new = new
  Unset = Unset
  Submissions = {s1, s2, s3}
  Organizations = {org, other}
  Orgs = {org, other}
  Labels = {billing}
  Confidences = {0, 1}
  Threshold = 1
  Limits = {0, 1, 3}
  DefaultPage = 1
  MaxPage = 2
  MaxFaults = 1
  Null = Null
  Documents = {1, 2}
  Models = {old, new}
  Chunks = 2
  Batch = 1
  MaxResults = 1
  MaxRestarts = 1
  Users = 2
  Seeded = 1
  Callers = {s1, s2, s3}
  NoUser = NoUser
  Setups <- MCSetups
SYMMETRY MCSymmetry
INVARIANTS
  NoTicketSkipped
  PageInsideTotal
  SubmissionsTold
  VectorsOfNamedModel
  HitsComparable
  BackfillDone
  OwnTicketFound
  StatsInTime
CHECK_DEADLOCK FALSE
