SPECIFICATION MCSpec
CONSTANTS
  r1 = r1
  r2 = r2
  r3 = r3
  org = org
  other = other
  ada = ada
  Ada = Ada
  bob = bob
  Requests = {r1, r2, r3}
  Names = {org, other}
  Spellings = {ada, Ada, bob}
  Lower <- MCLower
  MaxFaults = 2
  c1 = c1
  c2 = c2
  p1 = p1
  p2 = p2
  Clients = {c1, c2}
  Emails = {"ada"}
  Passwords = {p1, p2}
  Lifetime = 1
  MaxTime = 1
  MaxCalls = 2
  MaxChanges = 2
  MaxErrors = 1
SYMMETRY MCSymmetry
INVARIANTS
  OneAccountPerAddress
  AnswersAreTrue
  OrganizationsExplained
  AdmittedRightly
  TokensEarned
  RefusedForAReason
CHECK_DEADLOCK FALSE
