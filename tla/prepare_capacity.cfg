\* Two requests at a time over two Sessions of one user, limits 0 and 1, fairness.
SPECIFICATION FairSpec
CONSTANTS
  p1 = p1
  p2 = p2
  s1 = s1
  s2 = s2
  u1 = u1
  k1 = k1
  k2 = k2
  c1 = c1
  c2 = c2
  None = None
  Requests = {p1, p2}
  SessionIds = {s1, s2}
  Users = {u1}
  Keys = {k1, k2}
  Configs = {c1, c2}
  Asks <- MCAsks
  Limits = {0, 1}
  MaxCrashes = 1
  MaxOrphans = 1
INVARIANTS
  Inv
  CapacityRespected
  ClaimIsAsAsked
PROPERTIES
  BoundGetsClaimed
