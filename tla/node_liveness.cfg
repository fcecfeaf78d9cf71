\* A bound Session is heard from or ends.
SPECIFICATION FairSpec
CONSTANTS
  t1 = t1
  b1 = b1
  b2 = b2
  b3 = b3
  s1 = s1
  s2 = s2
  Tokens = {t1}
  Boots <- MCBoots
  Sessions <- MCSessions
  SessionOf <- MCSessionOf
  Grace = 2
  MaxCrashes = 1
  RequireAssignment = TRUE
PROPERTIES
  BoundIsHeardOrEnds
  AgentLeavesLostSession
