\* Two tokens, three boots on two servers, one crash.
SPECIFICATION Spec
CONSTANTS
  t1 = t1
  t2 = t2
  b1 = b1
  b2 = b2
  b3 = b3
  s1 = s1
  s2 = s2
  Tokens = {t1, t2}
  Boots <- MCBoots
  Sessions <- MCSessions
  SessionOf <- MCSessionOf
  Grace = 1
  MaxCrashes = 1
  RequireAssignment = FALSE
SYMMETRY Symmetry
INVARIANTS
  Inv
PROPERTY ReaperSparesServed
