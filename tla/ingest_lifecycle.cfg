\* Two sources, one tick from the moment a timer starts to the moment it is due.
SPECIFICATION FairSpec
CONSTANTS
  a = a
  b = b
  NoSource = NoSource
  Sources = {a, b}
  Stable = 1
  Hold = 0
  NoIngest = 0
  HealthGrace = 1
INVARIANT Inv
PROPERTIES
  HoldRules
  HoldEnds
