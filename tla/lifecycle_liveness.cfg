\* One worker and one reaper under fairness, with the node handshake and one
\* crash, stall or failing call.
SPECIFICATION FairSpec
CONSTANTS
  w1 = w1
  r1 = r1
  Workers = {w1}
  Preparers = {w1}
  Reapers = {r1}
  MaxFaults = 1
  Handshake = TRUE
  Leftovers = {}
PROPERTIES
  EndsEventually
  CleanEventually
