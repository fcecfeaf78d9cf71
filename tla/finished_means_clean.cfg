\* Three workers and no reaper: two prepares and a stop.
SPECIFICATION Spec
CONSTANTS
  w1 = w1
  w2 = w2
  w3 = w3
  r1 = r1
  Workers = {w1, w2, w3}
  Preparers = {w1, w2, w3}
  Reapers = {}
  MaxFaults = 0
  Handshake = FALSE
  Leftovers = {}
INVARIANT FinishedMeansClean
