\* One worker prepares, another stops and issues credentials; the node must
\* report ready; one fault and a leftover volume.
SPECIFICATION HistorySpec
CONSTANTS
  w1 = w1
  w2 = w2
  r1 = r1
  Workers = {w1, w2}
  Preparers = {w1}
  Reapers = {r1}
  MaxFaults = 1
  Handshake = TRUE
  Leftovers = {0}
INVARIANTS
  CleanupExcludesOwner
  StrayOnlyAfterTimeout
