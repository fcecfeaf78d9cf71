\* Two workers that both prepare the Session, one reaper, a leftover volume,
\* one fault.
SPECIFICATION Spec
CONSTANTS
  w1 = w1
  w2 = w2
  r1 = r1
  Workers = {w1, w2}
  Preparers = {w1, w2}
  Reapers = {r1}
  MaxFaults = 1
  Handshake = FALSE
  Leftovers = {0}
SYMMETRY WorkerSymmetry
INVARIANTS
  Inv
  NoDeleteWhileActive
  OneDestroyer
  AtMostOneVps
PROPERTIES
  StatusFollowsTable
  ImplementsContract
