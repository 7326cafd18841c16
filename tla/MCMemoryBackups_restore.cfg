\* One request of the console at a time, with files for two restores in a row.
SPECIFICATION RestoresSpec
CONSTANTS
  o1 = o1
  o2 = o2
  w1 = w1
  m1 = m1
  m2 = m2
  a1 = a1
  a2 = a2
  incoming = incoming
  Operations = {o1}
  Writers = {w1}
  Memories = {m1, m2}
  Paths = {a1, a2}
  Incoming = incoming
  Foreign <- TwoBackups
  None = None
INVARIANT NothingConfirmedIsLost
PROPERTIES
  RestoredMeansServed
  RolledBackMeansUndone
