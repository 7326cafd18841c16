\* A termination signal while a quit or a restart stops the children.
SPECIFICATION Spec
CONSTANTS
  g1 = g1
  g2 = g2
  g3 = g3
  g4 = g4
  g5 = g5
  g6 = g6
  Groups = {g1, g2, g3, g4}
  main = main
  watcher = watcher
  Main = main
  Watcher = watcher
  Ports = 1
  MaxRestarts = 1
  None = None
INVARIANT NoOrphanHarness
CHECK_DEADLOCK FALSE
