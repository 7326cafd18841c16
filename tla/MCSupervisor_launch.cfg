\* A launch, one restart by the development watcher, a quit and a termination
\* signal at any moment; two ports for the sidecar.
SPECIFICATION FairSpec
CONSTANTS
  g1 = g1
  g2 = g2
  g3 = g3
  g4 = g4
  g5 = g5
  g6 = g6
  Groups = {g1, g2, g3, g4, g5, g6}
  main = main
  watcher = watcher
  Main = main
  Watcher = watcher
  Ports = 2
  MaxRestarts = 1
  None = None
INVARIANTS
  TypeOK
  NothingLeftAfterExit
  SignalReachesChildren
  OneOfEachKind
  NoChildIsLost
PROPERTIES
  QuitCompletes
  SplashSettles
CHECK_DEADLOCK FALSE
