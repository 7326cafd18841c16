\* One page beside a Git action and session events, or two clients with a
\* request each in flight: a behaviour exercises one of the two.
SPECIFICATION ScopedSpec
CONSTANTS
  p1 = p1
  p2 = p2
  s1 = s1
  t1 = t1
  Projects = {p1, p2}
  Sessions = {s1}
  Tabs = {t1}
  Requests = {boot, r1}
  Operations = {o1}
  BootCall = boot
  boot = boot
  r1 = r1
  o1 = o1
  Cwd <- MCCwd
  Forces <- MCForce
  None = None
  Absent = Absent
INVARIANTS
  TypeOK
  CurrentIsKnown
  OperationProjectKnown
  NetworkNeedsDecision
  GrantFollowsDecision
  CurrentHeadsRecent
  CacheFollowsCurrent
  LiveSessionsAdopted
PROPERTIES
  NoCloseUnderOperation
