\* One page opening a project beside one guarded operation: does the guard hold
\* until the project has changed?
SPECIFICATION StoredLaunchSpec
CONSTANTS
  p1 = p1
  p2 = p2
  s1 = s1
  t1 = t1
  Projects = {p1, p2}
  Sessions = {s1}
  Tabs = {}
  Requests = {boot}
  Operations = {o1}
  BootCall = boot
  boot = boot
  o1 = o1
  r1 = r1
  Cwd <- MCCwd
  Forces <- MCForce
  None = None
  Absent = Absent
INVARIANT OperationsStayInProject
