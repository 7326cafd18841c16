\* Two pages (or two windows) with a request each in flight.
SPECIFICATION StoredLaunchSpec
CONSTANTS
  p1 = p1
  p2 = p2
  s1 = s1
  t1 = t1
  Projects = {p1, p2}
  Sessions = {s1}
  Tabs = {}
  Requests = {boot, r1}
  Operations = {o1}
  BootCall = boot
  boot = boot
  r1 = r1
  o1 = o1
  Cwd <- MCCwd
  Forces <- MCForce
  None = None
  Absent = Absent
INVARIANT NoSilentGrant
