\* The instance of MCServices.cfg, for what the router's comments say of a
\* call that produced output.
SPECIFICATION ServicesSpec
CONSTANTS
  None = None
  \* the router: two routes, two roles, one capability, one call at a time
  ra = ra  rb = rb  default_ = default_  coding = coding  vision = vision
  c1 = c1
  Routes = {ra, rb}  Roles = {default_, coding}
  Default = default_  Coding = coding  Fast = coding
  Keys = {vision}  Calls = {c1}  RawPlans <- MCPlans
  \* the terminal: one command at a time, output past the limit
  k1 = k1
  Commands = {k1}  MaxOutput = 2  Widest = 3  Chunk = 2  Volume = 4
  \* a scan: four directories under one slot less than could run
  d0 = d0  d1 = d1  d2 = d2  d3 = d3  n1 = n1  n2 = n2  i1 = i1
  Directories = {d0, d1, d2, d3}  Top = d0  Parent <- MCParent
  Names = {n1, n2}  Within <- MCWithin  Inode <- MCInode
  Concurrency = 1  MaxEntries = 5
  \* the storage console: two requests, a safe target that grows, a guarded one
  q1 = q1  q2 = q2
  Launches <- MCLaunches  Ids = {"newpi-target", "dsh-sessions"}
  Watched = {"newpi-state", "newpi-pb-data", "rustup-toolchains"}
  Growing = {"newpi-target"}  Links = {}  Requests = {q1, q2}
  Sizes = {0, 1, 3}  Partial = {1}  Announced = {2}  SizeTolerance = 2
  \* Git: two branches, two commits, one file, one action beside a terminal
  b1 = b1  b2 = b2  f1 = f1  a1 = a1
  Branches = {b1, b2}  Files = {f1}  GitSlots = {a1}  MaxCommits = 2
  Layouts <- MCLayouts
  \* the context manager: one session beside unattributed calls
  s1 = s1  p1 = p1  t1 = t1  o1 = o1
  Sessions = {s1}  Sections = {p1}  Texts = {t1}  Assemblies <- MCAssemblies
  Conversations <- MCConversations  Observed = {o1}
  JournalLimit = 1  MaxVersions = 2
  \* the pages of the projects and of the memory: two calls in flight
  j1 = j1  w1 = w1  w2 = w2  m1 = m1
  Projects = {j1}  Launched = None  PageCalls = {w1, w2}  MaxCards = 2
  Memories = {m1}  Pages = 2  SheetCalls = {w1, w2}  NoProject = {TRUE, FALSE}
INVARIANT NothingIsRepeated
