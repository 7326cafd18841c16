\* start() loads the registry before any other call reaches it.
SPECIFICATION FairSpec
CONSTANTS
  start = start
  page = page
  git = git
  x = x
  y = y
  Callers = {start, page, git}
  Early = {start}
  Changes = {x, y}
  MaxRuns = 3
  None = None
INVARIANTS
  TypeOK
  ConfirmedIsOnDisk
PROPERTIES
  OnlyWholeDocuments
  KeepsPromise
  CommitsSettle
