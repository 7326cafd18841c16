\* A request of the page reaches the service while start() still loads.
SPECIFICATION Spec
CONSTANTS
  start = start
  page = page
  git = git
  x = x
  y = y
  Callers = {start, page}
  Early = {start, page}
  Changes = {x, y}
  MaxRuns = 3
  None = None
INVARIANT ConfirmedIsOnDisk
