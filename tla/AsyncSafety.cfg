CONSTANTS
  Parts = {"registry", "runtime", "pool", "tasks", "futures", "delivery"}
  Tasks = {x1, x2}
  Limit = 1
  MaxEpoch = 2
  MaxStarts = 2
  MaxCancels = 1
  Closers = {c1, c2}
  Launches = {x1, x2}
  MaxOpens = 3
  MaxFailures = 2
  Runnables = {x1, x2}
  N = 2
  Scopes = {x1, x2}
  Wakers = {w1}
  MaxGen = 2
  MaxPolls = 1
  None = None
  Calls = {x1, x2}
  Malformed = {}
SPECIFICATION AsyncSpec
SYMMETRY Symmetry
INVARIANTS
  Types
  RegistryLosesNoTask
  ExecutorIsLive
  NoRunnableStranded
  ScopesAreSeparate
  AnsweredOnce
