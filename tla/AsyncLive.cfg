CONSTANTS
  Parts = {"registry", "runtime", "pool", "futures", "delivery"}
  Tasks = {t1}
  Limit = 1
  MaxEpoch = 2
  MaxStarts = 1
  MaxCancels = 1
  Closers = {c1, c2}
  Launches = {l1}
  MaxOpens = 2
  MaxFailures = 1
  Runnables = {r1}
  N = 2
  Scopes = {s1}
  Wakers = {w1}
  MaxGen = 2
  MaxPolls = 2
  None = None
  Calls = {a1}
  Malformed = {}
SPECIFICATION AsyncLiveSpec
PROPERTIES
  CloseComesBackEverywhere
  EveryCallIsAnswered
