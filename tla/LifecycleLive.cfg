CONSTANTS
  Parts = {"host", "exports", "root", "router", "com", "sources", "ends"}
  Small = TRUE
  h1 = h1
  h2 = h2
  t1 = t1
  t2 = t2
  k1 = k1
  k2 = k2
  p1 = p1
  p2 = p2
  x1 = x1
  x2 = x2
  g1 = g1
  g2 = g2
  s1 = s1
  c1 = c1
  c2 = c2
  MaxHostCalls = 3
  MaxEpochs = 2
  MaxEntries = 3
  MaxGenerations = 2
  MaxReads = 3
SPECIFICATION AddinLiveSpec
PROPERTIES
  EveryCallReturns
