CONSTANTS
  Parts = {"host", "exports", "root", "handles", "formula", "observers", "cache", "nested",
           "links", "prepared", "ends", "registration", "router", "store",
           "log", "package", "build", "rules", "results", "returns", "call", "numbers", "callbacks", "tokens", "inputs"}
  Small = FALSE
  h1 = h1
  h2 = h2
  t1 = t1
  t2 = t2
  k1 = k1
  k2 = k2
  p1 = p1
  p2 = p2
  x1 = x1
  x2 = x2
  g1 = g1
  g2 = g2
  s1 = s1
  c1 = c1
  c2 = c2
  MaxHostCalls = 4
  MaxEpochs = 3
  MaxEntries = 4
  MaxGenerations = 3
  MaxReads = 4
SPECIFICATION AddinSpec
SYMMETRY Exchange
INVARIANTS
  Types
  ExportsFollowTheirEpoch
  RootOutlivesReaders
  AuthorityConserved
  HandlesDenote
  HandlesAccounted
  
  ConnectionsAgree
  
  DiagnosticsAccounted
  
  ReturnsAreSafe

  
