CONSTANTS
  Parts = {"gate","operations","domain","slot","lane"}
  Readers = {r1, r2}
  N = 2
  ActiveMask = 2
  Operators = {o1, o2}
  Closers = {c1, c2}
  DomainReaders = {d1, d2}
  Writers = {}
  Rotators = {t1}
  Objects = {a}
  Threads = {s1, s2, s3}
  MaxRuntimes = 1
  LaneReaders = {l1}
  LaneWriters = {v1}
  Hosts = {h1, h2}
  MaxOpens = 2
  MaxCalls = 4
  MaxServices = 3
SPECIFICATION KernelLiveSpec
PROPERTIES
  GateWaitsEnd
  TransitionsEnd
