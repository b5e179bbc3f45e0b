CONSTANTS
  Parts = {"gate", "operations", "domain", "slot", "lane", "state"}
  Readers = {r1, r2, r3}
  N = 2
  ActiveMask = 2
  Operators = {o1, o2}
  Closers = {c1, c2}
  DomainReaders = {d1, d2}
  Writers = {w1}
  Rotators = {t1}
  Objects = {a}
  Threads = {s1, s2, s3}
  MaxRuntimes = 3
  LaneReaders = {l1, l2}
  LaneWriters = {v1, v2}
  Hosts = {h1, h2}
  MaxOpens = 2
  MaxCalls = 4
  MaxServices = 4
SPECIFICATION KernelSpec
INVARIANTS
  Types
  NoLostWakeup
  GracePeriodsHold
  ServicesOutliveReads
  ObjectsDisposedInOrder
PROPERTY ImplementsContract
