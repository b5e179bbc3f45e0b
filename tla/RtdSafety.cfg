CONSTANTS
  Parts = {"channel", "senders", "latest", "two", "one", "ring", "link", "stop", "sources", "names", "served",
           "failing", "replaced"}
  f = f
  l = l
  t1 = t1
  t2 = t2
  p1 = p1
  p2 = p2
  s1 = s1
  s2 = s2
  val1 = val1
  val2 = val2
  None = None
  MaxErrors = 0
  MaxSeq = 1
  Channels = {f, l}
  LatestOnly = {l}
  PublishesError = {f}
  Senders = {s}
  SourceOf <- OneSource
  Sizes = {1, 2}
  Capacity = 2
  BatchLimit = 2
  Limits <- Tight
  MaxWorkers = 2
  MaxSent = 1
SPECIFICATION RtdSpec
SYMMETRY Exchange
INVARIANTS
  Types
  ChannelKeepsOrder
  BudgetsExact
  CountersAgree
  NothingLost
  OneCallPerTicket
  NamesAreExact
  ServersAreCounted
