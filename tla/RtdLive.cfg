CONSTANTS
  Parts = {"channel", "two"}
  f = f
  l = l
  t1 = t1
  t2 = t2
  p1 = p1
  p2 = p2
  s1 = s1
  s2 = s2
  val1 = val1
  val2 = val2
  None = None
  MaxErrors = 1
  MaxSeq = 1
  Channels = {f}
  LatestOnly = {}
  PublishesError = {f}
  Senders = {s1, s2}
  SourceOf <- OneSource
  Sizes = {1}
  Capacity = 2
  BatchLimit = 2
  Limits <- Tight
  MaxWorkers = 2
  MaxSent = 3
SPECIFICATION RtdLiveSpec
PROPERTIES
  AcceptedIsDelivered
