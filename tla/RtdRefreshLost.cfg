CONSTANTS
    t1 = t1
    t2 = t2
    p1 = p1
    p2 = p2
    s1 = s1
    s2 = s2
    val1 = val1
    val2 = val2
    None = None
    Topics = {t1, t2}
    Shards = {s1, s2}
    ShardOf <- OwnShards
    Connected = {t1, t2}
    Publishers = {p1, p2}
    TopicOf <- OneEach
    Values = {val1}
    Ops = {}
    Sends = {"one"}
    BatchSize = 2
    QueueLimit = 4
    MaxSeq = 2
    MaxGen = 1
    MaxEpoch = 1
    MaxErrors = 0
    MaxPulses = 0
SPECIFICATION Spec
INVARIANTS DeliverableIsSignalled
