CONSTANTS
    t1 = t1
    t2 = t2
    p1 = p1
    p2 = p2
    s1 = s1
    s2 = s2
    val1 = val1
    val2 = val2
    None = None
    Topics = {t1}
    Shards = {s1}
    ShardOf <- OneTopic
    Connected = {}
    Publishers = {p1}
    TopicOf <- OneAlone
    Values = {val1}
    Ops = {"connect", "stop"}
    Sends = {"one"}
    BatchSize = 2
    QueueLimit = 4
    MaxSeq = 2
    MaxGen = 1
    MaxEpoch = 0
    MaxErrors = 0
    MaxPulses = 0
SPECIFICATION Spec
INVARIANTS NoUnderflow
