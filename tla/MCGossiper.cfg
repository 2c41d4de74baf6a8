\* Two items, one peer that is pushed to and pulled from, no API client.
SPECIFICATION FairSpec
CONSTANTS
    i1 = i1
    i2 = i2
    i3 = i3
    t1 = t1
    p1 = p1
    p2 = p2
    c1 = c1
    NoItem = NoItem
    Item = {i1, i2}
    Peer = {p1}
    Client = {}
    DataType <- MCDataType
    dataType <- MCdataType
    cacheSize = 2
    degree = 1
    maxTTL = 2
    bMax = 3
    cMax = 2
    ByteSize = 4
    IDSpace = 2
    MaxRequests = 1
    MaxReply = 2
INVARIANTS
    TypeOK
    ListsDisjoint
    MedianRuleKept
PROPERTIES
    StatesOnlyAdvance
    GossipDiesOut
\* The Gossiper stops for good when it is closed or has crashed.
CHECK_DEADLOCK FALSE
