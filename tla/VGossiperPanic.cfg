\* Two items due in one round.
SPECIFICATION Spec
CONSTANTS
    i1 = i1
    i2 = i2
    i3 = i3
    t1 = t1
    p1 = p1
    p2 = p2
    c1 = c1
    NoItem = NoItem
    Item = {i1, i2}
    Peer = {}
    Client = {}
    DataType <- MCDataType
    dataType <- MCdataType
    cacheSize = 2
    degree = 1
    maxTTL = 2
    bMax = 2
    cMax = 2
    ByteSize = 4
    IDSpace = 2
    MaxRequests = 1
    MaxReply = 2
INVARIANTS
    RoundDoesNotPanic
\* The Gossiper stops for good when it is closed or has crashed.
CHECK_DEADLOCK FALSE
