\* Four peers, two samplers, one peer of the view from each source.
SPECIFICATION Spec
CONSTANTS
    p1 = p1
    p2 = p2
    p3 = p3
    p4 = p4
    s1 = s1
    s2 = s2
    NoPeer = NoPeer
    Peer = {p1, p2, p3, p4}
    bootstrapper = p1
    alphaSize = 1
    betaSize = 1
    gammaSize = 1
    Sampler = {s1, s2}
    Permuter <- MCPermuter
    MaxPushes = 2
    MaxReply = 2
SYMMETRY Symmetry
INVARIANTS
    TypeOK
    SamplersFiled
    CapacityAccounted
    SamplesAreLowest
    AnswersBounded
PROPERTIES
    ImplementsViewOrders
\* The controller stops for good when it is closed.
CHECK_DEADLOCK FALSE
