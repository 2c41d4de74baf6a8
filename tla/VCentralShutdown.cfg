\* A shutdown with an API client connected.
SPECIFICATION Spec
CONSTANTS
    p1 = p1
    p2 = p2
    i1 = i1
    i2 = i2
    c1 = c1
    c2 = c2
    Peer = {p1}
    Inbound = {}
    Client = {c1}
    Submodule = {"gossiper"}
    ViewListCap = 2
    incomingViewListMAX = 1
    apiClientsMAX = 1
    MaxViews = 1
    MaxProbes = 0
    MaxArrivals = 1
    MaxLoans = 0
    Crashing = {}
    Interrupts = TRUE
PROPERTIES
    GracefulShutdown
\* Run returns, the process exits, or the bounds are used up.
CHECK_DEADLOCK FALSE
