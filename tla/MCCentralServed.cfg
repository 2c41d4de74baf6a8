\* Incoming connections and API clients come and go until a shutdown.
SPECIFICATION Spec
CONSTANTS
    p1 = p1
    p2 = p2
    i1 = i1
    i2 = i2
    c1 = c1
    c2 = c2
    Peer = {}
    Inbound = {i1, i2}
    Client = {c1}
    Submodule = {"gossiper", "apiListener"}
    ViewListCap = 2
    incomingViewListMAX = 2
    apiClientsMAX = 1
    MaxViews = 0
    MaxProbes = 0
    MaxArrivals = 2
    MaxLoans = 0
    Crashing = {"gossiper"}
    Interrupts = TRUE
INVARIANTS
    RecordsMatchGoroutines
    DoneMeansAllEnded
\* Run returns, the process exits, or the bounds are used up.
CHECK_DEADLOCK FALSE
