\* One peer that is added, removed, probed and lent, and fails, until a shutdown.
SPECIFICATION FairSpec
CONSTANTS
    p1 = p1
    p2 = p2
    i1 = i1
    i2 = i2
    c1 = c1
    c2 = c2
    Peer = {p1}
    Inbound = {}
    Client = {}
    Submodule = {"gossiper"}
    ViewListCap = 2
    incomingViewListMAX = 1
    apiClientsMAX = 1
    MaxViews = 3
    MaxProbes = 1
    MaxArrivals = 0
    MaxLoans = 2
    Crashing = {}
    Interrupts = TRUE
INVARIANTS
    TypeOK
    OnePlace
    RecordsMatchGoroutines
    GoroutinesCounted
    LoansAccounted
    NoneOverdue
PROPERTIES
    ForgottenByTheRule
    RemovalDrains
    ShutdownEnds
\* Run returns, the process exits, or the bounds are used up.
CHECK_DEADLOCK FALSE
