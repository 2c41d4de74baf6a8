\* The node under load: the Central controller waits for ever.
SPECIFICATION Spec
CONSTANTS
    inQueueSize = 3
    outQueueSize = 1
    Burst = 1
INVARIANTS
    CentralGetsOn
CHECK_DEADLOCK FALSE
