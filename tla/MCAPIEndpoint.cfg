\* One client that connects twice from the same address.
SPECIFICATION Spec
CONSTANTS
    MaxConns = 2
    MaxSends <- MCMaxSends
    MaxItems = 2
    IDSpace = 2
    Buffered = 3
    Quota = 5
INVARIANTS
    TypeOK
    RegistrationFollowsConnection
PROPERTIES
    RejectsWhatWasShown
    GoneIsForgotten
\* The client leaves for good.
CHECK_DEADLOCK FALSE
