\* Both sides send messages over one connection.
SPECIFICATION Spec
CONSTANTS
    MaxSends <- MCMaxSends
    Oversized <- MCOversized
    Type <- MCType
    InternalMessage = "InternalMessage"
    TypeOf <- MCTypeOf
    Inner <- MCInner
    WireCap = 1
    Quota = 6
    OneTear = TRUE
    outQueueSize = 1
INVARIANTS
    TypeOK
    AcceptedIsDelivered
    DeliveryNeedsTrust
    CrashHasACause
PROPERTIES
    OneEndEndsBoth
\* Both endpoints end.
CHECK_DEADLOCK FALSE
