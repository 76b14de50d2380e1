CONSTANTS
    Addr = {a1, a2, a3, a4}
    Programs = {"server", "client"}
    Promptness = {TRUE, FALSE}
    RESEND_CNT = 2
    RESEND_TIME = 1
    SNDBUF = 2
    MaxMsgs = 2
    MaxPeerMsgs = 1
    MaxFails = 1
    MaxBreaks = 1
SPECIFICATION Spec
SYMMETRY Symmetry
INVARIANTS
    TypeOK
    Owned
    QueueSound
    DeliveredOnceInOrder
    AttemptsBounded
    GivenUpLast
PROPERTIES
    OnlyLateReceiptsDelete
