CONSTANTS
    Addr = {a1, a2, a3, a4}
    Programs = {"server", "client"}
    RESEND_CNT = 1
    RESEND_TIME = 1
    Promptness = {TRUE}
    SNDBUF = 1
    MaxMsgs = 2
    MaxPeerMsgs = 1
    MaxFails = 1
    MaxBreaks = 0
SPECIFICATION FairSpec
PROPERTIES
    AllAcknowledged
