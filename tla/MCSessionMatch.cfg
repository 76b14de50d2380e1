CONSTANTS
    None = None
    Client = {c1, c2}
    Handle = {h1, h2}
    FLD_SZ = 2
    Fleet <- TwoCells
    SentField <- MCSentField
    Shot <- TwoShots
    PREPARATION_DURATION = 1
    TURN_DURATION = 2
    WAIT_DURATION = 2
    MaxPassed = 1
    MaxTimers = 1
SPECIFICATION FairSpec
INVARIANTS
    WinnerDestroyedAll
PROPERTIES
    ResultIsFinal
    TurnRecordsOneShot
    MatchesEnd
