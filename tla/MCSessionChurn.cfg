CONSTANTS
    None = None
    Client = {c1, c2}
    Handle = {h1, h2, h3, h4, h5}
    FLD_SZ = 1
    Fleet <- OneShip
    SentField <- MCSentField
    Shot <- MCShot
    PREPARATION_DURATION = 4
    TURN_DURATION = 3
    WAIT_DURATION = 2
    MaxPassed = 4
    MaxTimers = 3
SPECIFICATION Spec
SYMMETRY Symmetry
INVARIANTS
    TypeOK
    StateCountsPlayers
    HandlersOwned
    TurnTimeoutLive
    MatchHasTimeout
    PlayersAgree
PROPERTIES
    MatchSpec
