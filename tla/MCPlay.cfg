CONSTANTS
    None = None
    Client = {c1, c2}
    Handle = {h1, h2, h3}
    FLD_SZ = 1
    Fleet <- OneShip
    SentField <- ShipAnywhere
    Shot <- AnyCell
    OwnFieldStart <- MCOwnFieldStart
    EnemyFieldStart <- MCEnemyFieldStart
    PREPARATION_DURATION = 1
    TURN_DURATION = 2
    WAIT_DURATION = 2
    MaxPassed = 1
    MaxTimers = 1
    Key <- NoKey
    Prompt = FALSE
    MaxInFlight = 1
    MaxRequests = 4
    MaxBreaks = 1
CHECK_DEADLOCK FALSE
SPECIFICATION PlaySpec
SYMMETRY Symmetry
INVARIANTS
    InterfaceFollowsSession
    ShownBoardsAgree
