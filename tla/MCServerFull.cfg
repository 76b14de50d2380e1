CONSTANTS
    None = None
    Client = {c1, c2, c3, c4}
    CLIENT_QUEUE_LEN = 2
    GAME_COUNT = 1
    MaxBacklog = 1
SPECIFICATION Spec
SYMMETRY Symmetry
INVARIANTS
    TypeOK
    ClientsListedOnce
    SeatedInGame
    LoopsEnd
    BlocksOnlyOnReusedFd
