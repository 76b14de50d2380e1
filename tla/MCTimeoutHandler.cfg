CONSTANTS
    USEC = 3
    Seconds = {0, 1, 2}
    MaxTotal = 10
SPECIFICATION Spec
INVARIANTS
    RemainingIsExact
    FiresOnceAndOnTime
PROPERTIES
    StoppedIsSilent
