CONSTANTS
    FLD_SZ = 4
    Fleet <- MCFleet
    Target <- MCTarget
    MaxShots = 4
SPECIFICATION Spec
INVARIANTS
    ScanAcceptsLegalFields
    BoardFollowsRules
    EnemyTargetsAreOpen
PROPERTIES
    MarksAreFinal
