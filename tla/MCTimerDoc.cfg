CONSTANTS
    Duration <- MCDuration
    MaxTime = 10
SPECIFICATION Spec
INVARIANTS
    ActiveUntilDurationPassed
