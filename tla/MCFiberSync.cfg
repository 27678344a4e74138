SPECIFICATION Spec
CONSTANTS
    N = 3
    countMax = 2
    Lap = 3
    CountMax = 2
    Expected = 3
    Phases = 2
INVARIANTS Exclusion WakeupNotLost Counts
PROPERTIES NoneForgotten
