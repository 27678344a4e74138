CONSTANTS
    Channels = 3
    Oversamples = 2
    BuffersLive = FALSE
    Impatient = FALSE
SPECIFICATION Spec
INVARIANT Averages
