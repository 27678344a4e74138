CONSTANTS
    Channels = 2
    Oversamples = 1
    BuffersLive = FALSE
    Impatient = TRUE
SPECIFICATION Spec
INVARIANTS TypeOK NeverStalls
