CONSTANTS
    Channels = 3
    Oversamples = 100
    BuffersLive = TRUE
    Impatient = FALSE
SPECIFICATION Spec
INVARIANTS Averages EnoughSamples
PROPERTIES ReadsStable ReadoutEnds
