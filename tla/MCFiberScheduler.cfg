SPECIFICATION Spec
CONSTANTS
    Fibers = {f1, f2, f3, f4}
    NULL = NULL
INVARIANTS TypeOK ListClosed JumpsLandAlive
PROPERTIES NoStarvation JoinEnds ImplementsRoundRobin
