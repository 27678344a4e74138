SPECIFICATION Spec
CONSTANTS
    Period = 6
    Step = 4
    Scale = 8
    Wrap = 9
    Duration = 2
    MaxSleep = 5
    MaxCall = 2
    MaxLag = 2
INVARIANTS HeldLongEnough
PROPERTIES NowIsNow OverlapIsShort Alternates
