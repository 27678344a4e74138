SPECIFICATION LogSpec
CONSTANTS
    Byte = {a, b}
    N = 2
    ItmSize = 1
    Zero = Zero
INVARIANT FinishedMeansSent
