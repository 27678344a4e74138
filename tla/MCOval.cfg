SPECIFICATION ExpSpec
CONSTANTS
    Id <- OvalId
    INVALID = INVALID
    Switches <- OvalSwitches
    track_a <- OvalA
    track_b <- OvalB
    track_common <- OvalCommon
    Position <- OvalPosition
    power_pos <- OvalPower
    straight_pos <- OvalStraight
    curved_pos <- OvalCurved
    start_last = "Z"
    start_current = "E"
    Sections <- OvalSections
    last_board = 1
    SimSleep = 6
    SleepTime = 2
    Slack = 1
INVARIANTS TypeOK
PROPERTIES ImplementsSimulation PowerArrives UsesContract StaysPoweredWhenLost
