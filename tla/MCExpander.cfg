SPECIFICATION ExpSpec
CONSTANTS
    Id <- LayoutId
    INVALID = INVALID
    Switches <- LayoutSwitches
    track_a <- LayoutA
    track_b <- LayoutB
    track_common <- LayoutCommon
    Position <- LayoutPosition
    power_pos <- LayoutPower
    straight_pos <- LayoutStraight
    curved_pos <- LayoutCurved
    start_last = "A_1a"
    start_current = "A_1b"
    Sections <- trackid
    last_board = 6
    SimSleep = 6
    SleepTime = 2
    Slack = 1
INVARIANTS RoundApplied TornOnlyAtTrain OnRails
PROPERTIES TornForOneFrame PointsJoinRoute FollowsRails RoundTrips
