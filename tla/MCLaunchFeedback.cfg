SPECIFICATION Spec
CONSTANTS
    MaxFeedbacks = 2
    MaxLaunches = 3
    MaxWindows = 2
    Minimum = 1
    Timeout = 3
INVARIANTS
    TypeOK
    OwnCallbackCountsNewWindows
    NothingLeaks
    PaintedAfterConfigure
PROPERTIES
    EndsForAReason
    FeedbackEnds
CHECK_DEADLOCK FALSE
