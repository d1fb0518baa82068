SPECIFICATION FeedsFairSpec
CONSTANTS
    green = green
    blue = blue
    MaxPosts = 3
    Shown = 2
    MaxAnnBegins = 2
    MaxGlitches = 1
    MaxFailures = 1
    LineOrder <- TwoLines
    Conditions <- TwoConditions
    MaxConditionChanges = 2
    MaxErrors = 1
INVARIANTS
    NotifiedOnce
PROPERTIES
    LastAnnounced
    CatchesUp
CHECK_DEADLOCK FALSE
