SPECIFICATION Spec
CONSTANTS
    Sources <- AllSources
    OfficialSources <- Operator
    Texts <- AllTexts
    OperatorTexts <- Messages
    BotTexts <- AdminTexts
    Evaluations = {e1, e2}
    MaxTime = 6
SYMMETRY Symmetry
INVARIANTS
    TypeOK
    AtMostOneOngoing
    DisjointIntervals
    OfficialWithinUnofficial
    DowntimeAttributed
PROPERTIES
    EndedIsFinal
    Timeline
CHECK_DEADLOCK FALSE
