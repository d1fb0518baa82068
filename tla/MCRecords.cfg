INIT RecordsInit
NEXT RecordsNext
CONSTANTS
    Sources = {"operator", "community"}
    OfficialSources = {"operator"}
    Texts = {"delays"}
    DayLength = 4
    DayHours = 4
INVARIANTS
    DowntimeCountedOnce
    ClosedStationsPassed
    LearnedTimesReadBack
    TrainsForetold
    VisitsRemembered
    PagesAgree
    TripReadsBack
    WaitsGrow
CHECK_DEADLOCK FALSE
