SPECIFICATION FairSpec
CONSTANTS
    rita = rita
    ride = ride
    party = party
    web = web
    gateway = gateway
    Players = {rita}
    Trips = {ride}
    TripPlayer <- TripOf
    TripXP <- TwoForATrip
    LongTrips = {ride}
    Events = {party}
    Achievements <- ThreeAchievements
    Trigger <- TriggerOf
    LevelXP <- LevelOf
    XPReward <- WorthOf
    HttpHandlers = {web}
    DiscordHandlers = {gateway}
    Capacity = 4
    Failing = TRUE
    MaxTime = 6
INVARIANTS
    RewardedOnce
    SeenAll
PROPERTIES
    WeeksApart
    ProcessorDrains
CHECK_DEADLOCK FALSE
