SPECIFICATION GatewayFairSpec
CONSTANTS
    rita = rita
    phone = phone
    browser = browser
    web = web
    green = green
    blue = blue
    red = red
    Users = {rita}
    Reporters = {phone, web}
    Clients = {phone, browser}
    Web = {web}
    Kind <- KindOf
    UserOf <- OneUser
    Stations <- TwoStations
    Topics <- TwoTopics
    ShortStay = 1
    LongStay = 1
    IdleAfter = 0
    Availabilities = {"all", "none"}
INVARIANTS
    InOneStation
PROPERTIES
    Forgotten
    IdleLeave
CHECK_DEADLOCK FALSE
