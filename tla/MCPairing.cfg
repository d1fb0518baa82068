SPECIFICATION FairSpec
CONSTANTS
    rita = rita
    rui = rui
    web1 = web1
    web2 = web2
    Players = {rita, rui}
    Clients = {web1, web2}
    Device <- DeviceOf
    bcd = bcd
    fgh = fgh
    jkm = jkm
    Drawn <- ThreeCodes
    PairProcessLongevity = 1
    Failing = TRUE
    MaxTime = 2
INVARIANTS
    BonusOnce
    PhonesCanMove
PROPERTIES
    RequestsReturn
CHECK_DEADLOCK FALSE
