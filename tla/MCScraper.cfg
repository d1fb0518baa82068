SPECIFICATION FairSpec
CONSTANTS
    azul = azul
    verde = verde
    ok = ok
    delays = delays
    LineNames <- TwoLines
    Messages <- TwoMessages
    Responses <- FourResponses
    Missing = Missing
    NoResponse = NoResponse
    Garbled = Garbled
    MaxBegins = 2
    MaxChanges = 1
INVARIANTS
    RunningHasLoop
PROPERTIES
    EndStopsAll
    Converges
