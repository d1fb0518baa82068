SPECIFICATION Spec
CONSTANTS
    scraper = scraper
    first = first
    second = second
    third = third
    editor = editor
    delays = delays
    halted = halted
    NoStatus = NoStatus
    Sources <- AllSources
    OfficialSources <- Operator
    Texts <- TwoTexts
    Threads <- ThreeEvaluations
    SourceOf <- CommunityOf
    Editors = {}
    MaxTime = 4
PROPERTIES
    CommitsAreCurrent
CHECK_DEADLOCK FALSE
