SPECIFICATION Spec
CONSTANTS
    scraper = scraper
    first = first
    second = second
    third = third
    editor = editor
    delays = delays
    halted = halted
    NoStatus = NoStatus
    Sources <- AllSources
    OfficialSources <- Operator
    Texts <- OneText
    Threads <- ScraperAndEvaluation
    SourceOf <- ScraperOrCommunity
    Editors = {}
    MaxTime = 4
INVARIANT
    AtMostOneOngoing
CHECK_DEADLOCK FALSE
