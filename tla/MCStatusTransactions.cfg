SPECIFICATION FairSpec
CONSTANTS
    scraper = scraper
    first = first
    second = second
    third = third
    editor = editor
    delays = delays
    halted = halted
    NoStatus = NoStatus
    Sources <- AllSources
    OfficialSources <- Operator
    Texts <- OneText
    Threads <- ScraperAndEvaluation
    SourceOf <- ScraperOrCommunity
    Editors <- OneEditor
    MaxTime = 4
INVARIANTS
    NotifiedIsCommitted
PROPERTIES
    EveryCallReturns
CHECK_DEADLOCK FALSE
