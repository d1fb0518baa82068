SPECIFICATION FairSpec
CONSTANTS
    blue = blue
    green = green
    anna = anna
    api = api
    web = web
    janitor = janitor
    LineOrder <- TwoLines
    Submitters = {anna}
    Weights = {1, 2}
    Thresholds = {2, 3}
    Lifetime = 1
    Goroutines = {api}
    Connections = 4
    MaxVotes = 2
    MaxChanges = 2
INVARIANTS
    RecursionBounded
    NoVotesWhileOfficial
PROPERTIES
    EvaluationsReturn
    CommunityEnds
