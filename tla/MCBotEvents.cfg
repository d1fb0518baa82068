SPECIFICATION FairSpec
CONSTANTS
    rita = rita
    first = first
    second = second
    admin = admin
    reaction = reaction
    quiz = quiz
    choice = choice
    Users = {rita}
    Handlers = {first, second}
    Admins = {admin}
    Events = {reaction, quiz, choice}
    Sort <- SortOf
    Key <- OwnKey
    MaxAttempts = 2
    MaxSent = 2
    MaxStarted = 1
INVARIANTS
    ChoiceRewards
PROPERTIES
    EventsEnd
CHECK_DEADLOCK FALSE
