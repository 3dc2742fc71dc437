SPECIFICATION FairSpec
CONSTANTS
    Room = 1
    Page = 2
    MaxMail = 3
    MaxRecords = 2
    MaxTrouble = 2
    PollLimit = 2
    MaxUpdates = 3
    MaxSlips = 2
    Limits = {1, 2}
    Windows = {1, 2}
    Skew = 1
    MaxSendLimit = 3
    MaxClock = 3
    MaxSends = 3
    MaxMisses = 1
    MaxAsks = 3
    MaxHitches = 4
    MaxWrites = 3
    MaxTurns = 3
    PageSize = 1
    Pages = 2
    Span = 3
    Most = 3
    Needs = {1, 2}
    MaxMishaps = 3
INVARIANTS
    
    AnswersAreTrue
    ChangesWhatWasRead
    WritesAreTrue
    FreeTimeIsExact
    SetupIsClean
PROPERTIES
    InboxesAreHandedOver
    ChannelsGoOn
CONSTRAINT OneAtATime
CHECK_DEADLOCK FALSE
