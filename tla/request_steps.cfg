SPECIFICATION FairSpec
CONSTANTS
    NCases = 1
    NChecks = 2
    Hostile = 1
    MaxCalls = 1
    PipeFrames = 6
INVARIANTS
    VerdictIsOwn
    LaneInStep
    PassIsClean
    BlameIsEarned
PROPERTIES
    RunEnds
