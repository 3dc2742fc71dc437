SPECIFICATION FairSpec
CONSTANTS
    NCases = 2
    NChecks = 0
    Hostile = 0
    MaxCalls = 0
    PipeFrames = 1
PROPERTIES
    RunEnds
