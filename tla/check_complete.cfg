SPECIFICATION Spec
CONSTANTS
    NChecks = 1
    Audio = {}
    Text = {1}
    RecFrames = 1
    AudioRoom = 1
    CtlRoom = 1
    LaneRoom = 1
    EventRoom = 1
    Slips = {"quit"}
INVARIANTS
    CompleteIsJudged
