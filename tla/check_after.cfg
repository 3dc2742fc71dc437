SPECIFICATION Spec
CONSTANTS
    NChecks = 2
    Audio = {1}
    Text = {}
    RecFrames = 1
    AudioRoom = 1
    CtlRoom = 1
    LaneRoom = 1
    EventRoom = 1
    Slips = {}
INVARIANTS
    NothingAskedAfter
