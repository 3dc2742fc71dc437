SPECIFICATION Spec
CONSTANTS
    NChecks = 2
    Audio = {1}
    Text = {2}
    RecFrames = 2
    AudioRoom = 1
    CtlRoom = 1
    LaneRoom = 1
    EventRoom = 1
    Slips = {"hangup"}
INVARIANTS
    FinishFollowsRecording
    OneSessionAtATime
    EndIsNoticed
    PassedIsComplete
    SlowIsNeverWrong
PROPERTIES
    RecordingEndsWithCheck
