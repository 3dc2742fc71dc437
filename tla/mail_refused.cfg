SPECIFICATION Spec
CONSTANTS
    Room = 2
    Page = 2
    MaxMail = 2
    MaxRecords = 1
    MaxTrouble = 3
INVARIANT RefusedIsNotLost
CHECK_DEADLOCK FALSE
