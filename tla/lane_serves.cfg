SPECIFICATION PartsSpec
CONSTANTS
    Controls = {k1, k2}
    Inline = {k1}
    Answerers = {a1, a2}
    Calls = {c1, c2}
    Events = {e1, e2}
    Flushes = {f1}
    AdmitQueue = 1
    EventQueue = 1
    MaxPending = 1
    HostWindow = 2
INVARIANTS
    OutcomeIsHonest
    StreamStaysFramed
    FlushedMeansWritten
    NoLostWakeup
    TypeOK
    SlotsAreHeld
    AnsweredOnce
    CleanReturnDelivers
    ReplyAlwaysFits
PROPERTIES
    WindowedHostIsServed
CONSTRAINT Apart
SYMMETRY Symmetric
