SPECIFICATION BlockedSpec
CONSTANTS
    Controls = {}
    Inline = {}
    Answerers = {}
    Calls = {c1}
    Events = {e1, e2, e3}
    Flushes = {f1}
    AdmitQueue = 1
    EventQueue = 1
    MaxPending = 1
    HostWindow = 1
PROPERTIES
    ServeReturns
    CallersReleased
    FlushReturns
