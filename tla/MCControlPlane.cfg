SPECIFICATION FairSpec
CONSTANTS
    h1 = h1
    h2 = h2
    Handlers = {h1, h2}
    Requests = {"load", "start", "stop", "reset", "advance", "write", "link", "read"}
    Steps <- MCSteps
    ClockStart = 1
    Later = 3
    MaxAdvance = 1
    None = None
INVARIANTS
    TypeOK
    DtBaselineIsClock
    StepsExecutedOnce
    StepsNotEarly
    RunOwnsDrive
    ResetIsAtomic
PROPERTIES
    RequestsReturn
