SPECIFICATION HubSpec
CONSTANTS
    Capacity = 2
    ChannelSize = 2
    MaxID = 6
    MaxReconnects = 2
    Telemetry = TRUE
INVARIANTS
    StreamIsGapless
    ReplayIsComplete
CHECK_DEADLOCK FALSE
