SPECIFICATION HubSpec
CONSTANTS
    Capacity = 4
    ChannelSize = 2
    MaxID = 6
    MaxReconnects = 2
    Telemetry = TRUE
INVARIANTS
    ReconnectMissesNothing
CHECK_DEADLOCK FALSE
