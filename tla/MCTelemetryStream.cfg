SPECIFICATION FairStreamSpec
CONSTANTS
    setpoint = setpoint
    readback = readback
    alarm = alarm
    Points <- MCPoints
    Values = {0, 1}
    Zero = 0
    SetpointOf <- MCSetpointOf
    Baseline <- MCBaseline
    Writers = {w1}
    Subscribers = {}
    BatchSubscribers = {p1}
    SubscriberBufferSize = 1
    MaxRev = 3
    WireCap = 2
    MaxBreaks = 1
INVARIANTS
    StreamIInv
PROPERTIES
    PageIsConsistentView
    PageCatchesUp
CHECK_DEADLOCK FALSE
