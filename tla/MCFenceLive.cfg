SPECIFICATION FairFenceSpec
CONSTANTS
    hb = hb
    other = other
    Points <- MCPoints
    Values = {0}
    Zero = 0
    SetpointOf <- MCSetpointOf
    Baseline <- MCBaseline
    Writers = {tick}
    Subscribers = {feed}
    BatchSubscribers = {}
    SubscriberBufferSize = 1
    MaxRev = 1
    Heartbeat = hb
    Feed = feed
    Conns = {c1}
    Admins = {a1}
    HeartbeatQueueSize = 1
    MaxOps = 2
    LinkOps = {"pause", "drop"}
    None = None
PROPERTIES
    LinkOperationsReturn
CHECK_DEADLOCK FALSE
