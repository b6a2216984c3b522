SPECIFICATION FenceSpec
CONSTANTS
    hb = hb
    other = other
    Points <- MCPoints
    Values = {0}
    Zero = 0
    SetpointOf <- MCSetpointOf
    Baseline <- MCBaseline
    Writers = {tick}
    Subscribers = {feed}
    BatchSubscribers = {}
    SubscriberBufferSize = 1
    MaxRev = 1
    Heartbeat = hb
    Feed = feed
    Conns = {c1}
    Admins = {a1, a2}
    HeartbeatQueueSize = 2
    MaxOps = 2
    LinkOps = {"pause", "clear"}
    None = None
PROPERTIES
    NoStaleFrame
CHECK_DEADLOCK FALSE
