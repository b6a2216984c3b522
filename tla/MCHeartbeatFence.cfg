SPECIFICATION FenceSpec
CONSTANTS
    hb = hb
    other = other
    Points = {hb}
    Values = {0}
    Zero = 0
    SetpointOf <- MCSetpointOf
    Baseline <- MCBaseline
    Writers = {tick}
    Subscribers = {feed}
    BatchSubscribers = {}
    SubscriberBufferSize = 1
    MaxRev = 2
    Heartbeat = hb
    Feed = feed
    Conns = {c1}
    Admins = {a1}
    HeartbeatQueueSize = 2
    MaxOps = 2
    LinkOps = {"pause", "clear", "drop", "hang"}
    None = None
INVARIANTS
    FenceTypeOK
    PausedHeartbeatsNeverLeave
    DropClosesEverything
PROPERTIES
    OnlyStaleHeartbeatsAreDiscarded
    NoStaleFrame
    HeartbeatsInOrder
CHECK_DEADLOCK FALSE
