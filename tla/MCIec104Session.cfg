SPECIFICATION Spec
CONSTANTS
    alarm = alarm
    hb = hb
    meter = meter
    sp = sp
    rb = rb
    ems = ems
    other = other
    EMS = ems
    Points <- MCPoints
    Class <- MCClass
    ObjAddr <- MCObjAddr
    Heartbeat = hb
    Readback <- MCReadback
    Valid <- MCValid
    Values = {2}
    Injectors = {i1}
    SubscriberBufferSize = 2
    HeartbeatQueueSize = 1
    Requests <- MCRequests
    LinkOps = {"pause", "clear", "hang"}
    Word = 8
    MaxTicks = 1
    MaxFrames = 3
    MaxOps = 1
    None = None
CHECK_DEADLOCK FALSE
INVARIANTS
    SequenceUnbroken
    ClientIsCurrent
    ProbeNeverFails
PROPERTIES
    UpdatesExactlyWhileConfirmed
    InterrogationIsOneInstant
