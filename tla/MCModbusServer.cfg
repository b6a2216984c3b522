SPECIFICATION Spec
CONSTANTS
    hb = hb
    meter = meter
    spA = spA
    spB = spB
    alarm = alarm
    c1 = c1
    c2 = c2
    Base = 2
    Points <- MCPoints
    Catalog <- MCCatalog
    Heartbeat = hb
    Valid <- MCValid
    Startup <- MCStartup
    Order = "little_word_swap"
    Addresses = 8
    MaxQty <- MCMaxQty
    Conns = {c1, c2}
    Frames <- MCFrames
    LinkOps <- MCLinkOps
    MaxBeat = 2
    MaxOps = 2
    MaxFrames = 2
    None = None
CHECK_DEADLOCK FALSE
SYMMETRY Symmetry
INVARIANTS
    DecodeInvertsEncode
    ResponseIsOneInstant
    DropLeavesNobodyConnected
PROPERTIES
    HeartbeatNeverGoesBack
    WritesTouchOnlyTheirRegisters
