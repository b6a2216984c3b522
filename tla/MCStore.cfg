SPECIFICATION Spec
CONSTANTS
    setpoint = setpoint
    readback = readback
    alarm = alarm
    w1 = w1
    w2 = w2
    Points <- MCPoints
    Values = {0, 1}
    Zero = 0
    SetpointOf <- MCSetpointOf
    Baseline <- MCBaseline
    Writers <- MCWriters
    Subscribers = {s1}
    BatchSubscribers = {b1}
    SubscriberBufferSize = 2
    MaxRev = 3
SYMMETRY Symmetry
INVARIANTS
    StoreIInv
