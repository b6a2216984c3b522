SPECIFICATION Spec
CONSTANTS
    MaxDuration = 255
    Significands = 64
    Unit = 256
    Spacings <- MCSpacings
    Speeds = {1, 3, 7, 512, 520}
    Capacity = 24
    InitialEnergy = 12
    Nominal = 6
    EffNum = 3
    EffDen = 4
    Hour = 2
    Band = 12
    Epsilon = 2
    Ambient = 25
    DerateStart = 30
    DerateFull = 34
    Heat = 12
    Chiller = 3
    PassiveLoss = 0
    ThermalMass = 3
    StepInterval = 3
    Demands <- MCDemands
    Totals = {0, 2, 4, 5}
    ScenarioSpeeds = {512}
    MaxLate = 1
    Saturates = TRUE
CHECK_DEADLOCK FALSE
INVARIANT
    AcceptedPaceIsClose
PROPERTIES
    PacingIsPromised
    NoFreeEnergy
    ProhibitionIsObeyed
    ChargingEndsFull
