SPECIFICATION MCSpec
CONSTANTS
    w1 = w1
    w2 = w2
    Writers = {w1, w2}
    Accepted <- MCAccepted
    Startup <- MCStartup
    Batches <- MCBatches
    Half = 2
    Schedule <- MCSchedule
    Physical <- AllRange
    WatchdogModes = {"hold", "zero_after", "safe_state_after"}
    Timeout = 2
    Day = 4
    Instants = {2}
    MaxNow = 5
    MaxNowHold = 3
    Significands = 512
    Spacings = {1, 2, 4, 8, 16, 32, 64, 128, 256, 512}
    Unit = 4096
    MinI16 <- MCMinI16
    MaxI16 = 7
    MaxFloat32 = 24576
    NotFinite = NotFinite
    AllowDangerous = FALSE
    Metas <- MCMetas
    Tenths <- MCTenths
    None = None
INVARIANTS
    ValidateIsExact
    TypeOK
    DispatchFollowsDemand
    TripHolds
    NoLostUpdate
