SPECIFICATION FairSpec
CONSTANTS
    U16 = 4
    U32 = 16
    MsMod = 2
    ExitStatus <- MCExitStatus
INVARIANTS
    ModeIntegrity
    Preemptible
    StatusShown
PROPERTIES
    UserLeavesToRunFile
    KilledOnlyAfterTimeout
    ExitReported
    SleepWaits
    JumpsNeedContext
    UserStops
    TicksServed
    BootCompletes
