SPECIFICATION Spec
CONSTANTS
    U16 = 4
    U32 = 16
    MsMod = 2
    ExitStatus <- MCExitStatus
INVARIANTS
    ResumesLiveFrame
