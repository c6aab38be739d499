SPECIFICATION FrameSpec
CONSTANTS
    Depth = 1
    Pushed = {"s0"}
    Clobbers <- MCClobbers
    Starts <- MCStarts
    Value <- MCValue
    Junk = {"junk"}
INVARIANTS
    TrapsTransparent
    SyscallTransparent
