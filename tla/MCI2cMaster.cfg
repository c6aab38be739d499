SPECIFICATION FairSpec
CONSTANTS
    Byte = {b0, b1}
    None = none
INVARIANTS
    OneAtATime
PROPERTIES
    Bus
    CallsReturn
