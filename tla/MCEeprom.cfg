SPECIFICATION FairSpec
CONSTANTS
    EEPROM_SIZE = 8
    PAGESIZE = 4
    MsMod = 5
    WaitMs = 2
    MaxCalls = 3
    Byte <- MCByte
    NoByte = NoByte
    Addresses <- MCAddresses
    Payloads <- MCPayloads
    Lengths <- MCLengths
    Contents <- MCContents
INVARIANTS
    BytesLand
    WaitIsForTheCycle
PROPERTIES
    Store
    CallReturns
    MissingNotReported
