SPECIFICATION FairSpec
CONSTANTS
    EEPROM_SIZE = 6
    Byte <- MCByte
    NoByte = NoByte
    Addresses = {}
    Payloads = {}
    Lengths = {}
    Contents <- MCContents
    Base = 5
    SizeBytes = 2
    FifoSize = 2
    BUFSIZE = 2
    ReadBuf = 3
    U16 = 8
    Files <- MCFiles
    MaxSends = 2
INVARIANTS
    TypeOK
    LoadedFile
    LossNotReported
PROPERTIES
    ReadBackFaithful
    LoadEnds
