SPECIFICATION Spec
CONSTANTS
    EEPROM_SIZE = 32
    BLOCK = 4
    CHUNK = 2
    U16 = 64
    U32 = 72
    MAX_FILES = 3
    USER_START = 2
    USER_END = 8
    Archives <- MCArchives
    Garbage <- MCGarbage
    MaxReceives = 2
INVARIANTS
    ListsArchive
    ListsInOrder
    LoadedImage
    KernelMemoryKept
