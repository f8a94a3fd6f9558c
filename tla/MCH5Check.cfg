CONSTANTS
    Addr <- MCAddr
    Files <- MCFiles
    Faults <- MCFaults
    SnodeHdr = 1
    GpEntry = 1
    LeafDefault = 2
    SnodeDefault = 1
    IstoreDefault = 1
    MaxObj = 4
    MaxSub = 3
    NameMax = 12
    NameLength <- MCNameLength
    MaxDepth = 24
    MaxMesgs = 8
    Undef <- MCUndef
SPECIFICATION Spec
INVARIANTS
    H5TypeOK
    HeaderReadOnce
    CurrentObjectIsOpen
    LogOnlyOfSoundFiles
    ErrorsFlushed
    LogDescribesFile
PROPERTY
    CheckEnds
