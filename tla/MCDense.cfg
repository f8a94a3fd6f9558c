CONSTANTS
    IntBits = 5
    Undef = Undef
    Overhead = 2
    SizeofAddr = 8
    SizeofSize = 8
    OffsetBits = 10
    WidthLimit = 4
    DirectLimit = 32
    MaxIdLen = 33
    Uninitialized <- MCUninitialized
    Cases <- MCCases
SPECIFICATION Spec
INVARIANTS
    DenseTypeOK
    ManagedObjectsFound
    FindExact
    FollowedOnce
    AcceptedIffSound
PROPERTIES
    DenseEnds
