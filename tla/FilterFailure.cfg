CONSTANTS
    AddrUndef = 60
    ByteBits = 4
    SizeMax = 1000
    MaxFilters = 4
    Registered <- MCRegistered
    Uninitialized <- MCUninitialized
    Cases <- DamageCases
SPECIFICATION Spec
INVARIANT FailedFilterFails
