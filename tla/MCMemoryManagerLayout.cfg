\* Scaled: CarveStart = 2^35 -> 8, AsSize39 = 2^39 -> 40, baseSize -> 26.
CONSTANTS
    AsSize39 = 40
    CarveStart = 8
    RegionAlignment = 2
    CodeRegionSize = 4
    AliasSize = 8
    HeapSize = 4
    StackSize = 2
    TlsIoSize = 8
    HostTop = 56
    WordMod = 64
    Points = {5, 9, 11, 36, 44, 48}
    MaxLines = 2
    HostMaps <- MCHostMaps
    CodeSizes = {1, 4, 5}
SPECIFICATION Spec
INVARIANT GuestReservationExact
CHECK_DEADLOCK FALSE
