CONSTANTS
    Slots = {1, 2}
    MaxVersion = 3
    FormatMatches = {TRUE, FALSE}
    TileModes = {"Block"}
SPECIFICATION Spec
INVARIANTS
    TypeOK
    ReadsSeeLatestWrite
    PendingCopyTracked
PROPERTIES
    FaultsResolve
