CONSTANTS
    Slots = {1, 2}
    MaxVersion = 3
    FormatMatches = {TRUE}
    TileModes = {"Linear"}
SPECIFICATION Spec
INVARIANT ReadsSeeLatestWrite
