SPECIFICATION CallsSpec
CONSTANTS
    Byte = {0, 1}
    Size = 2
    Laps = 2
    MaxRequest = 2
INVARIANTS
    ZeroedOnlyWhenEmpty
