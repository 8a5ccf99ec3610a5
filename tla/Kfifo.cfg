SPECIFICATION Spec
CONSTANTS
    Byte = {0, 1}
    Size = 2
    Laps = 2
    MaxRequest = 3
INVARIANTS
    NoDataRace
    RingInv
PROPERTIES
    QueueSpec
