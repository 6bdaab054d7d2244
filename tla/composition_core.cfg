SPECIFICATION FairSpec
CONSTANTS
    Cells = {1, 2, 3, 4, 5}
    NoCell = 0
    MaxKeys = 3
    MaxQueue = 4
    MaxText = 3
    MaxOrphans = 1
    Features = {"terminate", "openclose", "toggle"}
INVARIANTS
    InTypedOrder
    Agreement
PROPERTIES
    DeliversInOrder
    GivenUpEnds
