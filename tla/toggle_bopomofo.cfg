SPECIFICATION Spec
CONSTANTS
    Cells = {1, 2, 3, 4, 5}
    NoCell = 0
    MaxKeys = 2
    MaxQueue = 4
    MaxText = 2
    MaxOrphans = 1
    Features = {"toggle"}
INVARIANTS
    DroppedNotCommitted
CHECK_DEADLOCK FALSE
