SPECIFICATION Spec
CONSTANTS
    Cells = {1, 2, 3, 4, 5}
    NoCell = 0
    MaxKeys = 3
    MaxQueue = 4
    MaxText = 3
    MaxOrphans = 1
    Features = {"overflow"}
INVARIANTS
    NoCommitLost
CHECK_DEADLOCK FALSE
