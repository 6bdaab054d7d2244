SPECIFICATION Spec
CONSTANTS
    MaxLength = 3
    MaxBopomofo = 2
INVARIANTS
    SegmentsTile
CHECK_DEADLOCK FALSE
