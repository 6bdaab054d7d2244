SPECIFICATION Spec
CONSTANTS
    MaxLength = 5
    MaxBopomofo = 3
INVARIANTS
    TypeOK
    TextSoFar
    BopomofoHasItsSegment
    SegmentsTileAtTheEnds
CHECK_DEADLOCK FALSE
