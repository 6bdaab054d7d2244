SPECIFICATION Spec
CONSTANTS
    Cells = {1, 2, 3}
    NoCell = 0
    MaxKeys = 2
    MaxQueue = 3
    MaxText = 1
    MaxOrphans = 1
    Features = {"terminate", "openclose", "toggle", "fail", "overflow", "blur", "keyup", "rebuild", "refuse"}
INVARIANTS
    TypeOK
    SessionOrder
    OneInTheDocument
