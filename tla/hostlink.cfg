SPECIFICATION FairSpec
CONSTANTS
    Clients = {1, 2}
    Nobody = 0
    Capacity = 2
    Kinds = {"show", "notify", "stop"}
    MaxCalls = 3
INVARIANTS
    TypeOK
    OnlyTheLastIsStranded
    NoStall
PROPERTIES
    ServesInOrder
    CallReturns
