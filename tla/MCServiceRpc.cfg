SPECIFICATION Spec
CONSTANTS
    Clients = {c1, c2}
    Service = srv
    SeqMax = 2
    RequestMax = 3
    HoldMax = 2
SYMMETRY ClientSymmetry
INVARIANTS
    TypeOK
    HeldAreKept
    ResponsesArrive
    ArrivalOrder
PROPERTIES
    IsRpcCalls
CHECK_DEADLOCK FALSE
