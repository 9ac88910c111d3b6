SPECIFICATION SpecRespondingTwice
CONSTANTS
    Clients = {c1, c2}
    Service = srv
    SeqMax = 2
    RequestMax = 3
    HoldMax = 1
SYMMETRY ClientSymmetry
INVARIANTS
    UnknownIsRefused
CHECK_DEADLOCK FALSE
