SPECIFICATION Spec
CONSTANTS
    n1 = n1
    n2 = n2
    pub = pub
    sub = sub
    cli = cli
    none = none
    Nodes = {n1, n2}
    Endpoints = {pub, sub, cli}
    Kind <- MCKind
    NoOne = none
    QueueMax = 1
    QueryMax = 1
    FailureMax = 1
INVARIANTS
    ReferencesAreCounted
    UndefinedOnlyAfterSlip
    CallbacksHaveContext
    TokensFollowData
    AllGivenBack
SYMMETRY NodeSymmetry
CHECK_DEADLOCK FALSE
