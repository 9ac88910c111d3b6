SPECIFICATION Spec
CONSTANTS
    o1 = o1
    o2 = o2
    c1 = c1
    c2 = c2
    p1 = p1
    p2 = p2
    null = null
    Options = {o1, o2}
    Contexts = {c1, c2}
    Params = {p1, p2}
    Addresses = {"here", "there", "far too long"}
    TooLong = {"far too long"}
    Transport = "unicast"
    Null = null
    AbandonMax = 1
INVARIANTS
    ContextsAreCounted
    EnabledIsOpen
    OpensAsFirstConfigured
    ParamsHaveOneOwner
    UndefinedOnlyAfterSlip
PROPERTY OpenUntilLastRelease
SYMMETRY Symmetric
CHECK_DEADLOCK FALSE
