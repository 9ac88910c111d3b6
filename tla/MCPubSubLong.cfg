SPECIFICATION FairSpec
CONSTANTS
    p1 = p1
    p2 = p2
    s1 = s1
    srv = srv
    cli = cli
    t1 = t1
    t2 = t2
    none = none
    Publishers = {p1}
    Subscriptions = {s1}
    Services = {}
    Clients = {}
    Threads = {t1}
    Topics <- MCLongTopics
    Node <- MCNode
    KeepAll = {p1}
    Reliable = {p1}
    None = none
    FieldMax = 127
    KeyMax = 254
    IntMax = 2147483647
    NumberMax = 1
    CountMax = 1
INVARIANTS
    TypesStayApart
