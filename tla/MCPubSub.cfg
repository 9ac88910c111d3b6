SPECIFICATION FairSpec
CONSTANTS
    p1 = p1
    p2 = p2
    s1 = s1
    srv = srv
    cli = cli
    t1 = t1
    t2 = t2
    none = none
    Publishers = {p1, p2}
    Subscriptions = {s1}
    Services = {srv}
    Clients = {cli}
    Threads = {t1, t2}
    Topics <- MCTopics
    Node <- MCNode
    KeepAll = {p1}
    Reliable = {p1}
    None = none
    FieldMax = 127
    KeyMax = 254
    IntMax = 2147483647
    NumberMax = 2
    CountMax = 2
INVARIANTS
    EverySampleIsSomewhere
    OnlySameTopics
    TokensAreDistinct
    SequenceReports
PROPERTIES
    IsTopicChannel
    SentIsSettled
