SPECIFICATION FairSpec
CONSTANTS
    Guards = {g1}
    Subs = {s1}
    Services = {}
    Clients = {c1}
    Threads = {t1, t2}
    Nobody = Nobody
    QueueMax = 2
    UnreadMod = 1
INVARIANTS
    TypeOK
    NoLostWakeup
    OnlyGuardsLeaveSleepers
    NeverBlocksOnBacklog
    NoUseAfterDestroy
PROPERTIES
    ReturnsWhatIsReady
    MessageEndsWait
