SPECIFICATION Spec
CONSTANTS
    Threads = {t1, t2, t3}
    Registrations = {r1, r2}
    None = None
    CountMod = 4
    TriggerMax = 9
INVARIANTS
    TypeOK
    OnlyTheSetCallbackRuns
    TriggersAreAccounted
    NothingUnreadWithCallback
CHECK_DEADLOCK FALSE
