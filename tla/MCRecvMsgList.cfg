SPECIFICATION FairSpec
CONSTANTS
    Lists = {requests, responses}
    Msgs = {m1, m2, m3}
    Keys = {k1, k2}
    Null = Null
INVARIANTS
    TypeOK
    ListLinked
    ScanSound
PROPERTIES
    IsMsgQueue
    PickupEnds
CHECK_DEADLOCK TRUE
