SPECIFICATION AppSpec
CONSTANTS
    n1 = n1
    publisher = publisher
    subscriber = subscriber
    service = service
    client = client
    none = none
    Nodes = {n1}
    Endpoints = {publisher, subscriber, service, client}
    Kind <- MCKind
    NoOne = none
    QueueMax = 1
    QueryMax = 1
    FailureMax = 1
INVARIANT NodeFiniFindsItsNode
CHECK_DEADLOCK FALSE
