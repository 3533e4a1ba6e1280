CONSTANTS
    Clients = {c1}
    Consumers = {c1}
    SyncCallers = {s1, s2, s3}
    AsyncCallers = {a1, a2}
    Permits = 2
    Keys = {k1, k2}
    QueueDepth = 1
    MaxFeeds = 2
    MaxTimers = 1
    Inputs = {i1, i2}
    MaxInputs = 2
    MaxContinues = 1
    MaxLen = 2
    MaxEvents = 4
SPECIFICATION DeliverySpec
INVARIANTS
    DeliveryTypeOK
    NoSilentHole EndAfterTail
    EndCutsNothing NoSkippedEvent
    PermitsAccounted NoLostPermit
    NoUpdateDropped
PROPERTIES
    ReadersFinish ConsumersFinish WaiterIsServed UpdatesSettle InputsKept
CHECK_DEADLOCK FALSE
