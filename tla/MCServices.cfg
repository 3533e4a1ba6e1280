CONSTANTS
    Launchers = {poller, api}
    Api = api
    TaskSetups <- OnceOrCron
    MaxOccurrences = 2
    McpSetups <- PollOrNotify
    DegradedAfter = 1
    NoticeAttempts = 1
    MaxMoves = 1
    MaxVersions = 2
    w1 = w1
    w2 = w2
    Gateways = {g1, g2}
    Logins = {l1, l2}
    Calls = {k1, k2, k3, k4}
    Executions = {o1, o2}
    Forks = {f1}
    Workers = {w1, w2}
    MaxClients = 3
    CircuitThreshold = 2
    CallAttempts = 2
    Policies <- TwoPolicies
    LoginAttempts = 2
    MaxClock = 4
    MaxFailures = 3
    OutboxAttempts = 2
    MaxParked = 1
    MaxOutboxClaims = 3
SPECIFICATION ServicesSpec
INVARIANTS
    ServicesTypeOK
    CompletedOnceStays
    OutcomeReported
    BatchSettled LostClaimChangesNothing
    OneTransport
    PushesAllowed
    ProbeIsAccountedFor
    BoundClientIsLive
PROPERTIES
    ReopenedForItsRun SnapshotsInOrder LockIsServed StaleOutcomesIgnored
CHECK_DEADLOCK FALSE
