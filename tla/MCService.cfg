\* Two requests, of three pairs of shapes, and a readiness probe against one worker and a
\* queue of one, so that the third task finds the queue full.
SPECIFICATION FairSpec
CONSTANTS
    r1 = r1
    r2 = r2
    Requests = {r1, r2}
    Probes = {p1}
    Workers = {w1}
    QueueSize = 1
    Traffic <- SomeTraffic
    PanicRequests = {r1}
    PanicProbes = {p1}
CHECK_DEADLOCK FALSE
INVARIANTS
    NoRequestMeetsClosedPool
    StoppedClean
    RecordsAgree
PROPERTIES
    StopRequestStops
