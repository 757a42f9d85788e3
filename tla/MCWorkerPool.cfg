\* Blocking Submit on a queue of one with one worker: Submits wait for space,
\* for the lock behind a Close, or for their context; two Closes, a task that
\* may panic into the handler, one that waits for the hard stop.
SPECIFICATION FairSpec
CONSTANTS
    Tasks = {t1, t2, t3}
    Workers = {w1}
    Closers = {k1, k2}
    QueueSize = 1
    NonBlock = FALSE
    PanicHandler = TRUE
    LongTasks = {t3}
    PanicTasks = {t1}
CHECK_DEADLOCK FALSE
INVARIANTS
    NoSendOnClosed
    OneHome
    DrainedOnNil
PROPERTIES
    AcceptedTasksFinish
    NobodyWaitsForever
