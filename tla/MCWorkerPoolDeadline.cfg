\* Blocking Submit and a task that waits for the hard stop: a Close whose
\* context is done need not return.
SPECIFICATION FairSpec
CONSTANTS
    Tasks = {t1, t2, t3}
    Workers = {w1}
    Closers = {k1}
    QueueSize = 1
    NonBlock = FALSE
    PanicHandler = TRUE
    LongTasks = {t1}
    PanicTasks = {}
CHECK_DEADLOCK FALSE
PROPERTIES
    CloseHonoursDeadline
