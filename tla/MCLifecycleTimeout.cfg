\* A direct Shutdown without a deadline is already running the hooks when the
\* waiter wakes.
SPECIFICATION FairSpec
CONSTANTS
    Hooks = {h1}
    Direct = {c1}
    Waiters = {w1}
    HasTimeout = TRUE
    LongHooks = {h1}
    PanicHooks = {}
CHECK_DEADLOCK FALSE
PROPERTIES
    TimeoutBoundsShutdown
