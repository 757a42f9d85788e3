\* A direct Shutdown and two waiters race with late Registers; one hook may
\* panic under a caller that recovers, the other waits for its deadline.
SPECIFICATION FairSpec
CONSTANTS
    Hooks = {h1, h2}
    Direct = {c1}
    Waiters = {w1, w2}
    HasTimeout = TRUE
    LongHooks = {h2}
    PanicHooks = {h1}
CHECK_DEADLOCK FALSE
INVARIANTS
    ReverseOrder
    OneResult
PROPERTIES
    ShutdownReturns
    TriggerLatches
