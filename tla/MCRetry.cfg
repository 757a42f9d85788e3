\* Durations from -16 to 15, so that doubling and jitter both overflow within
\* four attempts.
SPECIFICATION BackoffSpec
CONSTANTS
    Half = 16
    Policies <- ManyPolicies
CHECK_DEADLOCK FALSE
INVARIANTS
    NoTxLeftOpen
    CommitsAccounted
    DelaysKeepPolicy
