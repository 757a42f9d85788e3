\* Four concurrent callers, so that two probes, a stale closed call and a
\* stale probe can be outstanding together; fair, so that recovery is checked
\* on the same instance (hence no symmetry).
SPECIFICATION FairSpec
CONSTANTS
    Callers = {c1, c2, c3, c4}
    FailureThreshold = 2
    SuccessThreshold = 2
    OpenTimeout = 2
    MaxGeneration = 8
INVARIANTS
    ProbeBudget
PROPERTIES
    AdmittedUnderReportedState
    ImplementsContract
    Recovers
