\* Three requests of two unknown methods, which share one series; latencies on
\* both sides of the bound; two scrapes.
SPECIFICATION Spec
CONSTANTS
    Requests = {r1, r2, r3}
    Methods = {"PROPFIND", "junk"}
    KnownMethods = {"GET"}
    Codes = {200}
    Latencies = {1, 2}
    Bounds <- OneBound
    MaxScrapes = 2
SYMMETRY Interchangeable
CHECK_DEADLOCK FALSE
INVARIANTS
    NoObservationLost
PROPERTIES
    ScrapeMonotone
