\* Two lanes and four values: each forwarder can hold one while the consumer
\* waits.
SPECIFICATION FairSpec
CONSTANTS
    Lanes = {l1, l2}
    MaxValues = 4
CHECK_DEADLOCK FALSE
INVARIANTS
    DeliveredOnce
    LaneOrder
    ClosedMeansComplete
PROPERTIES
    NothingLeaks
