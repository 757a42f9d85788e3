\* Every policy, with rendezvous and two-slot subscriptions; two publishers race
\* with two subscribers (one filters), the context watchers, late Subscribes and
\* Close, under DropOldest also in deliver's evict and resend window.
SPECIFICATION FairSpec
CONSTANTS
    s1 = s1
    p1 = p1
    Subs = {s1, s2}
    Pubs = {p1, p2}
    PerPub = 2
    BufSizes = {0, 2}
    Choices <- Policies
    Filters <- SomeFilters
CHECK_DEADLOCK FALSE
INVARIANTS
    NoChannelPanic
    ExactlyOnce
    InOrder
    RegistryIsTruth
PROPERTIES
    CancelClosesChannel
    PublishReturns
