\* A token is three units and a tick adds two: a lone waiter sleeps for two
\* ticks and is funded with a unit to spare.  Five calls, so that two can
\* cancel in front of a third and a fifth can overtake it.
SPECIFICATION Spec
CONSTANTS
    Callers = {c1, c2, c3, c4, c5}
    One = 3
    Rate = 2
    Burst = 1
    MaxTime = 2
SYMMETRY Interchangeable
CHECK_DEADLOCK FALSE
INVARIANTS
    Conservation
    DebtCovered
    RateHolds
    ServedInOrder
