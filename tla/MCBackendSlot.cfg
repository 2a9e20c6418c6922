SPECIFICATION FairSpec
CONSTANTS
    Waiters = {w1, w2}
    Specs = {urlA, urlB}
    MaxSequence = 6
INVARIANTS
    LeasesBalance
    ZeroIsFinal
    ParkedForAReason
PROPERTIES
    IdleWaiterReturns
    ImplementsDrainPromise
\* The counters are bounded: the model stops where the code would panic.
CHECK_DEADLOCK FALSE
