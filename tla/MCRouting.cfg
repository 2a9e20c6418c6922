\* Three requests over two backends, with two scrapes and one change of a
\* mode, a readiness or a circuit: each may come between any two steps.
SPECIFICATION RoutingSpec
CONSTANTS
    Requests = {r1, r2, r3, r4}
    Threshold = 3
    MaxEpoch = 5
    Backends = {1, 2}
    Callers = {r1, r2, r3}
    Reported <- ReportedCapacity
    Configured <- ConfiguredCapacity
    Kv <- CacheUse
    SoftLimit = 85
    MaxScrapes = 2
    MaxShocks = 1
SYMMETRY Interchangeable
INVARIANTS
    RoutingTypeOK
    TrialHasOneOwner
    ClosedBelowThreshold
    CountedUnlessInTransit
    ShownAsRouted
PROPERTIES
    OpenOnlyElapses
    NoStampede
CHECK_DEADLOCK FALSE
