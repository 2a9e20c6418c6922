\* Three requests compete for two slots: two requests' events interleave.
SPECIFICATION Spec
CONSTANTS
    Requests = {r1, r2, r3}
    RequestSlots = 2
    MaxEvents = 5
SYMMETRY Symmetry
INVARIANTS
    TypeOK
    PermitsBalance
    FailsOnlyWithTheWriter
    RecordsAreWhole
    NothingLostAtExit
CHECK_DEADLOCK FALSE
