\* Two requests compete for one slot.
SPECIFICATION FairSpec
CONSTANTS
    Requests = {r1, r2}
    RequestSlots = 1
    MaxEvents = 5
PROPERTIES
    EndedIsRecorded
    ProxyStops
CHECK_DEADLOCK FALSE
