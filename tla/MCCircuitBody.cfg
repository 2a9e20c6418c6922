\* One request after another, each with a good head and a body that breaks.
SPECIFICATION Spec
CONSTANTS
    Requests = {r1}
    Threshold = 3
    MaxEpoch = 2
INVARIANTS
    FailuresInARowOpen
CHECK_DEADLOCK FALSE
