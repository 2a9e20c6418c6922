\* A client hangs up while its key is being created; another registers.
SPECIFICATION Spec
CONSTANTS
    Clients = {c1, c2}
    Names = {"n1", "n2", "n3"}
    Operator = operator
    MaxKeys = 3
    MaxCrashes = 0
INVARIANTS
    AcknowledgedIsDurable
CHECK_DEADLOCK FALSE
