\* Three registrations for two free places, with a restart; and one manager
\* beside two issuers, of two names.
SPECIFICATION KeysSpec
CONSTANTS
    Clients = {c1, c2, c3}
    Names = {n1, n2, n3}
    Operator = operator
    MaxKeys = 3
    MaxCrashes = 1
    KeyNames = {k1, k2}
    Managers = {m1}
    Issuers = {i1, i2}
INVARIANTS
    DurableUnlessDetached
    LimitAndNamesHold
    EnabledAdminKept
    RevokedStaysRevoked
CHECK_DEADLOCK FALSE
