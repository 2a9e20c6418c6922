\* Two requests, two endpoints and four lives of the backend.
SPECIFICATION Spec
CONSTANTS
    Requests = {r1, r2}
    Endpoints = {urlA, urlB}
    Absent = Absent
    SuccessThreshold = 2
    FailureThreshold = 2
    MaxGeneration = 4
SYMMETRY Symmetry
INVARIANTS
    TypeOK
    DispatchedWasProbed
    LeasesKeepTheirEndpoint
    FencedStaysClosed
