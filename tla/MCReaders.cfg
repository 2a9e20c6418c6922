\* A body with four levels of objects, a page of five samples with one odd
\* one, three records over two files with two rotations, and two backends with
\* three changes by others.
SPECIFICATION ReadersSpec
CONSTANTS
    MaxDepth = 4
    MaxObjectBytes = 18
    MaxLines = 5
    MaxOdd = 1
    MaxExact = 2
    Records = {1, 2, 3}
    Key <- MCKey
    User <- MCUser
    Matches <- MCMatches
    Error = {2, 3}
    MaxNeedle = 1
    MaxFiles = 2
    MaxRotations = 2
    Fleet = {1, 2}
    MaxOperations = 2
    MaxChanges = 3
INVARIANTS
    ReadersTypeOK
    UsageIsTheLastObject
    ParsedAsTold
    ExplorerShowsTheFile
    HighlightFollows
    ConfirmedIsNamedWhileShown
    SafeMeansDisabled
CHECK_DEADLOCK FALSE
