\* A save whose directory sync fails after the rename.
SPECIFICATION Spec
CONSTANTS
    Requests = {r1}
    Commands = {"drain", "activate"}
    SaveOutcomes = {"saved", "torn"}
    MaxCrashes = 1
INVARIANTS
    SafeToStop
