\* Every command, with saves that may fail and one crash.
SPECIFICATION FairSpec
CONSTANTS
    Requests = {r1, r2}
    Commands = {"drain", "activate", "disable", "force", "reload"}
    SaveOutcomes = {"saved", "failed"}
    MaxCrashes = 1
INVARIANTS
    SafeToStop
    FenceMatchesGate
    DrainIsDriven
    OwnEvidenceIsFresh
PROPERTIES
    ImplementsDrainPromise
    DrainEnds
