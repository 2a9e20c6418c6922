\* A drain superseded by a disable and an activation, then asked for again.
SPECIFICATION Spec
CONSTANTS
    Requests = {r1}
    Commands = {"drain", "activate", "disable"}
    SaveOutcomes = {"saved"}
    MaxCrashes = 0
INVARIANTS
    CertifiedByFreshEvidence
