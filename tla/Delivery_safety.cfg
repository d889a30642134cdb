SPECIFICATION Spec
CONSTANTS
    Searches = {s1}
    RecordIds = {r1, r2, r3}
    Flushes = {f1, f2}
    MaxEpoch = 2
    ConfiguredMaxAttempts = 2
    DefaultMaxAttempts = 2
    MaxConflicts = 1
    MaxFaults = 2
    MaxCrashes = 1
    NoFile = NoFile
    Unnamed = Unnamed
    Nobody = Nobody
INVARIANTS KeptThroughPowerLoss OneIdentity AttemptBudget
PROPERTIES VerdictStands Promise LetGoOnlyForCause ContextStands
SYMMETRY Symmetry
