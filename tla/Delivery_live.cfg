SPECIFICATION FairSpec
CONSTANTS
    Searches = {s1, s2}
    RecordIds = {r1, r2}
    Flushes = {f1}
    MaxEpoch = 1
    ConfiguredMaxAttempts = 2
    DefaultMaxAttempts = 2
    MaxConflicts = 1
    MaxFaults = 0
    MaxCrashes = 1
    NoFile = NoFile
    Unnamed = Unnamed
    Nobody = Nobody
PROPERTIES EventuallyThrough
