SPECIFICATION FairSpec
CONSTANTS
    Persons = {u1}
    Resumes = {c1}
    Flushes = {f1}
    Nobody = Nobody
    NoToken = NoToken
    MaxFamilies = 3
    MaxRotations = 1
    MaxDecisions = 3
    MaxFaults = 1
INVARIANTS NoReuse StopReachesEveryFamily
PROPERTIES RevocationCompletes
