SPECIFICATION SSpec
CONSTANTS
    Connects = {c1, s1}
    InSetup = s1
    Resumes = {}
    Enables = {}
    Nobody = Nobody
    Addresses = {x}
    NoAddress = NoAddress
    MaxAgents = 2
    MaxFaults = 1
    MaxActs = 1
INVARIANTS AgentsAcrossSetup AdoptedTogether
