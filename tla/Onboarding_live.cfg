SPECIFICATION FairSpec
CONSTANTS
    Connects = {c1}
    Resumes = {r1}
    Enables = {e1}
    Nobody = Nobody
    Addresses = {x,y}
    NoAddress = NoAddress
    MaxAgents = 2
    MaxFaults = 1
    MaxActs = 2
INVARIANTS OneAgentInUse KeyIsKept DeclaredWasInForce
PROPERTIES JournalSettles
