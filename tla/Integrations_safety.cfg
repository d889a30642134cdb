SPECIFICATION Spec
CONSTANTS
    Configs = {A, B}
    Home = A
    Moved = {A}
    Processes = {p, q}
    Nobody = Nobody
    Unnamed = Unnamed
    MaxBegun = 3
    MaxFaults = 1
    MaxActs = 1
SYMMETRY Symmetry
INVARIANTS InstallSettles UninstallIsWhole EnvironmentReverted
 
CHECK_DEADLOCK FALSE
