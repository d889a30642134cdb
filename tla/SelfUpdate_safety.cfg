SPECIFICATION Spec
CONSTANTS
    Processes = {p, q}
    Versions = {1, 2, 3}
    Broken = {3}
    Temps = {t1, t2, t3, t4, t5}
    Absent = Absent
    Partial = Partial
    MoveAttempts = 2
    MaxBegun = 3
    MaxFaults = 3
INVARIANTS OldBinarySurvives  ReportIsTrue 
CHECK_DEADLOCK FALSE
