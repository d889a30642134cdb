SPECIFICATION TraceSpec
CONSTANTS
    Claude = {a, b}
    Cursor = {c, d}
    Pids = {p, q}
    Absent = Absent
    MaxEvents = 3
    MaxMishaps = 1
SYMMETRY Symmetry
INVARIANTS  CallIsExact NeverCountedTwice
PROPERTIES NeverTheFile
CHECK_DEADLOCK FALSE
