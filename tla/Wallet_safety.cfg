SPECIFICATION Spec
CONSTANTS
    Payments = {p1, p2}
    Keepers = {w1}
    Keys = {k1, k2}
    Nobody = Nobody
    NoFile = NoFile
    MaxSequence = 1
    MaxFaults = 1
INVARIANTS KnownOrJournaled PaidOnce AddressIsSpendable
SYMMETRY Symmetry
