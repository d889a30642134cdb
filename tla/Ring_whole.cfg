SPECIFICATION FairSpec
CONSTANTS
    Observations = {o1}
    Slabs = {s1}
    Size = 2
    BodyLength = 4
    MaxCloses = 2
    NoSlab = NoSlab
INVARIANTS SlabsAreConserved NoUseAfterRelease ReportsTheBody
PROPERTIES Promise SlabComesBack
CHECK_DEADLOCK FALSE
