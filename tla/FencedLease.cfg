SPECIFICATION LeaseSpec
CONSTANTS
    Holder = {h1, h2, h3}
    MaxToken = 4
    MaxWrites = 4
SYMMETRY HolderSymmetry
INVARIANTS LeaseTypeOK NoInterleavedWriters
PROPERTY ReleaseSparesSuccessor
CHECK_DEADLOCK FALSE
