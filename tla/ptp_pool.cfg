\* Two /31s, three switches, scans of at most two different interfaces.
SPECIFICATION Spec
CONSTANTS
    Host = {h1, h2, h3}
    Iface = {i1, i2}
    Pairs = 2
    Scans <- DistinctScans
    None = None
SYMMETRY Symmetric
INVARIANTS
    TypeOK
    PairsConsistent
PROPERTIES
    SyncIsExact
    ResaveIsNoOp
