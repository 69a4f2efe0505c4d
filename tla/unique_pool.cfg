\* Two addresses, three switches, two interface names.
SPECIFICATION Spec
CONSTANTS
    Host = {h1, h2, h3}
    Iface = {i1, i2}
    Address = {a1, a2}
    Scans <- SwitchScans
    None = None
SYMMETRY Symmetric
INVARIANTS
    TypeOK
PROPERTIES
    SyncIsExact
    ResaveKeepsHoldings
