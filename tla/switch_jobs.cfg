\* Pushes, upgrades and dry runs of one switch, pushes and upgrades requested one
\* at a time.
SPECIFICATION Spec
CONSTANTS
    Host = {h1}
    Request = {r1, r2}
    Owner = {o1, o2}
    Serial = TRUE
    MaxVersion = 1
    MaxTransfers = 1
    MaxRestarts = 1
    None = None
INVARIANTS
    TypeOK
    ExclusiveSwitch
    SameIsOnSwitch
PROPERTY JobSettles
