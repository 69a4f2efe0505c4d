\* Three spellings of two switches, three requests and a generation at work,
\* one stop.
SPECIFICATION Spec
CONSTANTS
    Name = {sw, SW, other}
    sw = sw
    SW = SW
    other = other
    Key <- MCKey
    Starts <- Alone
    Group = {cx, cx_vsx}
    Address = {ip}
    ip = ip
    Rows <- MCRows
    Thread = {t1, t2, t3}
    Generation = {g1}
    Quiet = TRUE
    MaxRequests = 4
    MaxFaults = 1
    None = None
SYMMETRY Symmetric
CHECK_DEADLOCK FALSE
INVARIANTS
    TypeOK
    NamesDistinct
    FilesFollowListing
PROPERTY InventorySpec
