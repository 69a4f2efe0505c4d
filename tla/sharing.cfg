\* Three users, a group, two requests at a time, one stop.
SPECIFICATION Spec
CONSTANTS
    Name = {u1, u2, u3}
    Admins <- AllAdmins
    Group = {g1}
    Member <- AllMembers
    Level = {"edit"}
    Thread = {t1, t2}
    Orderly = TRUE
    Unshared = TRUE
    MaxStops = 1
    None = None
SYMMETRY Symmetric
INVARIANT TypeOK
PROPERTY AccessSpec
