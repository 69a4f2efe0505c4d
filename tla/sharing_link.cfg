\* An account with shares is linked away: violated.
SPECIFICATION Spec
CONSTANTS
    Name = {u1, u2, u3}
    Admins <- AllAdmins
    Group = {g1}
    Member <- AllMembers
    Level = {"edit"}
    Thread = {t1, t2}
    Orderly = TRUE
    Unshared = FALSE
    MaxStops = 0
    None = None
SYMMETRY Symmetric
INVARIANT SharesNameAccounts
