\* Updates, deletes, transfers and creates of one project, two owners.
SPECIFICATION Spec
CONSTANTS
    Request = {r1, r2, r3}
    Owner = {o1, o2}
    Inode = {i1, i2, i3}
    Kinds = {"update", "delete", "transfer", "create"}
    None = None
SYMMETRY Symmetric
INVARIANTS
    OverlapOnlyAfterUnlink
    SavedChangeKept
