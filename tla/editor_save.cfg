\* Two pages, nothing changing the files while one loads.
SPECIFICATION Spec
CONSTANTS
    Editor = {e1, e2}
    File = {f1, f2}
    Quiet = TRUE
    MaxSaves = 2
    MaxRemovals = 1
    MaxReconciles = 1
    Missing = Missing
    None = None
SYMMETRY Symmetric
INVARIANTS
    TypeOK
PROPERTY NothingOverwritten
