\* Three pools, two levels of blocks, one stop between two writes.  Ids are
\* not used again, so a run ends when they are used up.
SPECIFICATION Spec
CONSTANTS
    Net <- Networks
    Pool = {p1, p2, p3}
    MaxDepth = 2
    Narrowing = TRUE
    Ranged = TRUE
    Careful = TRUE
    MaxCrashes = 1
    None = None
VIEW Seen
SYMMETRY Symmetric
CHECK_DEADLOCK FALSE
INVARIANTS
    TypeOK
    PoolsApart
    HeldOnce
    DelegationsMatch
    BlockTreeSound
    GatewaysInVlans
PROPERTY AssignmentsKept
