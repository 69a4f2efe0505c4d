\* Three read-modify-write requests on two owners' projects.
SPECIFICATION Spec
CONSTANTS
    Request = {r1, r2, r3}
    Owner = {o1, o2}
    Inode = {i1, i2, i3}
    Kinds = {"update"}
    None = None
INVARIANTS
    TypeOK
PROPERTIES
    StoreSpec
    EveryRequestEnds
