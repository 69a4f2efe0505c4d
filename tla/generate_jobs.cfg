\* Two overlapping runs, two saves, deletions and a restart.
SPECIFICATION Spec
CONSTANTS
    Host = {h1}
    Run = {r1, r2}
    MaxVersion = 2
    MaxRestarts = 1
    None = None
INVARIANTS
    TypeOK
    RecordedNotNewer
PROPERTIES
    ConfigNeverOlder
    RunSettles
