\* The app is updated, rolled back and installed by processes that may die.
SPECIFICATION Spec
CONSTANTS
    Procs = {p1, p2, p3}
    Latest = 3
    Commands = {"update", "rollback", "seed", "payload"}
    MaxInstalls = 1
    MaxFaults = 1
    MaxDeaths = 1
SYMMETRY Symmetry
INVARIANTS
    TypeOK
    OneUpdater
    WholeVersionRemains
    MetadataIsTrue
PROPERTIES
    UpdateNeverDowngrades
\* Every process ends.
CHECK_DEADLOCK FALSE
