\* Two calls that manage one task, racing each other, its jobs and the worker
\* start; calls may break off.
SPECIFICATION FairSpec
CONSTANTS
    Tasks = {t1}
    Ops = {o1, o2}
    Occurrences = {j1}
    None = None
    RetryLimit = 2
    ListLimit = 1
    OpKinds = {"create", "update", "delete"}
    MayAge = FALSE
    MayExpire = FALSE
    MaxFaults = 2
    MaxCrashes = 1
INVARIANTS
    ReconcileRepairs
PROPERTIES
    OrphanScheduleGoes
