\* The runs of one task, manual and scheduled: retries, expiry, dead letters, a
\* store that rejects calls and a worker that dies.
SPECIFICATION FairSpec
CONSTANTS
    Tasks = {t1}
    Ops = {o1}
    Occurrences = {j1}
    None = None
    RetryLimit = 1
    ListLimit = 1
    OpKinds = {"create", "update", "delete", "run"}
    MayAge = TRUE
    MayExpire = TRUE
    MaxFaults = 2
    MaxCrashes = 1
INVARIANTS
    TypeOK
    OneRunAtATime
    NoRunForgotten
PROPERTIES
    AnsweredRunSettles
