\* The lock, the cap and the activeRuns map: two conversations compete for one
\* permit, with /stop, a store that may fail and a worker crash.
SPECIFICATION Spec
CONSTANTS
    Calls = {m1, m2, m3}
    Keys = {k1, k2}
    None = None
    Limit = 1
    MaxEpoch = 0
    SharedEngine = TRUE
    StoreMayFail = TRUE
    Kinds = {"turn", "stop"}
    MaySignal = FALSE
    MaxCrashes = 1
    MaxArchives = 0
SYMMETRY Symmetric
INVARIANTS
    TypeOK
    TailsMatchCalls
    PermitAccounting
    ActiveRunIsCurrent
PROPERTIES
    TurnsAreSerial
