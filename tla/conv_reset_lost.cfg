\* /new against a status change by the web process, and a worker crash.
SPECIFICATION Spec
CONSTANTS
    Calls = {m1, m2, m3}
    Keys = {k1}
    None = None
    Limit = 0
    MaxEpoch = 3
    SharedEngine = FALSE
    StoreMayFail = FALSE
    Kinds = {"turn", "new"}
    MaySignal = FALSE
    MaxCrashes = 1
    MaxArchives = 1
SYMMETRY Symmetric
INVARIANTS
    AckedResetIsKept
