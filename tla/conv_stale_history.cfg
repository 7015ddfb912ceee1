\* A turn that was stopped, and its run that goes on.
SPECIFICATION Spec
CONSTANTS
    Calls = {m1, m2, m3}
    Keys = {k1}
    None = None
    Limit = 0
    MaxEpoch = 0
    SharedEngine = FALSE
    StoreMayFail = FALSE
    Kinds = {"turn", "stop"}
    MaySignal = FALSE
    MaxCrashes = 0
    MaxArchives = 0
SYMMETRY Symmetric
INVARIANTS
    NoStaleHistory
