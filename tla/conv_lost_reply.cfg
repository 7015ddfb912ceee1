\* Turns of one conversation on its shared engine: the end of one reply while
\* the next has begun.
SPECIFICATION Spec
CONSTANTS
    Calls = {m1, m2, m3}
    Keys = {k1}
    None = None
    Limit = 0
    MaxEpoch = 0
    SharedEngine = TRUE
    StoreMayFail = FALSE
    Kinds = {"turn"}
    MaySignal = FALSE
    MaxCrashes = 0
    MaxArchives = 0
SYMMETRY Symmetric
INVARIANTS
    RepliesKept
