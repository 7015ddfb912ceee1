\* What later turns read, over a crash: one conversation, a fresh engine for
\* every call, a store that works and nobody who aborts.  The cap is off.
SPECIFICATION Spec
CONSTANTS
    Calls = {m1, m2, m3, m4}
    Keys = {k1}
    None = None
    Limit = 0
    MaxEpoch = 4
    SharedEngine = FALSE
    StoreMayFail = FALSE
    Kinds = {"turn", "new"}
    MaySignal = FALSE
    MaxCrashes = 1
    MaxArchives = 0
SYMMETRY Symmetric
INVARIANTS
    AckedResetIsKept
    NoStaleHistory
    RepliesKept
