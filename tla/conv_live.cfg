\* Progress while callers abort and stop turns and the web changes the status
\* of conversations.  Nothing crashes.
SPECIFICATION FairSpec
CONSTANTS
    Calls = {m1, m2}
    Keys = {k1, k2}
    None = None
    Limit = 1
    MaxEpoch = 2
    SharedEngine = TRUE
    StoreMayFail = FALSE
    Kinds = {"turn", "new", "info", "stop"}
    MaySignal = TRUE
    MaxCrashes = 0
    MaxArchives = 1
PROPERTIES
    EveryCallAnswered
