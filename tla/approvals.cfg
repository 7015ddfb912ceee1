\* The waits of two chat requests of a conversation whose calls share a key.
SPECIFICATION FairSpec
CONSTANTS
    r1 = r1
    r2 = r2
    k1 = k1
    c1 = c1
    c2 = c2
    MaxWaits = 2
    Calls <- FirstCallFixed
    Requests = {r1, r2}
    Keys = {k1}
    Contents = {c1, c2}
    MaxClicks = 2
    None = None
    MaxFaults = 1
INVARIANTS
    EntriesAreLive
    GrantIsForThisCall
    FirstDecisionWins
    RecordSettles
PROPERTIES
    WaitsSettle
