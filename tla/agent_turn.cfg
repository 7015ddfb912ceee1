\* One reply with dispatches, handoffs, approvals and an abort at any point.
SPECIFICATION FairSpec
CONSTANTS
    Main = main
    Spaces = {s1, s2}
    None = None
    History <- CutOffHistory
    MainTools = {"read", "plain", "switch"}
    WorkTools = {"read", "write", "switch", "finish"}
    MaxCalls = 2
    MaxTurns = 2
    MaxToolIterations = 3
    MaxExitNudges = 1
    MaxContinueNudges = 1
    MaxHandoffDepth = 1
INVARIANTS
    RequestsAreLegal
    ResultsReachTheModel
    OneSpaceAtATime
    RunsEndInsideOut
    CompletedOnPurpose
PROPERTIES
    NoHandlerAfterExit
    AbortStops
    ReplyEnds
