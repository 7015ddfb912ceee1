\* The WeChat channel of a gateway process with one rare event.
SPECIFICATION FairSpec
CONSTANTS
    Adapters = {a1, a2}
    Configs = {ask, full}
    None = None
    MaxLogins = 2
    MaxSaves = 1
    Troubles = {"fault", "crash", "stop", "delete", "expiry"}
    MaxTroubles = 1
    MaxPasses = 2
    MaxCommands = 1
    CommandTypes = {"connect", "refresh", "logout"}
INVARIANTS
    TypeOK
    OnePoller
    PolicyIsOfTheAdapter
    ShownStateIsTrue
    SessionIsTrue
    CommandsAtMostOnce
PROPERTIES
    RequestsAreFollowed
