SPECIFICATION Spec
CONSTANTS
    Topics = {"users.created", "orders.cancelled"}
    Blank <- MCBlank
    NoMessage = NoMessage
    MaxMessages = 2
    MaxStops = 2
    MaxMounts = 2
    ReconnectAttempts = 2
    Unset = Unset
    Fallback = "http://localhost:5005/eventhub"
    WindowEnv <- MCWindowEnv
    HubUrls <- MCHubUrls
    MaxFaults = 2
    MaxOccasions = 3
INVARIANTS
    TypeOK
    SkipsAtMostOnePerStop
    RebroadcastOnlyAfterRewind
    StatusTruthful
    OrphansWereStarting
    NewestFirst
    NothingMissed
    ShownOncePerRewind
PROPERTIES
    EventsReachThePage
    PageConnects
CHECK_DEADLOCK FALSE
