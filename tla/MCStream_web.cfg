SPECIFICATION Spec
CONSTANTS
    Topics = {"users.created", "orders.cancelled"}
    Blank = {}
    NoMessage = NoMessage
    MaxMessages = 2
    MaxStops = 0
    MaxMounts = 1
    ReconnectAttempts = 4
    Unset = Unset
    Fallback = "http://localhost:5005/eventhub"
    WindowEnv = {"http://localhost:5005/eventhub"}
    HubUrls = {"http://localhost:5005/eventhub"}
    MaxFaults = 0
    MaxOccasions = 2
PROPERTIES
    BridgeServes
CHECK_DEADLOCK FALSE
