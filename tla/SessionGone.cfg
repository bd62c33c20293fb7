SPECIFICATION Spec
CONSTANTS
    MqttTimeout = 5
    SubscribeTimeout = 2
    FarewellTimeout = 2
    CloseTimeout = 5
    GatherTimeout = 5
    MinDelay = 3
    MaxDelay = 60
    DisconnectTimeout = 300
    Interval = 30
    ExpireAfter = 120
    Configs = 2
    StatePublishes = 2
INVARIANT
    GoneIsOffline
