SPECIFICATION FairSpec
CONSTANTS
    MqttTimeout = 2
    SubscribeTimeout = 1
    FarewellTimeout = 1
    CloseTimeout = 1
    GatherTimeout = 1
    MinDelay = 1
    MaxDelay = 2
    DisconnectTimeout = 2
    Interval = 1
    ExpireAfter = 2
    Configs = 1
    StatePublishes = 1
INVARIANTS
    TypeOK
    DisconnectExitJustified
    OutageBounded
    StopBounded
    FeederHealthNeverStalls
    PublishingIsOnline
    SessionEndsOffline
    SessionRediscovers
PROPERTIES
    StopTerminates
    OutageTerminates
