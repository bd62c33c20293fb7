\* As MCDiscovery.cfg, for what DEVELOPING.md says of ha_feeder_status.
CONSTANTS
    Feeders <- MCFeeders
    Options <- MCOptions
    Kernel <- MCKernel
    ByteReport <- MCByteReport
    MessageReport <- MCMessageReport
    PortalAircraft <- MCPortalAircraft
    PortalRate <- MCPortalRate
    SyncCapable <- MCSyncCapable
    MlatCapable <- MCMlatCapable
    BinaryReport <- MCBinaryReport
    Answers <- MCAnswers
SPECIFICATION PublishingSpec
INVARIANT StatusOffRetracts
