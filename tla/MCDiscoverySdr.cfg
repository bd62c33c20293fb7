\* As MCDiscovery.cfg, for what app.py says of net-only receivers.
CONSTANTS
    Feeders <- MCFeeders
    Options <- MCOptions
    Kernel <- MCKernel
    ByteReport <- MCByteReport
    MessageReport <- MCMessageReport
    PortalAircraft <- MCPortalAircraft
    PortalRate <- MCPortalRate
    SyncCapable <- MCSyncCapable
    MlatCapable <- MCMlatCapable
    BinaryReport <- MCBinaryReport
    Answers <- MCAnswers
SPECIFICATION PublishingSpec
INVARIANT NetOnlySkipsSdr
