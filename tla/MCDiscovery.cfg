\* Every pair of option sets, runs cut short at every publish.
CONSTANTS
    Feeders <- MCFeeders
    Options <- MCOptions
    Kernel <- MCKernel
    ByteReport <- MCByteReport
    MessageReport <- MCMessageReport
    PortalAircraft <- MCPortalAircraft
    PortalRate <- MCPortalRate
    SyncCapable <- MCSyncCapable
    MlatCapable <- MCMlatCapable
    BinaryReport <- MCBinaryReport
    Answers <- MCAnswers
SPECIFICATION PublishingSpec
INVARIANTS TypeOK MainSettles FeedersSettle PublishedIsAdvertised
PROPERTIES NoBlip AdvertisedIsFed
