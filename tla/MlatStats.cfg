\* One feeder whose server pushes and one whose server never does.
CONSTANTS
    Feeders = {"adsblol", "radarbox"}
    SyncCapable = {"adsblol"}
    StaleAfter = 2
    Interval = 1
SPECIFICATION FairSpec
INVARIANTS TypeOK FieldsKept
PROPERTIES DeadReadsZero RecentIsShown LiveIsShown
