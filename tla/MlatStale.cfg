\* A server that stops pushing to a client that lives on.
CONSTANTS
    Feeders = {"adsblol"}
    SyncCapable = {"adsblol"}
    StaleAfter = 2
    Interval = 1
SPECIFICATION FairSpec
PROPERTY NotSyncingReadsZero
