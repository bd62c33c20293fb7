\* One feeder of each kind; two bytes, so that a counter can grow,
\* and fall behind a sample when pfclient restarts.
CONSTANTS
    Community = {"adsblol"}
    Conn = {"piaware"}
    Proc = {}
    MaxBytes = 2
SPECIFICATION Spec
INVARIANTS
    TypeOK
    NoFalseUp
    NoFalseDown
    PlanefinderFollowsTraffic
    UptimeMatchesStatus
    RatesNeverOvercount
