CONSTANTS
    Models = {"a", "b", "c"}
    NoModel = "none"
    Requests = {1, 2, 3}
    Confs <- RouterConfs
SPECIFICATION FairSpec
INVARIANTS
    WellFormed
    LimitsKept
PROPERTIES
    NotCutOff
    WaiterServed
    ShutdownEnds
CHECK_DEADLOCK FALSE
