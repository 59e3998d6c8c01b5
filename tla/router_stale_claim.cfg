CONSTANTS
    Models = {"a", "b", "c"}
    NoModel = "none"
    Requests = {1, 2, 3}
    Confs <- CrashConfs
SPECIFICATION FairSpec
PROPERTIES
    WaitersUnblocked
CHECK_DEADLOCK FALSE
