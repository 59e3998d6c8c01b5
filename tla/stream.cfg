CONSTANTS
    Requests = {"p", "q"}
    Readers = {"g"}
    Conversations = {"c"}
    NoConversation = "none"
    NoRequest = "nobody"
    MaxTasks = 2
    Confs <- StreamConfs
SPECIFICATION FairSpec
INVARIANTS
    WellFormed
    ReadsExactly
    ResultsOwned
    OnlyAskedToStop
    DrainedWhole
PROPERTIES
    RequestEnds
    ReaderEnds
CHECK_DEADLOCK FALSE
