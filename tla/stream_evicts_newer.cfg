CONSTANTS
    Requests = {"p", "q"}
    Readers = {"g"}
    Conversations = {"c"}
    NoConversation = "none"
    NoRequest = "nobody"
    MaxTasks = 2
    Confs <- ReplaceConfs
SPECIFICATION Spec
INVARIANTS
    SessionFindable
CHECK_DEADLOCK FALSE
