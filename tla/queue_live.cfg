CONSTANTS
    c1 = c1
    c2 = c2
    p1 = p1
    Clients = {c1, c2}
    Probes = {p1}
    NSlots = 1
    MaxId = 2
    MaySleep = TRUE
    MayTerminate = TRUE
    MayCancel = FALSE
    MayThrow = FALSE
    MayReject = FALSE
    PromptWakeups = TRUE
SPECIFICATION FairSpec
PROPERTIES
    RequestAnswered
    WaiterServed
    ProbeReleased
    TerminateStops
CHECK_DEADLOCK FALSE
