CONSTANTS
    c1 = c1
    c2 = c2
    c3 = c3
    Clients = {c1, c2, c3}
    Probes = {}
    NSlots = 1
    MaxId = 3
    MaySleep = FALSE
    MayTerminate = FALSE
    MayCancel = TRUE
    MayThrow = FALSE
    MayReject = TRUE
    PromptWakeups = TRUE
SPECIFICATION Spec
INVARIANTS
    DeferredNotStranded
CHECK_DEADLOCK FALSE
