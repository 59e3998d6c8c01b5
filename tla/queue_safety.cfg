CONSTANTS
    c1 = c1
    c2 = c2
    p1 = p1
    Clients = {c1, c2}
    Probes = {p1}
    NSlots = 1
    MaxId = 2
    MaySleep = TRUE
    MayTerminate = TRUE
    MayCancel = TRUE
    MayThrow = TRUE
    MayReject = TRUE
    PromptWakeups = TRUE
SPECIFICATION Spec
INVARIANTS
    TypeOK
    CallbackExclusion
    DeclinedOnlyWhileYielding
    NoLostWakeup
    OnlyMainAwaitsRequest
    LoopTurns
PROPERTIES
    ServiceOrderKept
    Implements
SYMMETRY Symmetry
CHECK_DEADLOCK FALSE
