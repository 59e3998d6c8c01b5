CONSTANTS
    MaxSlots = 2
    Requests = {1, 2, 3, 4, 5}
    NoRequest = 0
    Loras = {"a", "b"}
    DefaultLora = "default"
    Confs <- FamilyConfs
SPECIFICATION Spec
INVARIANTS
    SamplesOwnPrompt
CHECK_DEADLOCK FALSE
