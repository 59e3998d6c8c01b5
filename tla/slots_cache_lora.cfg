CONSTANTS
    MaxSlots = 2
    MaxTasks = 8
    NoSlot = 0
    NoTask = 0
    NoLora = "any"
    Loras = {"a", "b"}
    Confs <- LoraConfs
SPECIFICATION Spec
INVARIANT
    ReusedUnderOwnLora
CHECK_DEADLOCK FALSE
