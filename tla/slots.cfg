CONSTANTS
    MaxSlots = 2
    MaxTasks = 8
    NoSlot = 0
    NoTask = 0
    NoLora = "any"
    Loras = {"a", "b"}
    Confs <- SlotConfs
SPECIFICATION FairSpec
INVARIANTS
    WellFormed
    PromptInMemory
PROPERTIES
    
    
    DeferredServed
CHECK_DEADLOCK FALSE
