CONSTANTS
    MaxSlots = 3
    Requests = {1, 2, 3, 4, 5}
    NoRequest = 0
    Loras = {"a", "b"}
    DefaultLora = "default"
    Confs <- BatchConfs
SPECIFICATION FairSpec
INVARIANTS
    WellFormed
    PromptInMemory
    SamplesOwnPrompt
    SamplesUnderOwnLora
    OutputsTogether
    AnsweredOnce
PROPERTIES
    SlotsGivenBack
CHECK_DEADLOCK FALSE
