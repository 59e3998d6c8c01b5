CONSTANTS
    NSeq = 2
    MaxCopies = 2
    Confs <- CacheConfs
SPECIFICATION Spec
INVARIANTS
    WellFormed
    KeyAtPosition
PROPERTIES
    AttendsWindow
    Implements
CHECK_DEADLOCK FALSE
