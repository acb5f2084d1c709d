SPECIFICATION Spec
CONSTANTS
    Procs <- TwoProcs
    Owns <- Mem0Owns
    Values <- SomeValues
INVARIANTS RegisterHolds
