SPECIFICATION Spec
CONSTANTS
    Procs <- TwoProcs
    Owns <- AgreedOwns
    Values <- SomeValues
INVARIANTS TypeOK RegisterHolds ReadBack
