SPECIFICATION Spec
CONSTANTS
    u1 = u1
    u2 = u2
    Users <- TwoUsers
    Machines <- SomeMachines
    MaxHeld = 3
SYMMETRY Symmetry
INVARIANTS TypeOK MmioMapped NothingLeft LineEnabled BoundComplete
CHECK_DEADLOCK FALSE
