SPECIFICATION Spec
CONSTANT
    Limit = 21
INVARIANTS TypeOK InStep
PROPERTIES Exchanges BothFinish OneFinishes
CHECK_DEADLOCK FALSE
