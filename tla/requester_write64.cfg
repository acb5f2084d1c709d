SPECIFICATION Spec
CONSTANTS
    Loads <- Write64Load
    HostIds = 2
    FifoDepth = 16
    Backlog = 2
INVARIANTS FrameIsTlp
