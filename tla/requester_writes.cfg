SPECIFICATION Spec
CONSTANTS
    Loads <- PingPongLoad
    HostIds = 2
    FifoDepth = 16
    Backlog = 2
INVARIANTS TypeOK FrameIsTlp
PROPERTIES FrameGap TlpSent
