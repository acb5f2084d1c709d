SPECIFICATION Spec
CONSTANTS
    Loads <- ReadsAndFrames
    HostIds = 2
    FrameIds = 2
    BadPlaces = {1, 2, 4, 5}
    MinIdle = 2
PROPERTIES ReadAnswered TurnoffAgreed FrameServed
