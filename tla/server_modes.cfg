SPECIFICATION Spec
CONSTANTS
    Loads <- NetworkOrHost
    HostIds = 2
    FrameIds = 2
    BadPlaces = {}
    MinIdle = 2
INVARIANTS
    TypeOK GrantSafe TlpIntact InOrder OneCompletion CompletionOwn RxInStep
    TurnoffClean
