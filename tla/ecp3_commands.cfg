SPECIFICATION Spec
CONSTANTS
    DwLen = 16
    Clients <- TestClients
    Pairs <- TestPairs
    Trailers <- TestTrailers
    MaxPackets = 2
    MinGap = 20
    RdyDelays = {0, 22}
INVARIANTS TypeOK WritesAsMeant FramesApart
