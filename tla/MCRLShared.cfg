SPECIFICATION Spec
CONSTANTS
    Conns = {c1, c2}
    InitialPacketSize = 2
    DatagramSizes <- MCDatagramSizes
    InitialCongestionWindow = 4
    FallbackWindow = 7
    MaxInitialSeq = 1
    MaxTicks = 1
INVARIANT OwnActionsOnly
