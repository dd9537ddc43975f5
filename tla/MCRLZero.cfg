SPECIFICATION Spec
CONSTANTS
    Conns = {c1}
    InitialPacketSize = 2
    DatagramSizes <- MCDatagramSizes
    InitialCongestionWindow = 4
    FallbackWindow = 7
    MaxInitialSeq = 0
    MaxTicks = 3
INVARIANT PacerBandwidthNeverZero
