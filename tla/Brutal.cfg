SPECIFICATION Spec
CONSTANTS
    Second = 2
    MinPacingDelay = 1
    Millisecond = 1
    MaxBurstPackets = 1
    InitialPacketSize = 7
    DatagramSizes = {7, 10}
    HalfRange = 40
    bps = 9
    SlotCount = 2
    MinSampleCount = 3
    PacketSizes = {1, 7}
    AckCounts = {0, 5}
    LossCounts = {0, 1}
    StartTime = 8
    MaxTime = 14
    MaxIdle = 5
    MaxShift = 1
    MaxReported = 6
INVARIANTS
    TypeOK
    NoSpin
    CreditCovered
PROPERTY
    RateOfRecentSeconds
CHECK_DEADLOCK FALSE
