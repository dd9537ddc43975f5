CONSTANTS
    Sizes = {1}
    MaxPacket = 4
    MaxTime = 3
    MaxDropped = 1
    Second = 2
SPECIFICATION Spec
INVARIANTS OutstandingTracked TotalsBalance AppLimitedRule EpochBytesAcked
CHECK_DEADLOCK FALSE
