CONSTANTS
    Sizes = {1}
    MaxPacket = 3
    MaxTime = 3
    MaxDropped = 0
    Second = 2
SPECIFICATION Spec
INVARIANTS AckHeightIsMaxExcess
CHECK_DEADLOCK FALSE
