SPECIFICATION Spec
CONSTANTS
    PacketNumbers = {0, 1, 2, 3, 4}
    Entries = {e1, e2}
    NoEntry = none
INVARIANTS
    TypeOK
    FrontPresent
PROPERTY
    ImplementsPacketMap
