SPECIFICATION Spec
CONSTANTS
    Values = {v1, v2}
    Zero = zero
    MaxInitialSize = 3
    MaxLen = 5
INVARIANTS
    TypeOK
    OffsetFinds
    NothingRetained
PROPERTY
    ImplementsFifo
