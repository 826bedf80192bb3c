SPECIFICATION Spec
CONSTANTS
    Byte = {0, 1}
    Capacity = 3
    MaxRequest = 4
INVARIANTS TypeOK PointersAgree
PROPERTY IsFifo
