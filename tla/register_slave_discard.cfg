SPECIFICATION Spec

CONSTANTS
    Byte = 4
    Mutable = 2
    ReadOnly = 1
    BufferLength = 3
    MaxFrame = 4
    DataBytes = {0, 1}
    WritesReadOnly = TRUE

PROPERTY KeepsRegisterFile
