SPECIFICATION Spec
CONSTANTS
    Nonces = {7, 8}
    BlockSize = 4
    MaxCounter = 2
    ReadSizes = {1, 2, 3, 5}
INVARIANTS
    TypeOK
PROPERTIES
    ReadReturns
    ImplementsStream
