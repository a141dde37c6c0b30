SPECIFICATION Spec
CONSTANTS
    ByteBits = 2
    WordBytes = 2
    StreamBytes = 5
    FloatBits = 3
    WeightLists <- SmallWeights
INVARIANTS
    TypeOK
    Uniform
    FewRejections
PROPERTIES
    FairCallsReturn
