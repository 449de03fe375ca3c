SPECIFICATION Spec
CONSTANTS
    Sizes <- MCSizes
    PartSizes <- MCPartSizes
    Lengths <- MCLengths
    PayloadParts <- MCPayloadParts
INVARIANTS
    TypeOK
    RightBytes
    ExactParts
    ShortBodyRefused
PROPERTY
    SliceEnds
CHECK_DEADLOCK FALSE
