SPECIFICATION WireSpec
CONSTANTS
    WordBits = 15
    HalfBits = 8
    Kinds <- MCKinds
    RawKinds <- MCRawKinds
    Batches <- MCBatches
    RawBuffers <- MCRawBuffers
    UnknownFields <- MCUnknownFields
    MaxCut = 24
INVARIANTS
    NeverPanics
    DecodedAsSent
    CutLosesWholeFields
    HandlerReadsUnpacked
    DecodeEnds
CHECK_DEADLOCK FALSE
