SPECIFICATION Spec
CONSTANTS
    Hop = 1
    Reach = 2
    Sub = 8
    ChunkLen = 2
    LeftContext = 1
    RightContext = 1
    FifoLen = 3
    SpkcacheLen = 4
    UpdatePeriod = 3
    NumSpeakers = 2
    SilFramesPerSpk = 1
    PushSizes <- Pieces
    MaxAudio = 100
    EncoderDim = 4
    EncoderHeads = 2
    EncoderLayers = 2
    ConvKernel = 3
    TransformerDim = 2
    TransformerHeads = 1
    TransformerLayers = 1
INVARIANTS TypeOK PredsFollowRows FifoIsTheTail FramesInOrder FinishCoversAll ChunkIsEncodedOffline
CHECK_DEADLOCK FALSE
