\* Two converters, at most two conversions; utterances of at most five frames.
SPECIFICATION Spec
CONSTANTS
    Converters = {c1, c2}
    MaxConversions = 2
    Speakers = {0, 1}
    Threshold = 50
    SmoothFrames = 1
    MinTurnMs = 160
    FrameMs = 80
    AsrChunk = 2
    DiarChunk = 3
    AsrPatterns <- MCAsrPatterns
    DiarPatterns <- MCDiarPatterns
    Pushes = {2, 3}
    Cutoffs = {160}
    MaxAudio = 5
    MaxFaults = 2
SYMMETRY MCSymmetry
INVARIANTS TypeOK SegmentsSpellTheTranscript SegmentsFollowTime ShortTurnsStandTogether WarningTellsDegraded LoadedModelIsWhole
PROPERTIES LongTurnsKeepTheirSpeaker NoUpdateMeansUnchanged
CHECK_DEADLOCK FALSE
