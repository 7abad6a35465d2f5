\* One utterance of two complete windows and a padded one, one failing chunk.
SPECIFICATION Spec
CONSTANTS
    Lookahead = 3
    SlidingWindow = 5
    Heads = 2
    HeadDim = 2
    NumLayers = 2
    KernelSize = 6
    NumPrompts = 3
    Prompt = 1
    Blocks = {1340, 4040, 7924}
    MaxAudio = 10700
    MaxFaults = 1
    MaxSymbolsPerStep = 2
    ScorePatterns <- MCScorePatterns
INVARIANTS TypeOK WindowsAreWhole SubsamplingIsOfflineButForTheSeam LayersSeeOffline FrameClockFollowsCaches TokensFollowTheClock FinishCoversAudio
PROPERTIES WindowsAreOfTheAudio CallsReturn
