\* Lookahead 0, which the README lists as supported, and no failures.
SPECIFICATION Spec
CONSTANTS
    Lookahead = 0
    SlidingWindow = 5
    Heads = 2
    HeadDim = 2
    NumLayers = 2
    KernelSize = 6
    NumPrompts = 3
    Prompt = 1
    Blocks = {40, 200, 4040}
    MaxAudio = 8000
    MaxFaults = 0
    MaxSymbolsPerStep = 2
    ScorePatterns <- MCScorePatterns
INVARIANTS SupportedLookaheadStreams
