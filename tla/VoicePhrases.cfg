\* A command, a chunk and the rounding fill the holdback to the last sample.
SPECIFICATION Spec
CONSTANTS
    Words = {"a", "b"}
    Phrases <- OnePhrase
    SamplesPerMs = 2
    FrameMs = 2
    Holdback = 3
    CommandSamples = 3
    Latency = 0
    MaxChunk = 2
    MaxSamples = 12
    MaxWords = 2
INVARIANT StableTextAppendOnly
