--------------------------- MODULE MCTranscriber ---------------------------
EXTENDS StreamingTranscriber

\* Silence, and a chunk with a frame that runs into the symbol limit.
MCScorePatterns == {[i \in 1..EncoderFramesPerChunk |-> 0],
                    [i \in 1..EncoderFramesPerChunk |-> IF i = 1 THEN 1 ELSE IF i = 3 THEN 3 ELSE 0]}
=============================================================================
