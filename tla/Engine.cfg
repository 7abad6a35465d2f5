SPECIFICATION FairSpec
CONSTANTS
    Tabs = {t1, t2}
    MaxRecordings = 3
    MaxChunks = 2
    Worlds <- MCWorlds
INVARIANTS TypeOK FinalIsOneRecording StartFindsNoSession FinalHasItsStop
PROPERTIES StopBeforeLossSettles RecordingsAreAnswered
CHECK_DEADLOCK FALSE
