SPECIFICATION FairSpec
CONSTANTS
    MaxTasks = 2
    MaxPrepares = 1
    MaxQueue = 1
    Modes = {"transcription"}
    Patient = TRUE
PROPERTY RecordingOnlyFromReady
CHECK_DEADLOCK FALSE
