SPECIFICATION FairSpec
CONSTANTS
    MaxTasks = 3
    MaxPrepares = 2
    MaxQueue = 2
    Modes = {"transcription", "voiceInput"}
    Patient = TRUE
INVARIANTS TypeOK MicrophoneFollowsMode OneLiveSession PushIsNeverRefused TranscriptIsOfTheNewest
PROPERTIES StopKeepsAllAudio EveryClickEnds
CHECK_DEADLOCK FALSE
