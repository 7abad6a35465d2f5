SPECIFICATION FairSpec
CONSTANTS
    Tabs = {t1, t2}
    MaxRecordings = 2
    MaxChunks = 1
    Worlds <- MCSound
INVARIANT TabsDoNotMix
CHECK_DEADLOCK FALSE
