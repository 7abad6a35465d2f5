SPECIFICATION FairSpec
CONSTANTS
    Tabs = {t1}
    MaxRecordings = 2
    MaxChunks = 1
    Worlds <- MCDying
PROPERTY EveryStopSettles
CHECK_DEADLOCK FALSE
