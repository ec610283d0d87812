CONSTANTS
    Total = 2
    Skips <- AllAnswered
    Wait = 1
    k1 = k1
    k2 = k2
    Packets <- OnePacket
    NULL = NULL
    Garbage <- MCGarbage
    Spurious = FALSE
    MaxFrames = 2
    MaxSignals = 1
SPECIFICATION FairSpec
PROPERTIES
    WaitIsAfterScan
