CONSTANTS
    Total = 2
    Skips <- FirstSkipped
    Wait = 1
    k1 = k1
    k2 = k2
    Packets <- TwoPackets
    NULL = NULL
    Garbage <- MCGarbage
    Spurious = FALSE
    MaxFrames = 1
    MaxSignals = 1
SPECIFICATION FairSpec
PROPERTIES
    SignalEndsProgram
    SubmittedIsGiven
