\* How long the synchronisation is held.
SPECIFICATION SpecSignal
CONSTANTS
    FrameLen = 5
    MissingFrames = 3
    ControlLen = 3
    CounterMod = 32
    Scores <- MCScores
INVARIANT
    HeldForMissingFrames
