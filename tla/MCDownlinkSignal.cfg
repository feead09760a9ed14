\* Whole and damaged bursts in any order, or any bits, in both directions.
SPECIFICATION SpecSignal
CONSTANTS
    FrameLen = 5
    MissingFrames = 3
    ControlLen = 3
    CounterMod = 32
    Scores <- MCScores
INVARIANTS
    TypeOK
    CounterInRange
    SyncIsBounded
    WholeAfterWholeIsQueued
PROPERTIES
    BurstsApart
    SyncIsLost
