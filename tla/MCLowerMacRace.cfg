\* The downlink or the uplink, two workers: does every burst count?
SPECIFICATION Spec
CONSTANTS
    t1 = t1
    t2 = t2
    Threads <- TwoThreads
    TimeSlots = 2
    FrameNumbers = 2
    MultiFrames = 2
    Cell = Cell
    NoCode = NoCode
    Injected = Injected
INVARIANT
    EveryBurstIsCounted
SYMMETRY
    Symmetry
