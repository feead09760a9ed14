\* All workers have begun; the whole chain, safety and liveness.
SPECIFICATION SpecBegun
CONSTANTS
    t1 = t1
    t2 = t2
    t3 = t3
    quiet = quiet
    single = single
    pair = pair
    Workers <- TwoWorkers
    Work <- ThreeKinds
    Outputs <- MCOutputs
    MaxWork = 2
INVARIANTS
    TypeOK
    PropagatedByLastWorker
    SentInOrder
    FlagMeansFinished
    NothingLostAtExit
    StagesEndInOrder
PROPERTIES
    OrderedOutputAndEnd
    StopLeadsToExit
    EverythingSent
