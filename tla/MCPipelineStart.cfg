\* From the constructor on: has everything been done when the last stage is told so?
SPECIFICATION Spec
CONSTANTS
    t1 = t1
    t2 = t2
    t3 = t3
    quiet = quiet
    single = single
    pair = pair
    Workers <- TwoWorkers
    Work <- ThreeKinds
    Outputs <- MCOutputs
    MaxWork = 1
INVARIANT
    FlagMeansFinished
