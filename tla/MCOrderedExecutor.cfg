\* Safety from the real initial state, three workers.
SPECIFICATION Spec
CONSTANTS
    t1 = t1
    t2 = t2
    t3 = t3
    a = a
    b = b
    Workers <- ThreeWorkers
    Work <- TwoKinds
    MaxWork = 3
INVARIANTS
    TypeOK
    AliveIsCounted
    OnePlace
    LeaveOnlyDrained
PROPERTIES
    OrderedOutput
    EveryResultHandedOut
