\* Uplink and downlink, with metrics.
SPECIFICATION Spec
CONSTANTS
    m1 = m1
    m2 = m2
    Network = Network
    NoAddress = NoAddress
    Addresses <- Mobiles
    Signals <- BothDirections
    metrics_ = TRUE
    MaxBursts = 4
INVARIANTS
    TypeOK
    Reassembly
    OneSender
    InOrder
    PushedOrFailed
\* MaxBursts have been processed.
CHECK_DEADLOCK FALSE
