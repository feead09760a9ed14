\* Uplink: are the fragments that are held together from one mobile station?
SPECIFICATION Spec
CONSTANTS
    m1 = m1
    m2 = m2
    Network = Network
    NoAddress = NoAddress
    Addresses <- Mobiles
    Signals <- UplinkOnly
    metrics_ = TRUE
    MaxBursts = 2
INVARIANT
    HeldFromOneStation
CHECK_DEADLOCK FALSE
