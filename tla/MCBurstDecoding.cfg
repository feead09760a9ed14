\* One burst after another of a cell, from a base station or mobile stations.
SPECIFICATION Spec
CONSTANTS
    Correctable = 1
    MaxDownlink = 2
    Bursts <- MCBursts
    InjectedCode <- MCInjectedCode
INVARIANTS
    TypeOK
    UsageIsDecoded
    BlocksInPlace
    StolenAgrees
    ParsedAsSent
    FillDamageIsBounded
