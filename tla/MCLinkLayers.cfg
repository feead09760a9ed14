\* TM-SDUs of every kind, with fill bits behind them, cut, or with bits that are wrong.
SPECIFICATION Spec
CONSTANT
    Sdus <- MCSdus
INVARIANTS
    TypeOK
    ForwardedAsSent
    FillBitsAreHarmless
    CutIsNoticed
    FcsTellsDamage
