\* What is reported of blocks with a wrong CRC.
SPECIFICATION Spec
CONSTANTS
    Correctable = 1
    MaxDownlink = 2
    Bursts <- MCBursts
    InjectedCode <- MCInjectedCode
INVARIANT
    CrcErrorReported
