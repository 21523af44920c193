SPECIFICATION Spec
CONSTANTS
    Procs = {p1, p2}
    MaxCodes = 2
    MaxFaults = 1
    OtpTtl = 2
    MaxAttempts = 1
SYMMETRY Symmetry
INVARIANTS
    GuessesBounded
    ConsumedIsGone
    OtpInv
PROPERTY CodeEndsForCause
