SPECIFICATION Spec
CONSTANTS
    Payloads <- MCPayloads
    Rtts <- MCRtts
    MaxSent = 4
    MaxDoubles = 6
    MaxRetrans = 2
    MaxTime = 6
INVARIANTS
    LossIsFraction
    MtuIsKnown
    JitterOfLastTwo
    SctpWindowsAreDisjoint
CHECK_DEADLOCK FALSE
