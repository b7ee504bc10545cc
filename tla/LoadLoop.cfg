SPECIFICATION Spec
CONSTANTS
    Letters <- MCLetters
    MaxFile = 8
INVARIANTS
    LoopComputesLoad
    SavedIsReadBack
CHECK_DEADLOCK FALSE
