SPECIFICATION Spec
CONSTANTS
    Prog1 = Prog1
    Prog2 = Prog2
    NoLoss = NoLoss
    Progs <- TwoProgs
    Answers <- MCAnswers
    Kills = TRUE
INVARIANTS
    AppTypeOK
    NoThreadOutlives
    LosesAsAsked
    LeavesNoTrace
PROPERTIES
    LeavesInTheEnd
